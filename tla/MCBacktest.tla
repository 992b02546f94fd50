----------------------------- MODULE MCBacktest -----------------------------
EXTENDS Backtest

Shape(o, h, l, c) == [open |-> 100000 + 1000 * o, high |-> 100000 + 1000 * h,
                      low |-> 100000 + 1000 * l, close |-> 100000 + 1000 * c]

\* A fall that leaves a supply zone, and a rise that leaves a demand zone;
\* the slow ones show the same on the two-candle interval.
Fall == <<Shape(5,7,5,6), Shape(6,6,3,3), Shape(3,6,2,6), Shape(6,9,5,7),
          Shape(7,8,3,4), Shape(4,4,0,1), Shape(1,5,-1,3)>>

Rise == <<Shape(2,2,-1,0), Shape(0,0,0,0), Shape(0,3,-2,3), Shape(3,5,3,4),
          Shape(4,4,1,3), Shape(3,8,2,6), Shape(6,8,1,3)>>

SlowFall == <<Shape(5,5,5,5), Shape(5,7,5,6), Shape(6,6,4,4), Shape(4,4,3,3),
              Shape(3,4,2,4), Shape(4,6,4,6), Shape(6,6,5,6), Shape(6,9,6,7),
              Shape(7,8,5,5), Shape(5,5,3,4), Shape(4,4,2,2), Shape(2,2,0,1),
              Shape(1,2,-1,2), Shape(2,5,2,3)>>

SlowRise == <<Shape(2,2,1,1), Shape(1,1,-1,0), Shape(0,0,0,0), Shape(0,0,0,0),
              Shape(0,1,-2,1), Shape(1,3,1,3), Shape(3,3,3,3), Shape(3,5,3,4),
              Shape(4,4,3,3), Shape(3,3,1,3), Shape(3,4,2,4), Shape(4,8,4,6),
              Shape(6,8,4,4), Shape(4,4,1,3)>>

\* A trade of the slow pair that loses in the candle after its first, whose
\* first half a faster pair enters behind.
Overlap == SubSeq(SlowFall, 1, 12) \o <<Shape(1,4,-1,2), Shape(2,5,0,3), Shape(3,4,0,3)>>

Shapes == {Shape(4,6,3,5), Shape(5,6,2,3), Shape(3,5,1,4), Shape(4,9,4,8), Shape(4,5,0,1)}

Continued(opening, n) == {opening \o rest : rest \in [1..n -> Shapes]}

Timed(cs) == [i \in DOMAIN cs |-> cs[i] @@ [time |-> i - 1]]

MCCharts ==
    {Timed(cs) : cs \in
        Continued(SubSeq(Rise, 1, 4), 4) \cup Continued(SubSeq(Fall, 1, 6), 3)
        \cup Continued(Fall, 3) \cup Continued(Rise, 4)
        \cup Continued(SlowFall, 2) \cup Continued(SlowRise, 2) \cup Continued(Overlap, 2)}

MCPairs == <<[htf |-> 1, ltf |-> 1, lookback |-> 8], [htf |-> 2, ltf |-> 2, lookback |-> 8],
             [htf |-> 2, ltf |-> 1, lookback |-> 8]>>

MCProfile(be) ==
    [be |-> be, tp1_trigger_pct |-> 50, tp1_close_pct |-> 50, min_rr |-> 100, max_rr |-> 3000,
     max_sl_zone_mult |-> 3000, use_session_filter |-> TRUE, signal_price_source |-> "candle_close",
     sessions |-> {[enabled |-> TRUE, start |-> 0, end |-> 0, blocked_hours |-> {17}]}]

Config(be, trend, multi, displacement, giveback) ==
    [profile |-> MCProfile(be), trend |-> trend, multi_tf |-> multi,
     displacement |-> displacement, atr_period |-> 3, giveback |-> giveback]

MCConfigs == {Config(TRUE, FALSE, FALSE, 0, 0), Config(TRUE, TRUE, TRUE, 1200, 40),
              Config(FALSE, FALSE, TRUE, 0, 40)}

MCQuotes == {[bid |-> 100000 + 1000 * b, ask |-> 100000 + 1000 * b + 500] : b \in {1, 4, 10}}

\* The next row of a results file: of the other pair with the last, or of the
\* same pair two candles later; held for one candle to five.
MCFileRows(rs) ==
    LET last == IF rs = <<>> THEN [entry |-> 4, pair |-> 1] ELSE rs[Len(rs)]
        ends == {<<"LOSS", -1000, 2>>, <<"LOSS", -1000, 5>>, <<"WIN_FULL", 2200, 2>>,
                 <<"WIN_FULL", 2200, 5>>, <<"BREAKEVEN", 500, 1>>, <<"EXPIRED", 0, 3>>}
    IN {[entry |-> last.entry + gap, close |-> last.entry + gap + e[3], rr |-> e[2],
         outcome |-> e[1], pair |-> IF gap = 0 THEN 3 - last.pair ELSE last.pair] :
        gap \in {0, 2}, e \in ends}

Account(type, trailing, total) ==
    [risk_percent |-> 10, risk_type |-> type, max_trailing_dd_pct |-> trailing,
     max_total_loss_pct |-> total]

MCAccounts == {Account("compound", 25, 0), Account("fixed", 0, 15), Account("compound", 30, 25)}
=============================================================================
