------------------------------- MODULE Report -------------------------------
(***************************************************************************)
(* What the research tools compute from a list of trades: the account      *)
(* simulation and the risk sweep (BacktestReport, backtest.py), the        *)
(* dashboard's statistics (summarize_result.py) and the losing-streak      *)
(* analysis (streak_analysis.py).                                          *)
(*                                                                         *)
(* A row is one trade of a results file: when it was entered and closed    *)
(* (NoClose while it never closed), its outcome and its realized R in      *)
(* thousandths, as to_dict rounds it.  Money is in whole cents.  Times are *)
(* candle opens; DayLength of them make a day.  What is printed, plotted   *)
(* or laid out is left out.                                                *)
(***************************************************************************)
EXTENDS Integers, Sequences, FiniteSets, FiniteSetsExt, SequencesExt, Functions

CONSTANTS
    StartBalance,     \* start_balance
    DayLength         \* candles a day

ASSUME ReportAssumption == StartBalance \in Nat \ {0} /\ DayLength \in Nat \ {0}

NoClose == -1

Larger(a, b) == IF a >= b THEN a ELSE b

\* The running sums, the empty one first.
Sums(rrs) ==
    LET sum[i \in 0..Len(rrs)] == IF i = 0 THEN 0 ELSE sum[i - 1] + rrs[i]
    IN sum

Total(rrs) == Sums(rrs)[Len(rrs)]

RRs(rows) == [i \in DOMAIN rows |-> rows[i].rr]

-----------------------------------------------------------------------------
(***************************************************************************)
(* The account.  acct holds risk_percent, risk_type and the two kill       *)
(* conditions max_trailing_dd_pct and max_total_loss_pct, 0 for None.      *)
(***************************************************************************)
\* Mutant: the peak is not carried from trade to trade.
TradeAccountingNoPeak(balance, peak, rr, acct) ==
    LET basis == IF acct.risk_type = "fixed" THEN StartBalance ELSE balance
        pnl   == (((basis * acct.risk_percent) \div 100) * rr) \div 1000
    IN [balance |-> balance + pnl, peak |-> Larger(balance, balance + pnl), pnl |-> pnl]

\* calculate_trade_accounting: one trade's effect; fixed risk is always
\* sized on the start balance.
TradeAccounting(balance, peak, rr, acct) ==
    LET basis == IF acct.risk_type = "fixed" THEN StartBalance ELSE balance
        pnl   == (((basis * acct.risk_percent) \div 100) * rr) \div 1000
        after == balance + pnl
    IN [balance |-> after, peak |-> Larger(peak, after), pnl |-> pnl]

\* The kill conditions, tested on the balance after the trade.
BlownBy(one, acct) ==
    LET trailing == /\ acct.max_trailing_dd_pct > 0
                    /\ 100 * one.balance < one.peak * (100 - acct.max_trailing_dd_pct)
        total == /\ acct.max_total_loss_pct > 0
                 /\ 100 * one.balance < StartBalance * (100 - acct.max_total_loss_pct)
    IN CASE trailing -> "trailing_dd"
         [] total /\ ~trailing -> "total_loss"
         [] OTHER -> "none"

NewAccount ==
    [balance |-> StartBalance, peak |-> StartBalance, max_dd |-> 0,
     pnls |-> <<>>, balances |-> <<StartBalance>>, blown |-> "none"]

\* The loop body of _compute_accounting; nothing is traded once blown.
AccountTrade(account, rr, acct) ==
    IF account.blown # "none" THEN account
    ELSE LET one == TradeAccounting(account.balance, account.peak, rr, acct)
         IN [balance |-> one.balance, peak |-> one.peak,
             max_dd |-> Larger(account.max_dd, one.peak - one.balance),
             pnls |-> Append(account.pnls, one.pnl),
             balances |-> Append(account.balances, one.balance),
             blown |-> BlownBy(one, acct)]

AccountWalk(rrs, acct) ==
    LET walk[i \in 0..Len(rrs)] ==
            IF i = 0 THEN NewAccount ELSE AccountTrade(walk[i - 1], rrs[i], acct)
    IN walk

ComputeAccounting(rrs, acct) == AccountWalk(rrs, acct)[Len(rrs)]

TradesRun(rrs, acct) == Len(ComputeAccounting(rrs, acct).pnls)

GrossProfit(account) ==
    Total([i \in DOMAIN account.pnls |-> Larger(account.pnls[i], 0)])

GrossLoss(account) ==
    Total([i \in DOMAIN account.pnls |-> Larger(-account.pnls[i], 0)])

\* save_csv and save_json zip the trades with their accounting: the trades
\* after the one that blew the account are not written.
Saved(rows, acct) == SubSeq(rows, 1, TradesRun(RRs(rows), acct))

\* _build_equity_curve: the start balance, then one point a trade.
EquityCurve(rrs, acct) == ComputeAccounting(rrs, acct).balances

\* print_risk_sweep: the account at each level, and the first that blows it.
Sweep(rrs, acct, levels) ==
    [l \in levels |-> ComputeAccounting(rrs, [acct EXCEPT !.risk_percent = l])]

FirstBlown(sweep) == {l \in DOMAIN sweep : sweep[l].blown # "none"
                        /\ \A m \in DOMAIN sweep : m < l => sweep[m].blown = "none"}

-----------------------------------------------------------------------------
(***************************************************************************)
(* The dashboard: one group of rows per symbol and timeframe pair.         *)
(***************************************************************************)
\* tf_groups: where the rows of pair p are, in file order.
GroupWalk(rows, p) ==
    LET walk[i \in 0..Len(rows)] ==
            IF i = 0 THEN <<>>
            ELSE IF rows[i].pair = p THEN Append(walk[i - 1], i) ELSE walk[i - 1]
    IN walk

Group(rows, p) == GroupWalk(rows, p)[Len(rows)]

GroupRows(rows, p) == LET g == Group(rows, p) IN [k \in DOMAIN g |-> rows[g[k]]]

\* _equity_dollar: balance_before of a group's first row, then balance_after
\* of each, as save_csv wrote them.
GroupBalances(rows, p, acct) ==
    LET g        == Group(rows, p)
        balances == EquityCurve(RRs(rows), acct)
    IN <<balances[g[1]]>> \o [k \in DOMAIN g |-> balances[g[k] + 1]]

Outcomes(rows, outcome) == SelectSeq(rows, LAMBDA r : r.outcome = outcome)

\* wins, losses, bes and what is computed from them; a trade that expired is
\* in none of the three but in the total.
PairStats(rows) ==
    LET wins   == Outcomes(rows, "WIN_FULL")
        losses == Outcomes(rows, "LOSS")
        bes    == Outcomes(rows, "BREAKEVEN")
    IN [trades |-> Len(rows), wins |-> Len(wins), losses |-> Len(losses),
        bes |-> Len(bes), closed |-> Len(wins) + Len(losses) + Len(bes),
        total_r |-> Total(RRs(rows)),
        pf_num |-> Total(RRs(wins)) + Total(RRs(bes)),
        pf_den |-> -Total(RRs(losses))]

Equity(rrs) == LET sums == Sums(rrs) IN [i \in DOMAIN rrs |-> sums[i]]

\* The peak of a curve and the deepest fall from it, point by point; the peak
\* starts at the first point.
Falls(curve) ==
    LET walk[i \in 0..Len(curve)] ==
            IF i = 0 THEN [peak |-> IF curve = <<>> THEN 0 ELSE curve[1], dd |-> 0]
            ELSE LET peak == Larger(walk[i - 1].peak, curve[i])
                 IN [peak |-> peak, dd |-> Larger(walk[i - 1].dd, peak - curve[i])]
    IN walk

\* The R drawdown has no point for the start, so a losing first trade is no
\* drawdown.
MaxDrawdown(rrs) == Falls(Equity(rrs))[Len(rrs)].dd

\* The money drawdown, recomputed from a saved file, has: its curve begins
\* with the balance before the first trade.
DollarDrawdown(balances) == Falls(balances)[Len(balances)].dd

\* Mutant: only the opposite outcome ends a streak.
MaxStreakThroughBreakeven(rows, outcome) ==
    LET cur[i \in 0..Len(rows)] ==
            IF i = 0 THEN 0
            ELSE IF rows[i].outcome = outcome THEN cur[i - 1] + 1
            ELSE IF rows[i].outcome \in {"BREAKEVEN", "EXPIRED"} THEN cur[i - 1] ELSE 0
    IN Max({cur[i] : i \in 0..Len(rows)})

\* The streak each trade ends: cur_win and cur_loss after it.
Streaks(flags) ==
    LET cur[i \in 0..Len(flags)] ==
            IF i = 0 THEN 0 ELSE IF flags[i] THEN cur[i - 1] + 1 ELSE 0
    IN cur

\* max_loss_streak: a breakeven or expired trade ends both streaks.
MaxStreak(rows, outcome) ==
    LET cur == Streaks([i \in DOMAIN rows |-> rows[i].outcome = outcome])
    IN Max({cur[i] : i \in 0..Len(rows)})

\* Mutant: the window is one trade short.
RollingStatsShort(rows, n) == PairStats(SubSeq(rows, Larger(1, Len(rows) - n + 2), Len(rows)))

\* rolling_stats over the last n trades.
RollingStats(rows, n) == PairStats(SubSeq(rows, Larger(1, Len(rows) - n + 1), Len(rows)))

\* Holding times; a row with no close date is skipped, and what is neither a
\* win nor a loss is counted with the breakevens.
HoldTimes(rows, outcomes) ==
    LET held == SelectSeq(rows, LAMBDA r : r.close # NoClose /\ r.outcome \in outcomes)
    IN [i \in DOMAIN held |-> held[i].close - held[i].entry]

\* One line of a breakdown; "b" is whatever is neither a win nor a loss.
Tally(rows) ==
    LET w == Len(Outcomes(rows, "WIN_FULL"))
        l == Len(Outcomes(rows, "LOSS"))
    IN [w |-> w, l |-> l, b |-> Len(rows) - w - l, r |-> Total(RRs(rows))]

Hour(row) == row.entry % DayLength

Day(row) == row.entry \div DayLength

Period(row, period) == IF period = "hour" THEN Hour(row) ELSE Day(row)

\* hour_stats, dow_stats, monthly, daily, weekly: the rows by a period of the
\* entry date.
Breakdown(rows, period) ==
    [k \in {Period(rows[i], period) : i \in DOMAIN rows} |->
        Tally(SelectSeq(rows, LAMBDA r : Period(r, period) = k))]

\* rr_buckets, by R in thousandths.
Bucket(rr) ==
    CASE rr < -1000 -> "<-1"
      [] rr = -1000 -> "-1"
      [] rr = 0 -> "0"
      [] rr > -1000 /\ rr # 0 /\ rr <= 2000 -> "1-2"
      [] rr > 2000 /\ rr <= 3000 -> "2-3"
      [] OTHER -> ">3"

RrBuckets(rrs) ==
    [b \in {"<-1", "-1", "0", "1-2", "2-3", ">3"} |->
        Cardinality({i \in DOMAIN rrs : Bucket(rrs[i]) = b})]

\* list.sort and sort_values: the rows by a date each has.  Rows of one date
\* keep their order here, as list.sort leaves them; sort_values may not, and
\* no property tells the two apart.
Earlier(dates, i) ==
    {j \in DOMAIN dates : dates[j] < dates[i] \/ (dates[j] = dates[i] /\ j < i)}

Place(dates, k) == CHOOSE i \in DOMAIN dates : Cardinality(Earlier(dates, i)) = k - 1

Sorted(rows, dates) == [k \in DOMAIN rows |-> rows[Place(dates, k)]]

\* all_flat: every file's rows by entry date.
AllFlat(rows) == Sorted(rows, [i \in DOMAIN rows |-> rows[i].entry])

\* monthly_cumulative and weekly_cumulative: the periods in order, each with
\* the sum up to it.
Cumulative(breakdown) ==
    [k \in DOMAIN breakdown |->
        MapThenSumSet(LAMBDA m : breakdown[m].r, {m \in DOMAIN breakdown : m <= k})]

\* The days on which two pairs both traded, both lost, both won.
CoDays(rows, p, q, outcomes) ==
    LET On(pair) == {Day(rows[i]) : i \in {j \in DOMAIN rows :
                        rows[j].pair = pair /\ rows[j].outcome \in outcomes}}
    IN On(p) \cap On(q)

-----------------------------------------------------------------------------
(***************************************************************************)
(* The streak analysis.  It reads the sign of R, not the outcome.          *)
(***************************************************************************)
Sign(rr) == IF rr < 0 THEN "L" ELSE IF rr > 0 THEN "W" ELSE "B"

\* close_dt: a trade that never closed has its entry (_build_df) or, read from
\* a file, no date (_load_csv), which sorts after every other.
CloseDates(rows, fromFile) ==
    LET after == 1 + Max({rows[i].close : i \in DOMAIN rows})
    IN [i \in DOMAIN rows |-> CASE rows[i].close # NoClose -> rows[i].close
                                [] rows[i].close = NoClose /\ fromFile -> after
                                [] OTHER -> rows[i].entry]

\* _build_df and _load_csv: the rows by close date.
StreakFrame(rows, fromFile) ==
    LET dates == CloseDates(rows, fromFile)
    IN Sorted([i \in DOMAIN rows |-> [rows[i] EXCEPT !.close = dates[i]]], dates)

\* _loss_streak_lengths: the runs of losses, each with its length.
LossWalk(res) ==
    LET walk[i \in 0..Len(res)] ==
            IF i = 0 THEN [out |-> <<>>, cur |-> 0]
            ELSE IF res[i] = "L" THEN [walk[i - 1] EXCEPT !.cur = @ + 1]
            ELSE [out |-> IF walk[i - 1].cur = 0 THEN walk[i - 1].out
                          ELSE Append(walk[i - 1].out, walk[i - 1].cur),
                  cur |-> 0]
    IN walk

LossStreakLengths(res) ==
    LET last == LossWalk(res)[Len(res)]
    IN IF last.cur = 0 THEN last.out ELSE Append(last.out, last.cur)

\* _max_run: the longest stretch between a rise and a fall of the flags.
MaxRun(flags) ==
    LET runs == {run \in (DOMAIN flags) \X (DOMAIN flags) :
                    run[1] <= run[2] /\ \A k \in run[1]..run[2] : flags[k]}
    IN Max({run[2] - run[1] + 1 : run \in runs} \cup {0})

\* _max_dd, which is negative or zero.
MaxDd(rrs) ==
    LET equity == Equity(rrs)
        Peak(i) == Max({equity[j] : j \in 1..i})
    IN Min({equity[i] - Peak(i) : i \in DOMAIN rrs})

\* runs_before: the losses since the last win before each trade; a trade
\* that made nothing leaves the run as it is.
LossRuns(res) ==
    LET run[i \in 0..Len(res)] ==
            IF i = 0 THEN 0
            ELSE IF res[i] = "L" THEN run[i - 1] + 1
            ELSE IF res[i] = "W" THEN 0
            ELSE run[i - 1]
    IN run

RunsBefore(res) == [i \in DOMAIN res |-> LossRuns(res)[i - 1]]

(***************************************************************************)
(* The mitigation rules.  The trades are walked in entry order; pending is *)
(* the heap of the trades entered and not yet seen to close, popped by     *)
(* close time and then by R, and a rule sees only what has been popped.    *)
(* A multiplier is in halves: 0 skips the trade, 1 halves it, 2 takes it.  *)
(***************************************************************************)
NewLedger == [pending |-> {}, day_r |-> [d \in {} |-> 0], day_cl |-> [d \in {} |-> 0],
              g_cl |-> 0, mults |-> <<>>]

Known(f, d) == IF d \in DOMAIN f THEN f[d] ELSE 0

With(f, d, v) == [e \in DOMAIN f \cup {d} |-> IF e = d THEN v ELSE f[e]]

\* One pop: a skipped trade leaves the ledger alone.
Settled(ledger, p) ==
    LET res == Sign(p.rr)
    IN IF p.mult = 0 THEN ledger
       ELSE [ledger EXCEPT
               !.day_r = With(@, p.day, Known(@, p.day) + p.rr * p.mult),
               !.day_cl = CASE res = "L" -> With(@, p.day, Known(@, p.day) + 1)
                            [] res = "W" -> With(@, p.day, 0)
                            [] OTHER -> @,
               !.g_cl = CASE res = "L" -> @ + 1 [] res = "W" -> 0 [] OTHER -> @]

HeapOrder(p, q) ==
    \/ p.close < q.close
    \/ p.close = q.close /\ p.rr < q.rr
    \/ p.close = q.close /\ p.rr = q.rr /\ p.i < q.i

\* Mutant: every pending trade is settled, closed or not.
PopPending(ledger, now) ==
    FoldLeft(Settled, [ledger EXCEPT !.pending = {}],
             SetToSortSeq(ledger.pending, HeapOrder))

PopClosed(ledger, now) ==
    LET closed == {p \in ledger.pending : p.close <= now}
    IN FoldLeft(Settled, [ledger EXCEPT !.pending = @ \ closed],
                SetToSortSeq(closed, HeapOrder))

\* The rules of the table, by what they read; stop is in half thousandths.
Rules == {"day_stop", "day_streak", "global_streak"}

Multiplier(rule, limit, day_r, day_cl, g_cl) ==
    CASE rule = "day_stop" -> IF day_r <= -2000 * limit THEN 0 ELSE 2
      [] rule = "day_streak" -> IF day_cl >= limit THEN 0 ELSE 2
      [] rule = "global_streak" -> IF g_cl >= limit THEN 1 ELSE 2

\* simulate(rule) of _print_mitigation, over the rows by entry date.
Mitigate(rows, rule, limit) ==
    LET walk[i \in 0..Len(rows)] ==
          IF i = 0 THEN NewLedger
          ELSE LET row  == rows[i]
                   seen == PopClosed(walk[i - 1], row.entry)
                   mult == Multiplier(rule, limit, Known(seen.day_r, Day(row)),
                                      Known(seen.day_cl, Day(row)), seen.g_cl)
               IN [seen EXCEPT !.mults = Append(@, mult),
                               !.pending = @ \cup {[close |-> row.close, rr |-> row.rr,
                                    day |-> Day(row), mult |-> mult, i |-> i]}]
    IN walk[Len(rows)].mults

=============================================================================
