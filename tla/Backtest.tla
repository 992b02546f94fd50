------------------------------ MODULE Backtest ------------------------------
(***************************************************************************)
(* The backtester's loop (app/backtesting/backtest.py): every master LTF   *)
(* candle of a chart is one step, which scans the timeframe pairs in       *)
(* order, takes at most one signal a pair, simulates its whole future at   *)
(* once and locks its direction until the simulated close.  Then the       *)
(* trades are reported; a results file read back (summarize_result.py,     *)
(* streak_analysis.py) is reported the same way.                           *)
(*                                                                         *)
(* A chart is a sequence of master candles, the i-th opening at time       *)
(* i - 1; the candles of a slower interval are the master's, merged.  A    *)
(* pair's intervals are in master candles.                                 *)
(***************************************************************************)
EXTENDS Setups, Lifecycle, Report

CONSTANTS
    Charts,            \* the price histories to run on
    Pairs,             \* tf_pairs: records of htf, ltf and htf_lookback
    Configs,           \* the settings to run with
    PivotBars,         \* pivot_bars
    MaxZones,          \* max_htf_zones_per_dir
    MaxSignalCount,    \* max_signal_count_per_zone
    WarmUp,            \* ltf_lb, the candles before the first step
    FileRows(_),       \* the rows a results file may hold next
    MaxRows,           \* bound: rows of a results file
    Accounts,          \* the account settings reported on
    Levels,            \* SWEEP_RISK_LEVELS
    Quotes             \* the live quotes a signal may be priced with

\* A candle of any interval.
Ohlc == [time : Nat, open : Price, high : Price, low : Price, close : Price]

\* What a results file says of a trade; only a loss has a negative R.
ResultRow ==
    {r \in [entry : Int, close : Int, rr : Int, outcome : SignalOutcome, pair : Int] :
        r.outcome = "LOSS" <=> r.rr < 0}

ASSUME BacktestAssumption ==
    /\ PivotBars \in Nat \ {0} /\ MaxZones \in Nat /\ MaxSignalCount \in Nat \ {0}
    /\ WarmUp \in Nat /\ MaxRows \in Nat
    /\ Pairs \in Seq([htf : Nat \ {0}, ltf : Nat \ {0}, lookback : Nat \ {0, 1, 2}])
    /\ \A c \in Charts : c \in Seq(Ohlc) /\ \A i \in DOMAIN c : c[i].time = i - 1
    /\ \A q \in Quotes : q \in [bid : Price, ask : Price]

\* A profile, within the limits Settings checks (__post_init__).
Profile == [be : BOOLEAN, tp1_trigger_pct : 1..99, tp1_close_pct : 0..100,
            min_rr : Nat, max_rr : Nat, max_sl_zone_mult : Nat,
            signal_price_source : {"candle_close", "live_bidask"},
            use_session_filter : BOOLEAN,
            sessions : SUBSET [enabled : BOOLEAN, start : 0..23, end : 0..23,
                               blocked_hours : SUBSET (0..23)]]

\* The last conjunct is of the model's units: a target capped at a risk of one
\* unit leaves a unit to TP1.
ASSUME SettingsAssumption ==
    /\ Configs # {}
    /\ \A c \in Configs :
         /\ c.profile \in Profile /\ c.giveback \in Nat
         /\ c.profile.max_rr > 0 => (c.profile.max_rr \div 1000) * c.profile.tp1_trigger_pct >= 100

\* Percentages of money.
ASSUME AccountsAssumption ==
    /\ Accounts \subseteq [risk_percent : Nat, risk_type : {"fixed", "compound"},
                           max_trailing_dd_pct : 0..100, max_total_loss_pct : 0..100]
    /\ Levels \subseteq Nat

VARIABLES
    chart,     \* the history
    cfg,       \* the settings
    bar,       \* master candles stepped over
    scan,      \* what run() keeps from step to step
    rows       \* the trades being reported; <<>> before that

vars == <<chart, cfg, bar, scan, rows>>

-----------------------------------------------------------------------------
(***************************************************************************)
(* Candles of the intervals                                                *)
(***************************************************************************)
Merge(cs) == [time |-> cs[1].time, open |-> cs[1].open,
              high |-> Max({cs[i].high : i \in DOMAIN cs}),
              low |-> Min({cs[i].low : i \in DOMAIN cs}),
              close |-> cs[Len(cs)].close]

Series(interval) ==
    [j \in 1..(Len(chart) \div interval) |->
        Merge(SubSeq(chart, (j - 1) * interval + 1, j * interval))]

\* bisect_left and bisect_right: the candles that open before time, and those
\* that open at or before it.
BisectLeft(cs, time) == Max({0} \cup {i \in DOMAIN cs : cs[i].time < time})

BisectRight(cs, time) == Max({0} \cup {i \in DOMAIN cs : cs[i].time <= time})

Until(cs, time) == SubSeq(cs, 1, BisectRight(cs, time))

\* The HTF window: the closed candles, at most lookback of them.
Visible(pair, now) == Until(Series(pair.htf), now + 1 - pair.htf)

Window(pair, now) ==
    LET seen == Visible(pair, now)
    IN SubSeq(seen, Larger(1, Len(seen) - pair.lookback + 1), Len(seen))

\* pair_current_ts: the open of the last closed LTF candle.
PairNow(pair, now) == ((now + 1) \div pair.ltf) * pair.ltf - pair.ltf

-----------------------------------------------------------------------------
(***************************************************************************)
(* Simulation of one signal                                                *)
(***************************************************************************)
Adverse(dir, c) == IF dir = "LONG" THEN c.low ELSE c.high

Favourable(dir, c) == IF dir = "LONG" THEN c.high ELSE c.low

\* A price at or past a level, seen from the stop and from the target.
Stopped(dir, c, level) == ~Beyond(dir, Adverse(dir, c), level)

Reached(dir, c, level) == ~Beyond(dir, level, Favourable(dir, c))

\* The candle as step_signal_state sees it.
Seen(signal, c) ==
    LET dir == signal.direction
    IN [against |-> CASE Stopped(dir, c, signal.sl) -> "stop"
                      [] ~Stopped(dir, c, signal.sl) /\ Stopped(dir, c, signal.entry) -> "entry"
                      [] OTHER -> "none",
        toward  |-> CASE Reached(dir, c, signal.tp2) -> "tp2"
                      [] ~Reached(dir, c, signal.tp2) /\ Reached(dir, c, signal.tp1) -> "tp1"
                      [] OTHER -> "none"]

\* protected_breakeven_rr and tp2_weighted_rr.
ProtectedRR(signal, profile) ==
    Nearest(signal.rr * profile.tp1_trigger_pct * profile.tp1_close_pct, 10000)

WeightedRR(signal, profile) ==
    Nearest(signal.rr * (profile.tp1_trigger_pct * profile.tp1_close_pct
                         + 100 * (100 - profile.tp1_close_pct)), 10000)

RealizedR(tag, signal, profile) ==
    CASE tag = "minus_one" -> -1000
      [] tag = "protected" -> ProtectedRR(signal, profile)
      [] tag = "weighted" -> WeightedRR(signal, profile)
      [] OTHER -> 0

Result(outcome, rr, close) == [outcome |-> outcome, rr |-> rr, close |-> close]

\* A trade the history ends on.
NeverClosed == Result("EXPIRED", 0, NoClose)

\* replay_signal_lifecycle, and what _simulate makes of it.
ReplayWalk(signal, future, profile) ==
    LET walk[i \in 0..Len(future)] ==
            IF i = 0 THEN NewTrade(signal.created_at)
            ELSE IF IsOpen(walk[i - 1])
                 THEN StepSignalState(walk[i - 1], Seen(signal, future[i]), profile.be,
                                      future[i].time)
                 ELSE walk[i - 1]
    IN walk

Replay(signal, future, profile) ==
    LET last == ReplayWalk(signal, future, profile)[Len(future)]
    IN IF last.outcome = "none" THEN NeverClosed
       ELSE Result(last.outcome, RealizedR(last.realized_rr, signal, profile), last.closed_at)

\* Mutant: the stop follows the best price back as well.
AdvanceAnyWay(trail, signal, c, giveback) ==
    LET dir  == signal.direction
        best == Favourable(dir, c)
        stop == Toward(dir, signal.entry, ((best - signal.entry) * (100 - giveback)) \div 100)
    IN [trail EXCEPT !.mfe = best, !.sl = stop]

\* _advance_giveback_sl: the stop follows the best price at a distance of
\* giveback percent of the move, only forward and only short of the close.
Advance(trail, signal, c, giveback) ==
    LET dir  == signal.direction
        best == IF trail.mfe = 0 \/ Beyond(dir, Favourable(dir, c), trail.mfe)
                THEN Favourable(dir, c) ELSE trail.mfe
        stop == Toward(dir, signal.entry, (Dist(best, signal.entry) * (100 - giveback)) \div 100)
    IN IF Beyond(dir, best, signal.entry) /\ Beyond(dir, stop, trail.sl)
          /\ Beyond(dir, c.close, stop)
       THEN [trail EXCEPT !.mfe = best, !.sl = stop]
       ELSE [trail EXCEPT !.mfe = best]

RrAtPrice(signal, price) ==
    LET gain == IF signal.direction = "LONG" THEN price - signal.entry ELSE signal.entry - price
    IN Nearest(1000 * gain, signal.risk)

\* One candle of _simulate_with_giveback_trailing: expiry, TP2, the stop,
\* TP1, and only then the stop's advance.  The outcome comes before the
\* price the stop was hit at.
TrailStep(trail, signal, c, giveback, profile) ==
    LET dir  == signal.direction
        safe == trail.tp1 /\ profile.be
        stop == IF safe THEN trail.sl ELSE signal.sl
        tp1  == trail.tp1 \/ Reached(dir, c, signal.tp1)
        Close(outcome, rr) == [trail EXCEPT !.result = Result(outcome, rr, c.time)]
        moved == IF tp1 /\ ~trail.tp1
                 THEN [trail EXCEPT !.tp1 = TRUE,
                            !.sl = IF profile.be THEN signal.entry ELSE signal.sl]
                 ELSE trail
    IN CASE PastExpiry(signal.created_at, c.time) ->
              IF safe THEN Close("BREAKEVEN", ProtectedRR(signal, profile)) ELSE Close("EXPIRED", 0)
         [] ~PastExpiry(signal.created_at, c.time) /\ tp1 /\ Reached(dir, c, signal.tp2) ->
              Close("WIN_FULL", signal.rr)
         [] ~PastExpiry(signal.created_at, c.time) /\ ~(tp1 /\ Reached(dir, c, signal.tp2))
            /\ Stopped(dir, c, stop) ->
              IF safe
              THEN Close("BREAKEVEN", Larger(ProtectedRR(signal, profile), RrAtPrice(signal, stop)))
              ELSE Close("LOSS", -1000)
         [] OTHER ->
              IF moved.tp1 /\ profile.be THEN Advance(moved, signal, c, giveback) ELSE moved

NewTrail(signal) == [tp1 |-> FALSE, sl |-> signal.sl, mfe |-> 0, result |-> NeverClosed]

TrailWalk(signal, future, giveback, profile) ==
    LET walk[i \in 0..Len(future)] ==
            IF i = 0 THEN NewTrail(signal)
            ELSE IF walk[i - 1].result = NeverClosed
                 THEN TrailStep(walk[i - 1], signal, future[i], giveback, profile)
                 ELSE walk[i - 1]
    IN walk

Trail(signal, future, giveback, profile) ==
    TrailWalk(signal, future, giveback, profile)[Len(future)].result

Simulate(signal, future, giveback, profile) ==
    IF giveback > 0 THEN Trail(signal, future, giveback, profile)
    ELSE Replay(signal, future, profile)

-----------------------------------------------------------------------------
(***************************************************************************)
(* The scan.  ms_cache is keyed by the HTF alone.  The zone and range      *)
(* caches hold what a recomputation would give and are left out; zone_lo   *)
(* is not, it keeps the first break time a zone was seen with.             *)
(***************************************************************************)
NewScan == [results |-> <<>>, seen_rej |-> {}, counts |-> [z \in {} |-> 0],
            open_dir |-> [k \in {} |-> 0], zone_lo |-> [z \in {} |-> 0],
            ms_cache |-> [h \in {} |-> 0]]

\* Expiring the direction locks opens every step.
Unlocked(s, now) ==
    [s EXCEPT !.open_dir = [k \in {l \in DOMAIN @ : @[l] > now} |-> @[k]]]

LockKey(p, dir) == IF cfg.multi_tf THEN <<p, dir>> ELSE <<0, dir>>

\* Mutant: the lock ends where the trade begins.
LockUntilEntry(result, signal) == signal.created_at

\* The lock lasts to the simulated close, or to the expiry of a trade that
\* never closed.
LockUntil(result, signal) ==
    IF result.close # NoClose THEN result.close ELSE signal.created_at + SignalExpiry

\* future_np: the LTF candles after the last closed one.
Future(pair, now) ==
    LET cs == Series(pair.ltf)
    IN SubSeq(cs, BisectRight(cs, PairNow(pair, now)) + 1, Len(cs))

\* The new trade of pair p in zone z, simulated over the candles to come.
Take(s, p, z, signal, now) ==
    LET pair   == Pairs[p]
        result == Simulate(signal, Future(pair, now), cfg.giveback, cfg.profile)
        attempt == Known(s.counts, z) + 1
    IN [s EXCEPT
          !.results = Append(@, [pair |-> p, zone |-> z, signal |-> signal,
                                 attempt |-> attempt, taken |-> now,
                                 outcome |-> result.outcome, rr |-> result.rr,
                                 close |-> result.close]),
          !.seen_rej = @ \cup {<<p, signal.created_at>>},
          !.counts = With(@, z, attempt),
          !.zone_lo = IF attempt >= MaxSignalCount
                      THEN [y \in (DOMAIN @) \ {z} |-> @[y]] ELSE @,
          !.open_dir = With(@, LockKey(p, signal.direction), LockUntil(result, signal))]

\* ltf_zone: the closed LTF candles since the zone's break.
Between(pair, start, now) ==
    LET cs == Series(pair.ltf)
    IN SubSeq(cs, BisectLeft(cs, start) + 1, BisectRight(cs, PairNow(pair, now)))

\* One zone of the list; fired stops the list at the first signal.
ScanZone(s, p, zone, bias, now) ==
    LET pair == Pairs[p]
        z    == <<p, zone.timestamp, zone.bos_direction>>
        dir  == SignalDirection(zone.bos_direction)
        s1   == IF z \in DOMAIN s.scan.zone_lo THEN s.scan
                ELSE [s.scan EXCEPT !.zone_lo = With(@, z, zone.broken_at)]
        rejection == FindEntry(Between(pair, s1.zone_lo[z], now), dir, zone)
        fresh == /\ cfg.trend => bias = dir
                 /\ rejection # NoEntry
                 /\ <<p, rejection.time>> \notin s1.seen_rej
                 /\ LockKey(p, dir) \notin DOMAIN s1.open_dir
                 /\ PairNow(pair, now) - rejection.time <= 2 * pair.ltf
        signal == BuildSignal(zone, rejection, cfg.profile, NoQuote)
    IN CASE s.fired \/ Known(s.scan.counts, z) >= MaxSignalCount -> s
         [] ~s.fired /\ Known(s.scan.counts, z) < MaxSignalCount
            /\ fresh /\ signal # NoSignal ->
              [scan |-> Take(s1, p, z, signal, now), fired |-> TRUE]
         [] OTHER -> [s EXCEPT !.scan = s1]

\* The bias, recomputed when the HTF has a new candle.
BiasOf(s, pair, window) ==
    LET last == window[Len(window)].time
    IN IF pair.htf \in DOMAIN s.ms_cache /\ s.ms_cache[pair.htf].at = last
       THEN s.ms_cache[pair.htf]
       ELSE [at |-> last, bias |-> Bias(window, PivotBars)]

\* The zones in their order; those without displacement are filtered out.
ScanZones(s, p, zones, bias, now) ==
    LET Kept(zone) == cfg.displacement > 0 =>
            Displaced(Visible(Pairs[p], now), zone.broken_at, cfg.atr_period, cfg.displacement, 1000)
        walk[i \in 0..Len(zones)] ==
            IF i = 0 THEN [scan |-> s, fired |-> FALSE]
            ELSE IF Kept(zones[i]) THEN ScanZone(walk[i - 1], p, zones[i], bias, now)
            ELSE walk[i - 1]
    IN walk

ScanPair(s, p, now) ==
    LET pair   == Pairs[p]
        window == Window(pair, now)
        ms     == BiasOf(s, pair, window)
        s1     == IF cfg.trend THEN [s EXCEPT !.ms_cache = With(@, pair.htf, ms)] ELSE s
        zones  == FindHtfRanges(window, PivotBars, MaxZones)
    IN IF Len(window) < pair.lookback \div 3 THEN s
       ELSE IF (cfg.trend /\ ms.bias = "NEUTRAL") \/ PairNow(pair, now) < 0 THEN s1
       ELSE ScanZones(s1, p, zones, ms.bias, now)[Len(zones)].scan

\* The pairs in their order.
ScanPairs(s, now) ==
    LET walk[p \in 0..Len(Pairs)] == IF p = 0 THEN s ELSE ScanPair(walk[p - 1], p, now)
    IN walk

-----------------------------------------------------------------------------
Init ==
    /\ bar = WarmUp
    /\ scan = NewScan
    /\ rows = <<>>
    /\ \/ chart \in Charts /\ cfg \in Configs
       \/ chart = <<>> /\ cfg = CHOOSE c \in Configs : TRUE

\* One iteration of the loop of run().
Bar ==
    /\ bar < Len(chart)
    /\ rows = <<>>
    /\ LET now == chart[bar + 1].time
       IN scan' = ScanPairs(Unlocked(scan, now), now)[Len(Pairs)]
    /\ bar' = bar + 1
    /\ UNCHANGED <<chart, cfg, rows>>

\* to_dict: the trade as a row; entry_dt is the close of the setup candle.
Row(result) ==
    [entry |-> result.signal.created_at + Pairs[result.pair].ltf, close |-> result.close,
     rr |-> result.rr, outcome |-> result.outcome, pair |-> result.pair]

\* The report of a finished run.
ReportRun ==
    /\ chart # <<>>
    /\ bar = Len(chart)
    /\ rows = <<>>
    /\ scan.results # <<>>
    /\ rows' = [i \in DOMAIN scan.results |-> Row(scan.results[i])]
    /\ UNCHANGED <<chart, cfg, bar, scan>>

\* One more row of a results file.
ReadRow ==
    /\ chart = <<>>
    /\ Len(rows) < MaxRows
    /\ \E row \in FileRows(rows) : row \in ResultRow /\ rows' = Append(rows, row)
    /\ UNCHANGED <<chart, cfg, bar, scan>>

Next == Bar \/ ReportRun \/ ReadRow

Spec == Init /\ [][Next]_vars

-----------------------------------------------------------------------------
(***************************************************************************)
(* Properties of the scan                                                  *)
(***************************************************************************)
Now == bar - 1

\* The breaks of a window that no later candle than time made.
BreaksUntil(cs, time) ==
    LET events == DetectBosEvents(cs, PivotBars)
    IN [k \in {m \in DOMAIN events : events[m].at <= time} |-> events[k]]

BreaksStay ==
    \A p \in DOMAIN Pairs :
        LET before == Window(Pairs[p], Now)
            after  == Window(Pairs[p], Now + 1)
            time   == before[Len(before) - PivotBars].time
        IN /\ bar' = bar + 1
           /\ Len(before) > PivotBars
           /\ before[1] = after[1]
           => BreaksUntil(before, time) = BreaksUntil(after, time)

\* A break of structure that has PivotBars closed candles after it is final:
\* the next candle neither withdraws it nor adds one before it, as long as
\* the lookback window still starts with the same candle (detect_bos_events).
SettledBreaks == [][BreaksStay]_vars

\* The zones and rejections pair p could trade now.
Setup(p) ==
    LET zones == FindHtfRanges(Window(Pairs[p], Now), PivotBars, MaxZones)
    IN {[zone |-> zones[i],
         rejection |-> FindEntry(Between(Pairs[p], zones[i].broken_at, Now),
                           SignalDirection(zones[i].bos_direction), zones[i])] :
        i \in DOMAIN zones}

\* Whatever the quote at the moment of the signal, a signal the builder lets
\* through has its stop, entry, TP1 and TP2 in that order, strictly, its stop
\* beyond the whole rejection candle, and a ratio within the cap
\* (build_signal's gates, the cap and tp1_level together).
LevelsOrdered ==
    \A p \in DOMAIN Pairs : \A setup \in Setup(p) : \A quote \in Quotes \cup {NoQuote} :
        setup.rejection # NoEntry =>
          LET profile == [cfg.profile EXCEPT !.signal_price_source = "live_bidask"]
              s == BuildSignal(setup.zone, setup.rejection, profile, quote)
              d == SignalDirection(setup.zone.bos_direction)
          IN s # NoSignal =>
               /\ Beyond(d, s.tp2, s.tp1) /\ Beyond(d, s.tp1, s.entry) /\ Beyond(d, s.entry, s.sl)
               /\ Beyond(d, WickTip(setup.rejection, d), s.sl)
               /\ profile.max_rr > 0 => s.rr <= profile.max_rr

\* A trade is in the market when master candle now closes: no candle of its
\* interval that has closed by then takes it out.
InMarket(r, now) ==
    LET pair == Pairs[r.pair]
    IN /\ Simulate(r.signal, Until(Future(pair, r.taken), now + 1 - pair.ltf), cfg.giveback,
                   cfg.profile).close
            = NoClose
       /\ now < r.signal.created_at + SignalExpiry

\* A lock, set from candles the scan has not reached, is released when the
\* trade's closing candle opens, not when it closes (cts <= current_ts in
\* run).  So a second trade of one lock may be entered while the first is in
\* the market, but only within that candle: the first is out after one candle
\* of its interval, less the master candle it was released by, and where that
\* interval is the master's the two are never in the market together.  No
\* rejection is traded twice by a pair, and a zone is tried at most
\* MaxSignalCount times (run, open_dir, seen_rej, zone_signal_counts).
OverlapIsShort ==
    LET rs == scan.results
    IN /\ \A i, j \in DOMAIN rs : i < j =>
            /\ LockKey(rs[i].pair, rs[i].signal.direction) = LockKey(rs[j].pair, rs[j].signal.direction)
               => ~InMarket(rs[i], rs[j].taken + Pairs[rs[i].pair].ltf - 1)
            /\ rs[i].pair = rs[j].pair => rs[i].signal.created_at # rs[j].signal.created_at
       /\ \A i \in DOMAIN rs :
            Cardinality({j \in DOMAIN rs : rs[j].zone = rs[i].zone}) <= MaxSignalCount

\* The giveback trail only ever takes a trade out earlier and with something
\* booked: it loses exactly the trades the plain replay loses, closes
\* no trade later than the replay, and books at least what the replay books or
\* what TP1 protected (_simulate_with_giveback_trailing against
\* replay_signal_lifecycle).
TrailingKeepsLosses ==
    \A i \in DOMAIN scan.results : \A giveback \in {20, 60} :
        LET r     == scan.results[i]
            seen  == Future(Pairs[r.pair], r.taken)
            plain == Replay(r.signal, seen, cfg.profile)
            trail == Trail(r.signal, seen, giveback, cfg.profile)
        IN /\ trail.outcome = "LOSS" <=> plain.outcome = "LOSS"
           /\ plain.close # NoClose => trail.close # NoClose /\ trail.close <= plain.close
           /\ trail.rr >= Min({plain.rr, ProtectedRR(r.signal, cfg.profile)})

-----------------------------------------------------------------------------
(***************************************************************************)
(* Properties of the reports                                               *)
(***************************************************************************)
\* The balances with no kill condition, and the first trade that breaks one.
Unkilled(acct) == EquityCurve(RRs(rows), [acct EXCEPT !.max_trailing_dd_pct = 0,
                                                      !.max_total_loss_pct = 0])

Breaches(acct) ==
    LET b == Unkilled(acct)
    IN {i \in 1..Len(rows) :
          \/ /\ acct.max_trailing_dd_pct > 0
             /\ \E j \in 1..i : 100 * b[i + 1] < b[j] * (100 - acct.max_trailing_dd_pct)
          \/ /\ acct.max_total_loss_pct > 0
             /\ 100 * b[i + 1] < StartBalance * (100 - acct.max_total_loss_pct)}

\* At every level of the sweep the account, which carries its own peak and
\* stops by itself, stops at the first trade after which the balance of an
\* account that never stops is below a floor, and blows at no other
\* (_compute_accounting, print_risk_sweep).
RiskSweepSound ==
    \A acct \in Accounts : \A l \in Levels :
        LET account  == Sweep(RRs(rows), acct, Levels)[l]
            breaches == Breaches([acct EXCEPT !.risk_percent = l])
        IN IF breaches = {} THEN account.blown = "none" /\ Len(account.pnls) = Len(rows)
           ELSE account.blown # "none" /\ Len(account.pnls) = Min(breaches)

\* A larger risk never survives longer: the level the sweep names as the
\* first to blow is a threshold.
SweepIsThreshold ==
    \A acct \in Accounts :
        LET sweep == Sweep(RRs(rows), acct, Levels)
        IN \A f \in FirstBlown(sweep) : \A l \in Levels :
             l > f => sweep[l].blown # "none" /\ Len(sweep[l].pnls) <= Len(sweep[f].pnls)

\* The file holds one pair, and its trades closed one after the other in the
\* order of its rows.
FromFile == chart = <<>>

OneGroup == \A i, j \in DOMAIN rows : rows[i].pair = rows[j].pair

InCloseOrder ==
    LET dates == CloseDates(rows, FromFile)
    IN \A i, j \in DOMAIN rows : i < j => dates[i] < dates[j]

PairsIn(rs) == {rs[i].pair : i \in DOMAIN rs}

\* The dashboard's drawdown in R, of each group in file order, falls short of
\* the fall from the start by at most a losing first trade; it is the one the
\* streak analysis finds over the rows by close date where that is the order
\* of the file and the file has one group.  The money drawdown of a group,
\* recomputed from a saved file, is at most the account's, and it where the
\* file has one group.
DrawdownsAgree ==
    /\ \A p \in PairsIn(rows) :
         LET rrs       == RRs(GroupRows(rows, p))
             fromStart == MaxDrawdown(<<0>> \o rrs)
         IN /\ MaxDrawdown(rrs) <= fromStart
            /\ fromStart <= MaxDrawdown(rrs) + Larger(0, -rrs[1])
            /\ OneGroup /\ InCloseOrder
               => MaxDrawdown(rrs) = -MaxDd(RRs(StreakFrame(rows, FromFile)))
    /\ \A acct \in Accounts :
         LET account == ComputeAccounting(RRs(rows), acct)
             saved   == Saved(rows, acct)
         IN /\ \A p \in PairsIn(saved) :
                 /\ DollarDrawdown(GroupBalances(saved, p, acct)) <= account.max_dd
                 /\ OneGroup => DollarDrawdown(GroupBalances(saved, p, acct)) = account.max_dd
            /\ account.balance - StartBalance = GrossProfit(account) - GrossLoss(account)

\* The longest losing streak by close date is the same counted run by run or
\* all at once, as the shuffled trades it is judged against are, and no longer
\* than the runs of the dependence table; the dashboard, by outcome and in
\* file order, finds it where the file has one group in close order.
StreaksAgree ==
    LET frame   == StreakFrame(rows, FromFile)
        res     == [i \in DOMAIN frame |-> Sign(frame[i].rr)]
        longest == Max(ToSet(LossStreakLengths(res)) \cup {0})
    IN /\ longest = MaxRun([i \in DOMAIN res |-> res[i] = "L"])
       /\ longest <= Max(ToSet(RunsBefore(Append(res, "B"))))
       /\ OneGroup /\ InCloseOrder
          => \A p \in PairsIn(rows) : MaxStreak(GroupRows(rows, p), "LOSS") = longest

\* Every breakdown accounts for every trade and all of the R.
BreakdownsAddUp ==
    LET total == PairStats(rows).total_r
        AddsUp(b) ==
            /\ MapThenSumSet(LAMBDA k : b[k].r, DOMAIN b) = total
            /\ MapThenSumSet(LAMBDA k : b[k].w + b[k].l + b[k].b, DOMAIN b) = Len(rows)
        daily == Breakdown(rows, "day")
    IN /\ AddsUp(daily) /\ AddsUp(Breakdown(rows, "hour"))
       /\ Cumulative(daily)[Max(DOMAIN daily)] = total
       /\ Last(Equity(RRs(AllFlat(rows)))) = total
       /\ Last(Equity(RRs(StreakFrame(rows, FromFile)))) = total
       /\ MapThenSumSet(LAMBDA p : Total(RRs(GroupRows(rows, p))), PairsIn(rows)) = total
       /\ PairStats(rows).pf_num - PairStats(rows).pf_den = total
       /\ RollingStats(rows, Len(rows)) = PairStats(rows)
       /\ LET buckets == RrBuckets(RRs(rows))
          IN MapThenSumSet(LAMBDA b : buckets[b], DOMAIN buckets) = Len(rows)
       /\ CoDays(rows, 1, 2, {"LOSS"}) \subseteq {d \in DOMAIN daily : daily[d].l >= 2}
       /\ \A h \in ToSet(HoldTimes(rows, SignalOutcome)) : h >= 0

\* The tools that read one list of trades, each in its own order, draw the same
\* curves from it as far as their orders are the same: the dashboard by pair and
\* in file order, the streak analysis by close date, the run in the order it
\* traded (summarize_result.py, streak_analysis.py, BacktestReport).
CurvesAgree == rows # <<>> => DrawdownsAgree /\ StreaksAgree

\* And their tables lose no trade and no R on the way, nor does the sweep call
\* a risk safe above one that blows the account.
ReportsAgree == rows # <<>> => BreakdownsAddUp /\ SweepIsThreshold

\* A row's trade is closed at the end of its closing candle, which close_dt is
\* the open of; at an entry before that end the candle is still running.
ClosedBy(row, time) == row.close + Pairs[row.pair].ltf <= time

Closing(row, time) == row.close <= time /\ ~ClosedBy(row, time)

\* At every entry but those made while an earlier trade's closing candle runs,
\* the multiplier of a mitigation rule is the rule's on the ledger of exactly
\* the trades closed by then, in the order they closed.  At those the analysis
\* already books the trade, although its heading says "decisions use only
\* trades CLOSED before each new entry" (_print_mitigation).
MitigationIsCausal ==
    LET ent == AllFlat(StreakFrame(rows, FromFile))
    IN \A rule \in Rules : \A limit \in {1, 2} :
        LET mults == Mitigate(ent, rule, limit)
            Taken(i) == {j \in 1..(i - 1) : ClosedBy(ent[j], ent[i].entry) /\ mults[j] > 0}
            Later(j, k) == ent[j].close > ent[k].close
                           \/ (ent[j].close = ent[k].close /\ ent[j].rr >= ent[k].rr)
            Losses(S) == {j \in S : ent[j].rr < 0
                             /\ ~\E k \in S : ent[k].rr > 0 /\ Later(k, j)}
            Today(i) == {j \in Taken(i) : Day(ent[j]) = Day(ent[i])}
        IN \A i \in DOMAIN ent :
             \/ \E j \in 1..(i - 1) : Closing(ent[j], ent[i].entry)
             \/ mults[i] = Multiplier(rule, limit,
                              MapThenSumSet(LAMBDA j : ent[j].rr * mults[j], Today(i)),
                              Cardinality(Losses(Today(i))), Cardinality(Losses(Taken(i))))

=============================================================================
