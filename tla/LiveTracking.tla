---------------------------- MODULE LiveTracking -----------------------------
(***************************************************************************)
(* One emitted signal followed to its close, three ways:                   *)
(*  - live: every tick of update_watchlist fetches the closed candles from *)
(*    created_at on and walks ALL of those after triggered_at, starting    *)
(*    from the signal as the previous tick left it;                        *)
(*  - query: query_signal_status resets the signal to TRIGGERED and walks  *)
(*    the same candles once;                                               *)
(*  - backtest: replay_signal_lifecycle walks the candles after the tick   *)
(*    that found the setup, once.                                          *)
(*                                                                         *)
(* The setup candle opens at 0, so created_at = 0 and triggered_at = 1;    *)
(* candles[i] opens at i.  The market is the environment: any candle may   *)
(* close next, and a tick may come after any number of them.               *)
(***************************************************************************)
EXTENDS Lifecycle, Sequences

CONSTANT MaxCandles        \* bound: candles after the setup candle

ASSUME MaxCandlesAssumption == MaxCandles \in Nat

VARIABLES
    be,          \* profile.move_sl_to_be_on_tp1 of this symbol
    candles,     \* the closed candles after the setup candle
    trade,       \* the live signal
    evaluated,   \* how many candles the last tick walked
    tp1_events   \* how often SIGNAL_TP1_HIT was emitted

vars == <<be, candles, trade, evaluated, tp1_events>>

CreatedAt == 0
TriggeredAt == 1

(***************************************************************************)
(* The trade after each of the candles cs, walking those that open at      *)
(* first or later until the trade closes.                                  *)
(***************************************************************************)
WalkCandles(start, cs, move_sl_to_be, first) ==
    LET after[i \in 0..Len(cs)] ==
          IF i < first THEN start
          ELSE IF IsOpen(after[i - 1])
               THEN StepSignalState(after[i - 1], cs[i], move_sl_to_be, i)
               ELSE after[i - 1]
    IN  after

\* Mutant: candles are kept from triggered_at on, not after it.
EvaluateFromTrigger(start) == WalkCandles(start, candles, be, TriggeredAt)

\* Mutant: a tick restarts the status it persisted at TP1.
EvaluateForgettingTp1(start) ==
    WalkCandles([start EXCEPT !.status = "TRIGGERED"], candles, be, TriggeredAt + 1)

\* update_watchlist: signal_candles are those with timestamp > triggered_at.
EvaluateLive(start) == WalkCandles(start, candles, be, TriggeredAt + 1)

\* query_signal_status, over the candles the last tick saw.
QueryReplay ==
    WalkCandles(NewTrade(CreatedAt), SubSeq(candles, 1, evaluated), be,
                TriggeredAt + 1)[evaluated]

\* Mutant: future_np starts one candle late.
BacktestReplayLate ==
    WalkCandles(NewTrade(CreatedAt), SubSeq(candles, 1, evaluated), be,
                TriggeredAt + 2)[evaluated]

\* _simulate: future_np starts with the candle after the setup candle.
BacktestReplay ==
    WalkCandles(NewTrade(CreatedAt), SubSeq(candles, 1, evaluated), be,
                TriggeredAt)[evaluated]

-----------------------------------------------------------------------------
Init ==
    /\ be \in BOOLEAN
    /\ candles = <<>>
    /\ trade = NewTrade(CreatedAt)
    /\ evaluated = 0
    /\ tp1_events = 0

CandleCloses(c) ==
    /\ Len(candles) < MaxCandles
    /\ candles' = Append(candles, c)
    /\ UNCHANGED <<be, trade, evaluated, tp1_events>>

(***************************************************************************)
(* One tick.  A closed signal has left the watchlist; with fewer than two  *)
(* candles (the setup candle included) the tick returns early.  A tick may *)
(* find no new candle: the scheduler keeps the pace of the fastest LTF.    *)
(***************************************************************************)
UpdateWatchlist ==
    /\ IsOpen(trade)
    /\ Len(candles) + 1 >= 2
    /\ LET after == EvaluateLive(trade)
       IN  /\ trade' = after[Len(candles)]
           /\ tp1_events' =
                IF \E i \in 1..Len(candles) : EmitTp1(after[i - 1], after[i])
                THEN tp1_events + 1 ELSE tp1_events
    /\ evaluated' = Len(candles)
    /\ UNCHANGED <<be, candles>>

\* The market data ends (MaxCandles) or the trade is closed.
Done ==
    /\ Len(candles) = MaxCandles
    /\ ~IsOpen(trade) \/ evaluated = MaxCandles
    /\ UNCHANGED vars

Next ==
    \/ \E c \in Candle : CandleCloses(c)
    \/ UpdateWatchlist
    \/ Done

Spec == Init /\ [][Next]_vars

-----------------------------------------------------------------------------
\* Every variable holds a value of the code's type.
TypeOK ==
    /\ be \in BOOLEAN
    /\ candles \in Seq(Candle) /\ Len(candles) <= MaxCandles
    /\ trade \in Trade
    /\ evaluated \in 0..Len(candles)
    /\ tp1_events \in Nat

(***************************************************************************)
(* Every tick walks the whole history again, yet SIGNAL_TP1_HIT goes out   *)
(* once: subscribers book the partial close on it.                         *)
(***************************************************************************)
Tp1AnnouncedOnce == tp1_events <= 1

(***************************************************************************)
(* A trade whose stop was moved to entry at TP1 can no longer be recorded  *)
(* as a LOSS, whichever ticks see which candles (step_signal_state).       *)
(***************************************************************************)
NoLossAfterTp1 == be /\ tp1_events > 0 => trade.outcome # "LOSS"

(***************************************************************************)
(* A trade closed live carries a realized_rr, the assertion at the head of *)
(* _close_signal, and one that fits its outcome.                           *)
(***************************************************************************)
ClosedTradeIsPriced ==
    ~IsOpen(trade) =>
        trade.realized_rr = [WIN_FULL |-> "weighted", BREAKEVEN |-> "protected",
                             LOSS |-> "minus_one", EXPIRED |-> "zero"][trade.outcome]

(***************************************************************************)
(* Without the breakeven stop, walking the history again on every tick     *)
(* changes nothing: the live signal is what query_signal_status reports.   *)
(***************************************************************************)
LiveMatchesQuery == ~be => trade = QueryReplay

(***************************************************************************)
(* With the breakeven stop a WIN_FULL or a LOSS recorded live is the one   *)
(* the query reports, to the candle.                                       *)
(***************************************************************************)
WinsAndLossesMatchQuery ==
    trade.outcome \in {"WIN_FULL", "LOSS"} => trade = QueryReplay

(***************************************************************************)
(* The claim of signal_service.py that live evaluation and query replay    *)
(* share identical behavior, for every profile.                            *)
(***************************************************************************)
LiveQueryParity == trade = QueryReplay

(***************************************************************************)
(* Live evaluation skips the candle that opens at triggered_at, the        *)
(* backtest replays it.  When that candle leaves the trade alone and the   *)
(* stop stays where it was, the two agree on every candle after it.        *)
(***************************************************************************)
LiveMatchesBacktest ==
    LET new == NewTrade(CreatedAt)
    IN  /\ ~be /\ evaluated > 0
        /\ StepSignalState(new, candles[TriggeredAt], be, TriggeredAt) = new
        => trade = BacktestReplay
==============================================================================
