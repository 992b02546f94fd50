------------------------------ MODULE Lifecycle ------------------------------
(***************************************************************************)
(* The lifecycle policy of one trade signal: what one closed candle does   *)
(* to it (app/engine/market_replay.py, step_signal_state).                 *)
(*                                                                         *)
(* Prices are abstracted to the order the code compares.  Seen from the    *)
(* signal, one side of entry holds the stop, the other TP1 and, beyond it, *)
(* TP2; a candle is given by the farthest level each of its extremes       *)
(* touches.  LONG and SHORT are mirror images and need no case of their    *)
(* own.  Times are candle opens, counted in candles of the fastest LTF.    *)
(***************************************************************************)
EXTENDS Integers

CONSTANT SignalExpiry      \* signal_expiry_hours, in candles

ASSUME SignalExpiryAssumption == SignalExpiry \in Nat

OpenStatus == {"TRIGGERED", "TP1_HIT"}
ClosedStatus == {"TP2_HIT", "SL_HIT", "EXPIRED"}
SignalOutcome == {"WIN_FULL", "BREAKEVEN", "LOSS", "EXPIRED"}

\* realized_rr, by the formula that computes it: -1.0, 0.0,
\* protected_breakeven_rr, tp2_weighted_rr.
RealizedRR == {"minus_one", "zero", "protected", "weighted"}

\* "none" on either side: the extreme stops short of entry (of TP1).
Candle == [against : {"none", "entry", "stop"},
           toward  : {"none", "tp1", "tp2"}]

\* The fields of TradeSignal the policy reads or writes; "none" is None.
Trade == [created_at  : Nat,
          status      : OpenStatus \cup ClosedStatus,
          outcome     : SignalOutcome \cup {"none"},
          realized_rr : RealizedRR \cup {"none"},
          closed_at   : Int]

\* build_signal: the trade as the builder hands it over.
NewTrade(created) ==
    [created_at |-> created, status |-> "TRIGGERED", outcome |-> "none",
     realized_rr |-> "none", closed_at |-> -1]

IsOpen(trade) == trade.status \in OpenStatus

Settle(trade, status, outcome, rr, now) ==
    [trade EXCEPT !.status = status, !.outcome = outcome,
                  !.realized_rr = rr, !.closed_at = now]

PastExpiry(created, now) == now - created > SignalExpiry

\* Mutant: an expired TP1 trade is given its outcome but not its RR.
ExpireUnpriced(trade, be, now) ==
    IF trade.status = "TP1_HIT" /\ be
    THEN Settle(trade, "EXPIRED", "BREAKEVEN", trade.realized_rr, now)
    ELSE Settle(trade, "EXPIRED", "EXPIRED", "zero", now)

(***************************************************************************)
(* The expiry branch.  It does not ask whether the trade is still open: a  *)
(* closed one is stamped EXPIRED and keeps its outcome and realized_rr.    *)
(***************************************************************************)
Expire(trade, be, now) ==
    CASE trade.status = "TP1_HIT" /\ be ->
            Settle(trade, "EXPIRED", "BREAKEVEN", "protected", now)
      [] trade.status = "TRIGGERED" \/ (trade.status = "TP1_HIT" /\ ~be) ->
            Settle(trade, "EXPIRED", "EXPIRED", "zero", now)
      [] OTHER ->
            Settle(trade, "EXPIRED", trade.outcome, trade.realized_rr, now)

StepTriggered(trade, candle, now) ==
    CASE candle.toward = "tp2" ->
            Settle(trade, "TP2_HIT", "WIN_FULL", "weighted", now)
      [] candle.toward # "tp2" /\ candle.against = "stop" ->
            Settle(trade, "SL_HIT", "LOSS", "minus_one", now)
      [] candle.toward = "tp1" /\ candle.against # "stop" ->
            [trade EXCEPT !.status = "TP1_HIT"]
      [] OTHER -> trade

\* Mutant: the stop moved to entry still books a LOSS.
StepTp1HitAtStop(trade, candle, be, now) ==
    CASE candle.toward = "tp2" ->
            Settle(trade, "TP2_HIT", "WIN_FULL", "weighted", now)
      [] candle.toward # "tp2" /\ candle.against # "none" ->
            Settle(trade, "SL_HIT", "LOSS", "minus_one", now)
      [] OTHER -> trade

(***************************************************************************)
(* After TP1 the stop stands at entry when be (move_sl_to_be_on_tp1).  A   *)
(* candle that moves the trade to TP1 also falls through to this branch    *)
(* in the code, with TP2 untouched and the old stop untouched: nothing     *)
(* more happens to it.                                                     *)
(***************************************************************************)
StepTp1Hit(trade, candle, be, now) ==
    CASE candle.toward = "tp2" ->
            Settle(trade, "TP2_HIT", "WIN_FULL", "weighted", now)
      [] candle.toward # "tp2" /\ be /\ candle.against # "none" ->
            Settle(trade, "SL_HIT", "BREAKEVEN", "protected", now)
      [] candle.toward # "tp2" /\ ~be /\ candle.against = "stop" ->
            Settle(trade, "SL_HIT", "LOSS", "minus_one", now)
      [] OTHER -> trade

StepSignalState(trade, candle, be, now) ==
    CASE PastExpiry(trade.created_at, now) -> Expire(trade, be, now)
      [] ~PastExpiry(trade.created_at, now) /\ trade.status = "TRIGGERED" ->
            StepTriggered(trade, candle, now)
      [] ~PastExpiry(trade.created_at, now) /\ trade.status = "TP1_HIT" ->
            StepTp1Hit(trade, candle, be, now)
      [] OTHER -> trade

\* StepOutcome.emit_tp1 of the step from trade to next.
EmitTp1(trade, next) == trade.status = "TRIGGERED" /\ next.status = "TP1_HIT"
==============================================================================
