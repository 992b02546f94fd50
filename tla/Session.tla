------------------------------- MODULE Session -------------------------------
(***************************************************************************)
(* The arithmetic of app/session/coordinator.py: the loss streak, the      *)
(* pause it causes, and the order in which a session's records come back   *)
(* from SQLite.                                                            *)
(***************************************************************************)
EXTENDS Dedup, Lifecycle, Sequences

CONSTANTS
    DayLength,              \* a UTC day, in candles of the fastest LTF
    MaxConsecutiveLosses,
    PauseLength             \* pause_after_streak_h, in candles

ASSUME SessionAssumption ==
    /\ DayLength \in Nat \ {0}
    /\ MaxConsecutiveLosses \in Nat \ {0}
    /\ PauseLength \in Nat

WinOutcomes == {"WIN_FULL", "BREAKEVEN"}

ClosedRecord == [sig : Signal, outcome : SignalOutcome, closed_at : Nat]

NoPause == -1

Day(t) == t \div DayLength

\* The losses a walk back through the history meets before a win; EXPIRED
\* records are passed over.
StreakRecords(history) ==
    {i \in DOMAIN history :
        /\ history[i].outcome = "LOSS"
        /\ \A j \in DOMAIN history :
              j > i => history[j].outcome \notin WinOutcomes}

ConsecutiveLosses(history) == Cardinality(StreakRecords(history))

LastLoss(history) ==
    history[CHOOSE i \in StreakRecords(history) :
                \A j \in StreakRecords(history) : j <= i]

\* Mutant: one loss more before the pause.
CheckStreakLate(history, now) ==
    LET until == LastLoss(history).closed_at + PauseLength
    IN  IF ConsecutiveLosses(history) > MaxConsecutiveLosses /\ until > now
        THEN until ELSE NoPause

\* _check_streak: the new value of _paused_until.
CheckStreak(history, now) ==
    LET until == LastLoss(history).closed_at + PauseLength
    IN  IF ConsecutiveLosses(history) >= MaxConsecutiveLosses /\ until > now
        THEN until ELSE NoPause

Paused(until, ts) == until # NoPause /\ ts < until

(***************************************************************************)
(* load_closed_for_session: the records in the order of closed_at, equal   *)
(* ones in any order.                                                      *)
(***************************************************************************)
OrderedByClose(records) ==
    {h \in [1..Cardinality(records) -> records] :
        \A i, j \in DOMAIN h :
            i < j => h[i] # h[j] /\ h[i].closed_at <= h[j].closed_at}
==============================================================================
