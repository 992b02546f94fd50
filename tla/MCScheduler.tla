----------------------------- MODULE MCScheduler -----------------------------
(***************************************************************************)
(* Scheduler for TLC: a closing inside the week, one that spans its end,   *)
(* and none; the true offset, one three units behind and one two units     *)
(* ahead, which round the week is four behind.                             *)
(***************************************************************************)
EXTENDS Scheduler

ThreeWeekends == {[close |-> 1, reopen |-> 3],
                  [close |-> 4, reopen |-> 1],
                  [close |-> 0, reopen |-> 0]}

ThreeOffsets == {1, -2, 3}
==============================================================================
