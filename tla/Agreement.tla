------------------------------ MODULE Agreement ------------------------------
(***************************************************************************)
(* What the consensus engine promises, without its buffer, its window and  *)
(* its drain loop: a broker's report of a setup waits; it goes out with    *)
(* the report of a second broker, or alone; and until the shutdown nothing *)
(* waits for ever.                                                         *)
(***************************************************************************)
EXTENDS Naturals, FiniteSets, Sequences

CONSTANTS
    Brokers,
    Keys,
    Other      \* what goes out and is no report

VARIABLES
    waiting,   \* per setup, the brokers whose report has not gone out
    out,       \* what has gone out, in order
    closed     \* the shutdown has begun

vars == <<waiting, out, closed>>

Init ==
    /\ waiting = [k \in Keys |-> {}]
    /\ out = <<>>
    /\ closed = FALSE

Report(k, b) ==
    /\ waiting[k] = {}
    /\ waiting' = [waiting EXCEPT ![k] = {b}]
    /\ UNCHANGED <<out, closed>>

Confirm(k, b) ==
    /\ waiting[k] # {} /\ b \notin waiting[k]
    /\ waiting' = [waiting EXCEPT ![k] = {}]
    /\ out' = Append(out, [key |-> k, consensus |-> waiting[k] \cup {b}])
    /\ UNCHANGED closed

\* The setups of ks go out alone, in some order.
Alone(ks) ==
    /\ ~closed
    /\ ks # {} /\ \A k \in ks : waiting[k] # {}
    /\ waiting' = [k \in Keys |-> IF k \in ks THEN {} ELSE waiting[k]]
    /\ \E order \in [1..Cardinality(ks) -> ks] :
          /\ {order[i] : i \in DOMAIN order} = ks
          /\ out' = out \o [i \in DOMAIN order |->
                              [key |-> order[i], consensus |-> waiting[order[i]]]]
    /\ UNCHANGED closed

Close ==
    /\ closed' = TRUE
    /\ UNCHANGED <<waiting, out>>

\* Anything else goes out at once.
Pass ==
    /\ out' = Append(out, Other)
    /\ UNCHANGED <<waiting, closed>>

Next ==
    \/ \E k \in Keys, b \in Brokers : Report(k, b) \/ Confirm(k, b)
    \/ \E ks \in SUBSET Keys : Alone(ks)
    \/ Pass \/ Close

GoesOut(k) ==
    /\ ~closed
    /\ \/ \E b \in Brokers : Confirm(k, b)
       \/ \E ks \in SUBSET Keys : k \in ks /\ Alone(ks)

Safety == Init /\ [][Next]_vars

Spec == Safety /\ \A k \in Keys : WF_vars(GoesOut(k))
==============================================================================
