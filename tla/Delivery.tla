------------------------------- MODULE Delivery ------------------------------
(***************************************************************************)
(* The manager's way of a signal: the engines' events reach the router,    *)
(* signal.triggered goes through the consensus engine, everything goes out *)
(* through the gateway.  The pipelines, the router and the gateway share   *)
(* one event loop, so on_signal and drain_expired are atomic; the drain    *)
(* loop may be late by any time, for an engine's tick can hold the loop.   *)
(***************************************************************************)
EXTENDS Gateway, SequencesExt

CONSTANTS
    Brokers,
    Signals,       \* the signals engines can trigger: symbol, setup, pair
    Window,        \* consensus_window_ms
    DrainPeriod,   \* the drain loop's second, in units of time
    Event,         \* the payload of any other event
    MaxTasks       \* bound: broadcasts in all

\* ConsensusEngine._key; the direction is part of the setup, the pair of none.
Key(signal) == <<signal.symbol, signal.setup>>

Keys == {Key(s) : s \in Signals}

ASSUME DeliveryAssumption ==
    /\ Window \in Nat /\ DrainPeriod \in Nat \ {0}
    /\ \A s \in Signals : s.symbol \in Symbols
    /\ Event \notin Signals
    /\ \A l \in Limits : l.clients \in 0..MaxClients /\ l.reports + l.events <= MaxTasks

VARIABLES
    pending,   \* _pending, in the order of insertion
    sleep,     \* until the drain loop wakes
    reports,   \* history: how often each broker triggered each setup
    events     \* other events so far

consensusVars == <<pending, sleep, reports, events>>

vars == <<gatewayVars, consensusVars>>

Init ==
    /\ GatewayInit
    /\ pending = <<>>
    /\ sleep = DrainPeriod
    /\ reports = [kb \in Keys \X Brokers |-> 0]
    /\ events = 0

-----------------------------------------------------------------------------
(***************************************************************************)
(* Consensus                                                               *)
(***************************************************************************)

\* The entries of the sequence that are in the set, in their order.
Within(entries, kept) ==
    LET F[i \in 0..Len(entries)] ==
          IF i = 0 THEN <<>>
          ELSE IF entries[i] \in kept THEN Append(F[i - 1], entries[i]) ELSE F[i - 1]
    IN  F[Len(entries)]

Waiting(k) == {p \in ToSet(pending) : Key(p.signal) = k}

Expired == {p \in ToSet(pending) : p.left = 0}

Emission(p, brokers) ==
    Broadcast([signal |-> p.signal, consensus |-> brokers], p.signal.symbol)

\* An engine of the broker triggers the signal and on_signal takes it.
Trigger(signal, b) ==
    /\ phase # "stopped"
    /\ SumFunction(reports) < limit.reports /\ <<signal, b>> \in limit.triggers
    /\ reports' = [reports EXCEPT ![<<Key(signal), b>>] = @ + 1]

\* The first broker: buffer and wait.
PushFirst(signal, b) ==
    /\ Waiting(Key(signal)) = {}
    /\ Trigger(signal, b)
    /\ pending' = Append(pending, [signal |-> signal, brokers |-> {b}, left |-> Window])
    /\ UNCHANGED <<gatewayVars, sleep, events>>

\* The same broker again: ignored.
PushDuplicate(signal, b) ==
    /\ \E p \in Waiting(Key(signal)) : b \in p.brokers
    /\ Trigger(signal, b)
    /\ UNCHANGED <<gatewayVars, pending, sleep, events>>

\* Mutant: the entry stays after the second broker confirmed it.
PushSecondKeeps(signal, b) ==
    \E p \in Waiting(Key(signal)) :
       /\ b \notin p.brokers
       /\ Trigger(signal, b)
       /\ tasks' = Append(tasks, Emission(p, p.brokers \cup {b}))
       /\ UNCHANGED <<clientVars, inbox, signals_delivered, phase, pending, sleep, events>>

\* A second broker: the first's signal goes out at once, with both.
PushSecond(signal, b) ==
    \E p \in Waiting(Key(signal)) :
       /\ b \notin p.brokers
       /\ Trigger(signal, b)
       /\ pending' = Within(pending, ToSet(pending) \ Waiting(Key(signal)))
       /\ tasks' = Append(tasks, Emission(p, p.brokers \cup {b}))
       /\ UNCHANGED <<clientVars, inbox, signals_delivered, phase, sleep, events>>

\* Mutant: one expired signal a round, and the others are forgotten.
DrainFirstOnly ==
    LET due == Within(pending, Expired)
    IN  /\ phase = "up" /\ sleep = 0
        /\ sleep' = DrainPeriod
        /\ pending' = Within(pending, ToSet(pending) \ Expired)
        /\ tasks' = tasks \o [i \in 1..Min({1, Len(due)}) |-> Emission(due[i], due[i].brokers)]
        /\ UNCHANGED <<clientVars, inbox, signals_delivered, phase, reports, events>>

\* _drain_loop wakes: what has expired goes out alone, oldest first.
Drain ==
    LET due == Within(pending, Expired)
    IN  /\ phase = "up" /\ sleep = 0
        /\ sleep' = DrainPeriod
        /\ pending' = Within(pending, ToSet(pending) \ Expired)
        /\ tasks' = tasks \o [i \in 1..Len(due) |-> Emission(due[i], due[i].brokers)]
        /\ UNCHANGED <<clientVars, inbox, signals_delivered, phase, reports, events>>

\* Any other event goes to every client.
EngineEvent ==
    /\ phase # "stopped" /\ events < limit.events
    /\ events' = events + 1
    /\ tasks' = Append(tasks, Broadcast(Event, NoSymbol))
    /\ UNCHANGED <<clientVars, inbox, signals_delivered, phase, pending, sleep, reports>>

-----------------------------------------------------------------------------
Less(n) == IF n = 0 THEN 0 ELSE n - 1

Advance ==
    /\ sleep' = Less(sleep)
    /\ pending' = [i \in DOMAIN pending |-> [pending[i] EXCEPT !.left = Less(@)]]
    /\ UNCHANGED <<gatewayVars, reports, events>>

\* bootstrap.run after the stop event: no drain any more, the server closes.
Stop ==
    /\ phase = "up"
    /\ phase' = "closing"
    /\ UNCHANGED <<clientVars, tasks, inbox, signals_delivered, consensusVars>>

Connection(c) ==
    \/ \E named \in SUBSET Symbols : Subscribe(c, named) \/ Unsubscribe(c, named)
    \/ Disconnect(c) \/ HandlerEnds(c) \/ HandlerFails(c)

Next ==
    \/ \E s \in Signals, b \in Brokers :
          PushFirst(s, b) \/ PushDuplicate(s, b) \/ PushSecond(s, b)
    \/ Drain \/ EngineEvent \/ Advance \/ Stop
    \/ /\ \/ Connect
          \/ \E c \in Clients : Connection(c)
          \/ \E i \in DOMAIN tasks : Run(i)
          \/ ServerClosed
       /\ UNCHANGED consensusVars

Spec == Init /\ [][Next]_vars

(***************************************************************************)
(* Time passes and the drain loop is scheduled.  A task that waits in a    *)
(* send goes on: the peer reads, or the keepalive closes the connection.   *)
(* A closed connection ends its handler; a server that closes closes all.  *)
(***************************************************************************)
Fairness ==
    /\ WF_vars(Advance) /\ WF_vars(Drain)
    /\ \A i \in 1..MaxTasks :
          WF_vars(i \in DOMAIN tasks /\ Run(i) /\ UNCHANGED consensusVars)
    /\ \A c \in Clients :
          WF_vars(/\ HandlerEnds(c) \/ (phase = "closing" /\ Disconnect(c))
                  /\ UNCHANGED consensusVars)
    /\ WF_vars(ServerClosed /\ UNCHANGED consensusVars)

FairSpec == Spec /\ Fairness

-----------------------------------------------------------------------------
(***************************************************************************)
(* Properties                                                              *)
(***************************************************************************)

\* The broadcasts that carry the setup and name the broker.
Named(k, b) == {i \in DOMAIN tasks : /\ tasks[i].symbol # NoSymbol
                                     /\ Key(tasks[i].payload.signal) = k
                                     /\ b \in tasks[i].payload.consensus}

\* Where the buffer holds the broker's report of the setup.
Buffered(k, b) == {i \in DOMAIN pending : Key(pending[i].signal) = k /\ b \in pending[i].brokers}

(***************************************************************************)
(* Every report counts once: for each setup and broker, the signals that   *)
(* went out with the broker in their consensus, and the one that waits,    *)
(* are no more than its reports.  A setup that all three brokers see in    *)
(* turn, or that comes again later, is never counted twice.                *)
(***************************************************************************)
ReportsCountOnce ==
    \A k \in Keys, b \in Brokers :
       Cardinality(Named(k, b)) + Cardinality(Buffered(k, b)) <= reports[<<k, b>>]

(***************************************************************************)
(* A client whose connection is open is never taken off the list, whatever *)
(* broadcasts were suspended on it or on others when connections broke:    *)
(* a broadcast removes only the clients it found dead.                     *)
(***************************************************************************)
OpenStaysRegistered == open \subseteq registered

\* A broadcast as the agreement sees it.
Shown(t) ==
    IF t.symbol = NoSymbol THEN Event
    ELSE [key |-> Key(t.payload.signal), consensus |-> t.payload.consensus]

(***************************************************************************)
(* The consensus engine with its window and drain loop implements the      *)
(* agreement: a report goes out with the second broker's or alone, once,   *)
(* and until the shutdown it does go out.                                  *)
(***************************************************************************)
Agreed == INSTANCE Agreement
    WITH Other <- Event,
         waiting <- [k \in Keys |-> UNION {p.brokers : p \in Waiting(k)}],
         out <- [i \in 1..Len(tasks) |-> Shown(tasks[i])],
         closed <- phase # "up"

ImplementsAgreement == Agreed!Spec

Listens(c, i) ==
    i \in DOMAIN tasks /\ c \in registered \cap open /\ tasks[i].symbol \in symbols[c]

(***************************************************************************)
(* A client that is connected and subscribed when a signal goes out, and   *)
(* stays so, receives it, however slow or dead the clients before it are.  *)
(***************************************************************************)
SubscriberReceives ==
    \A c \in Clients, i \in 1..MaxTasks :
       (Listens(c, i) /\ tasks[i].stage = "new")
          ~> (i \in inbox[c] \/ ~Listens(c, i))

\* The shutdown comes to its end and leaves no client and no broadcast.
StopEnds ==
    (phase = "closing") ~> (/\ phase = "stopped" /\ registered = {}
                            /\ \A i \in DOMAIN tasks : tasks[i].stage = "done")
==============================================================================
