---------------------------- MODULE DeliveryProofs ---------------------------
(***************************************************************************)
(* Proofs about the way of a signal, for any brokers, signals, clients and *)
(* limits.  DeliveryInv says what the parts need of each other: ids are    *)
(* given once and a broadcast holds as dead only clients that are closed,  *)
(* so a broadcast that removes its dead removes no open one; the buffer    *)
(* has one entry of a setup, so what leaves it goes out once.  From it     *)
(* follow the two invariants and, step by step, that the consensus engine  *)
(* implements the agreement.                                               *)
(***************************************************************************)
EXTENDS Delivery, IterationProofs, SequenceTheorems, FiniteSetTheorems

Payload == [signal : Signals, consensus : SUBSET Brokers] \cup {Event}

Task == [payload : Payload, symbol : Symbols \cup {NoSymbol},
         stage : {"new", "sending", "done"}, todo : SUBSET Nat,
         at : Nat \cup {NoClient}, dead : SUBSET Nat]

Entry == [signal : Signals, brokers : SUBSET Brokers, left : Nat]

\* Client ids have been given, and the open connections are registered.
Registry ==
    /\ counter \in 0..MaxClients /\ limit \in Limits
    /\ registered \subseteq 1..counter /\ open \subseteq registered

\* A broadcast that has met n clients or fewer holds none of the open as dead.
Sound(t, n, opened) ==
    /\ t \in Task
    /\ t.todo \subseteq 1..n
    /\ t.at \in (1..n) \cup {NoClient}
    /\ t.dead \subseteq (1..n) \ opened

TasksSound ==
    /\ tasks \in Seq(Task)
    /\ \A i \in DOMAIN tasks : Sound(tasks[i], counter, open)

\* No two entries of the buffer have the setup in common.
Distinct(s) == \A i, j \in DOMAIN s : Key(s[i].signal) = Key(s[j].signal) => i = j

Buffer ==
    /\ pending \in Seq(Entry)
    /\ Distinct(pending)
    /\ \A p \in ToSet(pending) : p.brokers # {}
    /\ reports \in [Keys \X Brokers -> Nat]

GatewayInv == Registry /\ TasksSound

DeliveryInv == GatewayInv /\ Buffer /\ ReportsCountOnce
-----------------------------------------------------------------------------
(***************************************************************************)
(* The buffer                                                              *)
(***************************************************************************)

\* Within keeps exactly the entries of the set, and no entry twice.
LEMMA WithinKeeps ==
    ASSUME NEW T, NEW s \in Seq(T), NEW A
    PROVE  /\ Within(s, A) \in Seq(T)
           /\ ToSet(Within(s, A)) = ToSet(s) \cap A
           /\ IsInjective(s) => IsInjective(Within(s, A))
  <1> DEFINE n == Len(s)
             step == [i \in 1..n |-> [v \in Seq(T) |->
                        IF s[i] \in A THEN Append(v, s[i]) ELSE v]]
             Grows(f) == [i \in 0..n |->
                            IF i = 0 THEN <<>>
                            ELSE IF s[i] \in A THEN Append(f[i - 1], s[i]) ELSE f[i - 1]]
             F == CHOOSE f : f = Grows(f)
  <1>1. n \in Nat /\ \A i \in 1..n : s[i] \in T
    BY LenProperties, ElementOfSeq
  <1>2. \E f \in [0..n -> Seq(T)] : f = Grows(f)
    <2>1. <<>> \in Seq(T)
      OBVIOUS
    <2>2. step \in [1..n -> [Seq(T) -> Seq(T)]]
      BY <1>1, AppendProperties
    <2>3. PICK f : IsRun(f, n, Seq(T), <<>>, step)
      <3> HIDE DEF step, n
      <3>1. QED
        BY <1>1, <2>1, <2>2, IterationExists
    <2>4. /\ f \in [0..n -> Seq(T)] /\ f[0] = <<>>
          /\ \A i \in 1..n : f[i] = step[i][f[i - 1]]
      BY <2>3, Zenon DEF IsRun
    <2>5. ASSUME NEW i \in 1..n
          PROVE  f[i] = IF s[i] \in A THEN Append(f[i - 1], s[i]) ELSE f[i - 1]
      <3>1. f[i - 1] \in Seq(T)
        <4>1. i - 1 \in 0..n
          BY <1>1
        <4>2. QED
          BY <2>4, <4>1, Zenon
      <3>2. step[i] = [v \in Seq(T) |-> IF s[i] \in A THEN Append(v, s[i]) ELSE v]
        BY Zenon
      <3>3. step[i][f[i - 1]] = IF s[i] \in A THEN Append(f[i - 1], s[i]) ELSE f[i - 1]
        BY <3>1, <3>2, Zenon
      <3>4. QED
        BY <2>4, <3>3, Zenon
    <2>6. f = Grows(f)
      <3>1. \A i \in 0..n : i = 0 \/ i \in 1..n
        BY <1>1
      <3>2. \A i \in 0..n :
               f[i] = IF i = 0 THEN <<>>
                      ELSE IF s[i] \in A THEN Append(f[i - 1], s[i]) ELSE f[i - 1]
        BY <2>4, <2>5, <3>1, Zenon
      <3>3. f = [i \in 0..n |-> f[i]]
        BY <2>4, Zenon
      <3>4. QED
        BY <3>2, <3>3, Zenon
    <2>7. QED
      BY <2>4, <2>6
  <1>3. F = Grows(F)
    BY <1>2
  <1>4. Within(s, A) = F[n]
    BY DEF Within
  <1> HIDE DEF F
  <1>5. F[0] = <<>> /\ \A i \in 1..n : F[i] = IF s[i] \in A THEN Append(F[i - 1], s[i]) ELSE F[i - 1]
    <2>1. 0 \in 0..n /\ \A i \in 1..n : i \in 0..n /\ i # 0
      BY <1>1
    <2>2. \A i \in 0..n : Grows(F)[i] =
             IF i = 0 THEN <<>>
             ELSE IF s[i] \in A THEN Append(F[i - 1], s[i]) ELSE F[i - 1]
      BY Zenon
    <2>3. \A i \in 0..n : F[i] = Grows(F)[i]
      BY <1>3, Zenon
    <2>4. QED
      BY <2>1, <2>2, <2>3, Zenon
  <1> DEFINE Holds(i) == /\ F[i] \in Seq(T)
                         /\ ToSet(F[i]) = {s[j] : j \in 1..i} \cap A
                         /\ IsInjective(s) => IsInjective(F[i])
             S == {i \in 0..n : Holds(i)}
  <1>6. 0 \in S
    <2>1. F[0] = <<>> /\ <<>> \in Seq(T) /\ DOMAIN <<>> = {} /\ 1..0 = {} /\ 0 \in 0..n
      BY <1>1, <1>5
    <2>2. ToSet(F[0]) = {} /\ IsInjective(F[0]) /\ {s[j] : j \in 1..0} = {}
      BY <2>1 DEF ToSet, IsInjective
    <2>3. QED
      BY <2>1, <2>2
  <1>7. ASSUME NEW i \in 1..n, i - 1 \in S
        PROVE  i \in S
    <2>1. Holds(i - 1) /\ i - 1 \in 0..n
      BY <1>7
    <2>2. CASE s[i] \notin A
      <3>1. F[i] = F[i - 1]
        BY <1>5, <2>2
      <3>2. {s[j] : j \in 1..i} \cap A = {s[j] : j \in 1..(i - 1)} \cap A
        BY <1>1, <2>2
      <3>3. QED
        BY <2>1, <3>1, <3>2
    <2>3. CASE s[i] \in A
      <3>1. F[i] = Append(F[i - 1], s[i])
        BY <1>5, <2>3
      <3>2. /\ F[i] \in Seq(T) /\ Len(F[i]) = Len(F[i - 1]) + 1
            /\ F[i][Len(F[i - 1]) + 1] = s[i]
            /\ \A j \in 1..Len(F[i - 1]) : F[i][j] = F[i - 1][j]
        BY <1>1, <2>1, <3>1, AppendProperties
      <3>3. Len(F[i - 1]) \in Nat /\ DOMAIN F[i - 1] = 1..Len(F[i - 1]) /\ DOMAIN F[i] = 1..Len(F[i])
        BY <2>1, <3>2, LenProperties
      <3>4. ToSet(F[i]) = ToSet(F[i - 1]) \cup {s[i]}
        <4> DEFINE m == Len(F[i - 1])
        <4>1. m + 1 \in DOMAIN F[i] /\ \A j \in DOMAIN F[i] : j = m + 1 \/ j \in DOMAIN F[i - 1]
          BY <3>2, <3>3
        <4>2. \A j \in DOMAIN F[i - 1] : j \in DOMAIN F[i] /\ F[i][j] = F[i - 1][j]
          BY <3>2, <3>3
        <4>3. F[i][m + 1] = s[i]
          BY <3>2
        <4>4. QED
          BY <4>1, <4>2, <4>3 DEF ToSet
      <3>5. {s[j] : j \in 1..i} = {s[j] : j \in 1..(i - 1)} \cup {s[i]}
        BY <1>1
      <3>6. ASSUME IsInjective(s) PROVE IsInjective(F[i])
        <4>1. DOMAIN s = 1..n
          BY LenProperties
        <4>2. s[i] \notin ToSet(F[i - 1])
          BY <2>1, <3>6, <4>1 DEF IsInjective
        <4>3. QED
          <5> SUFFICES ASSUME NEW a \in DOMAIN F[i], NEW b \in DOMAIN F[i], F[i][a] = F[i][b]
                       PROVE  a = b
            BY DEF IsInjective
          <5>1. \A c \in 1..Len(F[i - 1]) : F[i][c] = F[i - 1][c] /\ F[i][c] # s[i]
            BY <3>2, <3>3, <4>2 DEF ToSet
          <5>2. \A c \in DOMAIN F[i] : c \in 1..Len(F[i - 1]) \/ (F[i][c] = s[i] /\ c = Len(F[i - 1]) + 1)
            BY <3>2, <3>3
          <5>3. QED
            BY <2>1, <3>3, <3>6, <5>1, <5>2 DEF IsInjective
      <3>7. QED
        BY <2>1, <2>3, <3>2, <3>4, <3>5, <3>6
    <2>4. QED
      BY <2>2, <2>3
  <1>8. n \in S
    <2> HIDE DEF S
    <2>1. 0..n \subseteq S
      BY <1>1, <1>6, <1>7, IntervalInduction
    <2>2. QED
      BY <1>1, <2>1
  <1>9. ToSet(s) = {s[j] : j \in 1..n}
    BY LenProperties DEF ToSet
  <1>10. QED
    BY <1>4, <1>8, <1>9
\* Within keeps the buffer free of two entries of a setup.
LEMMA WithinDistinct ==
    ASSUME NEW s \in Seq(Entry), Distinct(s), NEW A
    PROVE  Distinct(Within(s, A))
  <1> DEFINE r == Within(s, A)
  <1>1. IsInjective(s)
    BY DEF IsInjective, Distinct
  <1>2. r \in Seq(Entry) /\ ToSet(r) \subseteq ToSet(s) /\ IsInjective(r)
    BY <1>1, WithinKeeps
  <1> HIDE DEF r
  <1>3. SUFFICES ASSUME NEW i \in DOMAIN r, NEW j \in DOMAIN r,
                        Key(r[i].signal) = Key(r[j].signal)
                 PROVE  i = j
    BY DEF Distinct, r
  <1>4. r[i] \in ToSet(s) /\ r[j] \in ToSet(s)
    BY <1>2 DEF ToSet
  <1>5. r[i] = r[j]
    BY <1>3, <1>4 DEF Distinct, ToSet
  <1>6. QED
    BY <1>2, <1>5 DEF IsInjective

-----------------------------------------------------------------------------
(***************************************************************************)
(* The gateway's steps                                                     *)
(***************************************************************************)

\* The least of some clients is one of them.
LEMMA MinOfClients ==
    ASSUME NEW S \in SUBSET Nat, S # {}
    PROVE  Min(S) \in S /\ \A x \in S : Min(S) <= x
  BY LeastExists DEF Min

\* What a broadcast carries does not change.
SameCargo ==
    /\ tasks' \in Seq(Task) /\ Len(tasks') = Len(tasks) /\ DOMAIN tasks' = DOMAIN tasks
    /\ \A i \in DOMAIN tasks : /\ tasks'[i].payload = tasks[i].payload
                               /\ tasks'[i].symbol = tasks[i].symbol

\* A client connects: it is no client that a broadcast has met.
LEMMA ConnectSound ==
    ASSUME GatewayInv, Connect
    PROVE  GatewayInv' /\ SameCargo
  <1>1. counter' = counter + 1 /\ counter' \in 0..MaxClients
    <2>1. limit.clients \in 0..MaxClients /\ counter < limit.clients /\ counter \in 0..MaxClients
      BY DeliveryAssumption DEF Connect, GatewayInv, Registry
    <2>2. QED
      BY <2>1, GatewayAssumption DEF Connect
  <1>2. Registry'
    BY <1>1 DEF Connect, GatewayInv, Registry
  <1>3. \A t : Sound(t, counter, open) => Sound(t, counter', open')
    BY <1>1 DEF Connect, Sound, GatewayInv, Registry
  <1>4. TasksSound'
    BY <1>3 DEF Connect, TasksSound, GatewayInv
  <1>5. QED
    BY <1>2, <1>4, LenProperties DEF Connect, GatewayInv, TasksSound, SameCargo

\* The steps of a connection close clients, and none is opened.
LEMMA ConnectionSound ==
    ASSUME GatewayInv, NEW c \in Clients, Connection(c)
    PROVE  GatewayInv' /\ SameCargo
  <1>1. /\ open' \subseteq open /\ registered' \subseteq registered /\ open' \subseteq registered'
        /\ UNCHANGED <<counter, tasks, limit>>
    BY DEF Connection, Subscribe, Unsubscribe, Disconnect, HandlerEnds, HandlerFails,
           GatewayInv, Registry
  <1>2. Registry'
    BY <1>1 DEF GatewayInv, Registry
  <1>3. \A t : Sound(t, counter, open) => Sound(t, counter', open')
    BY <1>1 DEF Sound
  <1>4. TasksSound'
    BY <1>1, <1>3 DEF TasksSound, GatewayInv
  <1>5. QED
    BY <1>1, <1>2, <1>4 DEF GatewayInv, TasksSound, SameCargo
\* One broadcast goes on; the others are left alone.
LEMMA OneTaskMoves ==
    ASSUME GatewayInv, NEW i \in DOMAIN tasks, NEW u, Sound(u, counter, open),
           tasks' = [tasks EXCEPT ![i] = u], UNCHANGED <<counter, open>>,
           u.payload = tasks[i].payload, u.symbol = tasks[i].symbol
    PROVE  TasksSound' /\ SameCargo
  <1>1. tasks \in Seq(Task) /\ u \in Task /\ i \in 1..Len(tasks)
    BY LenProperties DEF GatewayInv, TasksSound, Sound
  <1>2. /\ tasks' \in Seq(Task) /\ Len(tasks') = Len(tasks)
        /\ DOMAIN tasks' = DOMAIN tasks
        /\ \A j \in DOMAIN tasks : tasks'[j] = IF j = i THEN u ELSE tasks[j]
    BY <1>1, ExceptSeq, LenProperties
  <1>3. QED
    BY <1>2 DEF TasksSound, SameCargo, GatewayInv

\* A broadcast removes only clients it found dead, and they stay dead.
LEMMA RunSound ==
    ASSUME GatewayInv, NEW i \in DOMAIN tasks, Run(i)
    PROVE  GatewayInv' /\ SameCargo
  <1> DEFINE t == tasks[i]
             live == Targets(t) \cap open
             c == Min(live)
             ended == [t EXCEPT !.stage = "done", !.todo = {}, !.at = NoClient, !.dead = {}]
             todo == {d \in Copy(t) : d > c}
             dead == {d \in Dead(t) : d < c}
             sending == [t EXCEPT !.stage = "sending", !.at = c, !.todo = todo, !.dead = dead]
  <1>1. /\ Sound(t, counter, open) /\ counter \in Nat
        /\ registered \subseteq 1..counter /\ open \subseteq registered
    BY DEF GatewayInv, TasksSound, Registry
  <1>2. Copy(t) \subseteq 1..counter
    BY <1>1 DEF Copy, Sound
  <1>3. Dead(t) \subseteq (1..counter) \ open
    BY <1>1, <1>2 DEF Dead, Lost, Targets, Sound
  <1>4. UNCHANGED <<counter, open, limit>>
    BY DEF Run
  <1>5. CASE live = {}
    <2>1. registered' = registered \ Dead(t) /\ tasks' = [tasks EXCEPT ![i] = ended]
      BY <1>5 DEF Run
    <2>2. Sound(ended, counter, open) /\ ended.payload = t.payload /\ ended.symbol = t.symbol
      BY <1>1 DEF Sound, Task
    <2>3. Registry'
      BY <1>3, <1>4, <2>1 DEF GatewayInv, Registry
    <2> HIDE DEF ended
    <2>4. QED
      BY <1>4, <2>1, <2>2, <2>3, OneTaskMoves DEF GatewayInv
  <1>6. CASE live # {}
    <2>1. registered' = registered /\ tasks' = [tasks EXCEPT ![i] = sending]
      BY <1>6 DEF Run
    <2>2. c \in live /\ c \in 1..counter
      <3>1. live \in SUBSET Nat /\ live \subseteq 1..counter
        BY <1>1, <1>2 DEF Targets
      <3> HIDE DEF live
      <3>2. QED
        BY <1>6, <3>1, MinOfClients
    <2>3. Sound(sending, counter, open) /\ sending.payload = t.payload /\ sending.symbol = t.symbol
      <3>1. todo \subseteq 1..counter /\ dead \subseteq (1..counter) \ open
        BY <1>2, <1>3
      <3>2. todo \in SUBSET Nat /\ dead \in SUBSET Nat
        BY <1>1, <3>1
      <3> HIDE DEF todo, dead, c
      <3>3. t \in Task /\ c \in Nat /\ c \in 1..counter
        BY <1>1, <2>2 DEF Sound
      <3> HIDE DEF t
      <3>4. /\ sending \in Task /\ sending.payload = t.payload /\ sending.symbol = t.symbol
            /\ sending.todo = todo /\ sending.dead = dead /\ sending.at = c
        BY <3>2, <3>3 DEF Task
      <3> HIDE DEF sending
      <3>5. QED
        BY <3>1, <3>3, <3>4 DEF Sound
    <2>4. Registry'
      BY <1>4, <2>1 DEF GatewayInv, Registry
    <2> HIDE DEF sending
    <2>5. QED
      BY <1>4, <2>1, <2>3, <2>4, OneTaskMoves DEF GatewayInv
  <1>7. QED
    BY <1>5, <1>6

\* The shutdown cancels every broadcast.
LEMMA ServerClosedSound ==
    ASSUME GatewayInv, ServerClosed
    PROVE  GatewayInv' /\ SameCargo
  <1> DEFINE ended(t) == [t EXCEPT !.stage = "done", !.todo = {}, !.at = NoClient, !.dead = {}]
  <1>1. UNCHANGED <<counter, registered, open, limit>> /\ tasks' = [i \in DOMAIN tasks |-> ended(tasks[i])]
    BY DEF ServerClosed
  <1>2. ASSUME NEW i \in DOMAIN tasks
        PROVE  /\ Sound(ended(tasks[i]), counter, open)
               /\ ended(tasks[i]).payload = tasks[i].payload
               /\ ended(tasks[i]).symbol = tasks[i].symbol
    <2>1. Sound(tasks[i], counter, open)
      BY DEF GatewayInv, TasksSound
    <2>2. QED
      BY <2>1 DEF Sound, Task
  <1> HIDE DEF ended
  <1>3. DOMAIN tasks = 1..Len(tasks) /\ Len(tasks) \in Nat
    BY LenProperties DEF GatewayInv, TasksSound
  <1>4. tasks' \in Seq(Task) /\ DOMAIN tasks' = DOMAIN tasks /\ Len(tasks') = Len(tasks)
    BY <1>1, <1>2, <1>3, SeqDef, LenProperties DEF Sound
  <1>5. TasksSound' /\ SameCargo
    BY <1>1, <1>2, <1>4 DEF TasksSound, SameCargo
  <1>6. Registry'
    BY <1>1 DEF GatewayInv, Registry
  <1>7. QED
    BY <1>5, <1>6 DEF GatewayInv

\* The gateway's own steps keep its part of the invariant and what is sent.
LEMMA GatewayStepSound ==
    ASSUME GatewayInv,
           \/ Connect \/ ServerClosed
           \/ \E c \in Clients : Connection(c)
           \/ \E i \in DOMAIN tasks : Run(i)
    PROVE  GatewayInv' /\ SameCargo
  BY ConnectSound, ServerClosedSound, ConnectionSound, RunSound

-----------------------------------------------------------------------------
(***************************************************************************)
(* New broadcasts                                                          *)
(***************************************************************************)

Fresh(t) == \E payload \in Payload, symbol \in Symbols \cup {NoSymbol} : t = Broadcast(payload, symbol)

\* A new broadcast has met no client.
LEMMA FreshSound ==
    ASSUME NEW t, Fresh(t), NEW n \in Nat, NEW S
    PROVE  Sound(t, n, S)
  BY DEF Fresh, Broadcast, Sound, Task

\* The broadcasts of new come after those there were.
Grown(new) ==
    /\ new \in Seq(Task) /\ tasks' \in Seq(Task)
    /\ Len(tasks') = Len(tasks) + Len(new)
    /\ \A i \in 1..Len(tasks) : tasks'[i] = tasks[i]
    /\ \A i \in 1..Len(new) : tasks'[Len(tasks) + i] = new[i]

LEMMA AppendGrown ==
    ASSUME tasks \in Seq(Task), NEW t \in Task, tasks' = Append(tasks, t)
    PROVE  Grown(<<t>>)
  <1>1. <<t>> \in Seq(Task) /\ Len(<<t>>) = 1 /\ <<t>>[1] = t
    OBVIOUS
  <1>2. /\ tasks' \in Seq(Task) /\ Len(tasks') = Len(tasks) + 1
        /\ \A i \in 1..Len(tasks) : tasks'[i] = tasks[i]
        /\ tasks'[Len(tasks) + 1] = t
    BY AppendProperties
  <1>3. QED
    BY <1>1, <1>2 DEF Grown

LEMMA ConcatGrown ==
    ASSUME tasks \in Seq(Task), NEW new \in Seq(Task), tasks' = tasks \o new
    PROVE  Grown(new)
  <1>1. Len(tasks) \in Nat /\ Len(new) \in Nat
    BY LenProperties
  <1>2. /\ tasks' \in Seq(Task) /\ Len(tasks') = Len(tasks) + Len(new)
        /\ \A i \in 1..(Len(tasks) + Len(new)) :
              tasks'[i] = IF i <= Len(tasks) THEN tasks[i] ELSE new[i - Len(tasks)]
    BY ConcatProperties
  <1>3. ASSUME NEW i \in 1..Len(new)
        PROVE  tasks'[Len(tasks) + i] = new[i]
    <2>1. /\ Len(tasks) + i \in 1..(Len(tasks) + Len(new)) /\ ~(Len(tasks) + i <= Len(tasks))
          /\ (Len(tasks) + i) - Len(tasks) = i
      BY <1>1
    <2>2. QED
      BY <1>2, <2>1
  <1>4. QED
    BY <1>1, <1>2, <1>3 DEF Grown

\* Fresh broadcasts keep the gateway's part of the invariant.
LEMMA BroadcastsSound ==
    ASSUME GatewayInv, NEW new, Grown(new), \A i \in 1..Len(new) : Fresh(new[i]),
           UNCHANGED clientVars
    PROVE  GatewayInv'
  <1>1. tasks \in Seq(Task) /\ counter \in Nat
    BY DEF GatewayInv, TasksSound, Registry
  <1>2. /\ Len(tasks) \in Nat /\ Len(new) \in Nat
        /\ DOMAIN tasks' = 1..(Len(tasks) + Len(new)) /\ DOMAIN tasks = 1..Len(tasks)
    BY <1>1, LenProperties DEF Grown
  <1>3. ASSUME NEW i \in DOMAIN tasks' PROVE Sound(tasks'[i], counter, open)
    <2>1. CASE i \in 1..Len(tasks)
      BY <1>2, <2>1 DEF GatewayInv, TasksSound, Grown
    <2>2. CASE i \notin 1..Len(tasks)
      <3>1. PICK j \in 1..Len(new) : i = Len(tasks) + j
        <4>1. i - Len(tasks) \in 1..Len(new) /\ i = Len(tasks) + (i - Len(tasks))
          BY <1>2, <2>2
        <4>2. QED
          BY <4>1
      <3>2. QED
        BY <1>1, <3>1, FreshSound DEF Grown
    <2>3. QED
      BY <2>1, <2>2
  <1>4. TasksSound'
    BY <1>3 DEF TasksSound, clientVars, Grown
  <1>5. Registry'
    BY DEF GatewayInv, Registry, clientVars
  <1>6. QED
    BY <1>4, <1>5 DEF GatewayInv

-----------------------------------------------------------------------------
(***************************************************************************)
(* Counting reports                                                        *)
(***************************************************************************)

Names(t, k, b) ==
    t.symbol # NoSymbol /\ Key(t.payload.signal) = k /\ b \in t.payload.consensus

Holds(S, k, b) == \E p \in S : Key(p.signal) = k /\ b \in p.brokers

Spots(s, k, b) == {i \in DOMAIN s : Key(s[i].signal) = k /\ b \in s[i].brokers}

\* The buffer holds a broker's report of a setup once or not at all.
LEMMA SpotsCount ==
    ASSUME NEW s \in Seq(Entry), Distinct(s), NEW k, NEW b
    PROVE  Cardinality(Spots(s, k, b)) = IF Holds(ToSet(s), k, b) THEN 1 ELSE 0
  <1>1. CASE Holds(ToSet(s), k, b)
    <2>1. PICK i \in DOMAIN s : Key(s[i].signal) = k /\ b \in s[i].brokers
      BY <1>1 DEF Holds, ToSet
    <2>2. Spots(s, k, b) = {i}
      BY <2>1 DEF Spots, Distinct
    <2>3. QED
      BY <1>1, <2>2, FS_Singleton
  <1>2. CASE ~Holds(ToSet(s), k, b)
    <2>1. Spots(s, k, b) = {}
      BY <1>2 DEF Holds, ToSet, Spots
    <2>2. QED
      BY <1>2, <2>1, FS_EmptySet
  <1>3. QED
    BY <1>1, <1>2

LEMMA NamedFinite ==
    ASSUME tasks \in Seq(Task), NEW k, NEW b
    PROVE  IsFiniteSet(Named(k, b)) /\ Cardinality(Named(k, b)) \in Nat
  <1>1. DOMAIN tasks = 1..Len(tasks) /\ Len(tasks) \in Nat
    BY LenProperties
  <1>2. IsFiniteSet(1..Len(tasks))
    BY <1>1, FS_Interval
  <1>3. Named(k, b) \in SUBSET (1..Len(tasks))
    BY <1>1 DEF Named
  <1>4. QED
    BY <1>2, <1>3, FS_Subset, FS_CardinalityType

\* Of new broadcasts at most one that names the broker counts one.
LEMMA NamedCount ==
    ASSUME tasks \in Seq(Task), NEW new, Grown(new), NEW k, NEW b,
           \A i, j \in 1..Len(new) : Names(new[i], k, b) /\ Names(new[j], k, b) => i = j
    PROVE  Cardinality(Named(k, b)') =
             Cardinality(Named(k, b)) + IF \E i \in 1..Len(new) : Names(new[i], k, b) THEN 1 ELSE 0
  <1> DEFINE n == Len(tasks)
  <1>1. /\ n \in Nat /\ Len(new) \in Nat
        /\ DOMAIN tasks' = 1..(n + Len(new)) /\ DOMAIN tasks = 1..n
    BY LenProperties DEF Grown
  <1>2. \A i \in DOMAIN tasks : Names(tasks'[i], k, b) <=> Names(tasks[i], k, b)
    BY <1>1 DEF Grown
  <1>3. \A i \in 1..Len(new) : Names(tasks'[n + i], k, b) <=> Names(new[i], k, b)
    BY <1>1 DEF Grown
  <1>4. /\ Named(k, b) = {i \in DOMAIN tasks : Names(tasks[i], k, b)}
        /\ Named(k, b)' = {i \in DOMAIN tasks' : Names(tasks'[i], k, b)}
    BY DEF Named, Names
  <1>5. \A i \in DOMAIN tasks' : i \in 1..n \/ (i - n \in 1..Len(new) /\ i = n + (i - n))
    BY <1>1
  <1>6. IsFiniteSet(Named(k, b)) /\ Cardinality(Named(k, b)) \in Nat
    BY NamedFinite
  <1>7. CASE \E i \in 1..Len(new) : Names(new[i], k, b)
    <2>1. PICK i \in 1..Len(new) : Names(new[i], k, b)
      BY <1>7
    <2>2. n + i \in DOMAIN tasks' /\ n + i \notin DOMAIN tasks /\ 1..n \subseteq DOMAIN tasks'
      BY <1>1
    <2> HIDE DEF n
    <2>3. \A j \in DOMAIN tasks' : Names(tasks'[j], k, b) =>
             j = n + i \/ (j \in 1..n /\ Names(tasks[j], k, b))
      BY <1>1, <1>2, <1>3, <1>5, <2>1
    <2>4. Named(k, b)' = Named(k, b) \cup {n + i}
      BY <1>1, <1>2, <1>3, <1>4, <2>1, <2>2, <2>3
    <2>5. n + i \notin Named(k, b)
      BY <1>4, <2>2
    <2>6. QED
      BY <1>6, <1>7, <2>4, <2>5, FS_AddElement
  <1>8. CASE ~\E i \in 1..Len(new) : Names(new[i], k, b)
    <2>1. 1..n \subseteq DOMAIN tasks'
      BY <1>1
    <2> HIDE DEF n
    <2>2. Named(k, b)' = Named(k, b)
      BY <1>1, <1>2, <1>3, <1>4, <1>5, <1>8, <2>1
    <2>3. QED
      BY <1>6, <1>8, <2>2
  <1>9. QED
    BY <1>7, <1>8

\* The counts of ReportsCountOnce in terms of the entries.
LEMMA CountsByEntries ==
    ASSUME Buffer
    PROVE  ReportsCountOnce <=>
             \A k \in Keys, b \in Brokers :
                Cardinality(Named(k, b)) + (IF Holds(ToSet(pending), k, b) THEN 1 ELSE 0)
                   <= reports[<<k, b>>]
  <1>1. \A k \in Keys, b \in Brokers :
           Cardinality(Buffered(k, b)) = IF Holds(ToSet(pending), k, b) THEN 1 ELSE 0
    <2> TAKE k \in Keys, b \in Brokers
    <2>1. Buffered(k, b) = Spots(pending, k, b)
      BY DEF Buffered, Spots
    <2>2. QED
      BY <2>1, SpotsCount DEF Buffer
  <1>2. QED
    BY <1>1 DEF ReportsCountOnce
LEMMA CountsNext ==
    ASSUME Buffer',
           \A k \in Keys, b \in Brokers :
              Cardinality(Named(k, b)') + (IF Holds(ToSet(pending'), k, b) THEN 1 ELSE 0)
                 <= reports'[<<k, b>>]
    PROVE  ReportsCountOnce'
  <1>1. \A k \in Keys, b \in Brokers :
           Cardinality(Buffered(k, b)') = IF Holds(ToSet(pending'), k, b) THEN 1 ELSE 0
    <2> TAKE k \in Keys, b \in Brokers
    <2>1. Buffered(k, b)' = Spots(pending', k, b)
      BY DEF Buffered, Spots
    <2>2. QED
      BY <2>1, SpotsCount DEF Buffer
  <1>2. QED
    BY <1>1 DEF ReportsCountOnce

\* What is sent unchanged counts the same.
LEMMA NamedSame ==
    ASSUME SameCargo, NEW k, NEW b
    PROVE  Named(k, b)' = Named(k, b)
  BY DEF SameCargo, Named

-----------------------------------------------------------------------------
(***************************************************************************)
(* The consensus engine's steps                                            *)
(***************************************************************************)

\* A report adds one to its own count.
LEMMA TriggerCounts ==
    ASSUME Buffer, NEW signal \in Signals, NEW b \in Brokers, Trigger(signal, b)
    PROVE  /\ reports' \in [Keys \X Brokers -> Nat]
           /\ \A k \in Keys, c \in Brokers :
                 reports'[<<k, c>>] = IF k = Key(signal) /\ c = b THEN reports[<<k, c>>] + 1
                                      ELSE reports[<<k, c>>]
  <1>1. reports \in [Keys \X Brokers -> Nat] /\ Key(signal) \in Keys
    BY DEF Buffer, Keys
  <1>2. reports' = [reports EXCEPT ![<<Key(signal), b>>] = @ + 1]
    BY DEF Trigger
  <1> DEFINE kb == <<Key(signal), b>>
  <1>3. kb \in Keys \X Brokers /\ \A k, c : <<k, c>> = kb <=> k = Key(signal) /\ c = b
    BY <1>1
  <1>4. reports[kb] + 1 \in Nat
    BY <1>1, <1>3
  <1>5. \A x \in Keys \X Brokers : reports'[x] = IF x = kb THEN reports[x] + 1 ELSE reports[x]
    BY <1>1, <1>2
  <1>6. reports' \in [Keys \X Brokers -> Nat]
    <2> HIDE DEF kb
    <2>1. reports' = [reports EXCEPT ![kb] = reports[kb] + 1]
      BY <1>2 DEF kb
    <2>2. QED
      BY <1>1, <1>4, <2>1
  <1>7. QED
    <2> HIDE DEF kb
    <2>1. \A k \in Keys, c \in Brokers : <<k, c>> \in Keys \X Brokers
      OBVIOUS
    <2>2. QED
      BY <1>3, <1>5, <1>6, <2>1

\* The first report of a setup comes to the end of the buffer.
LEMMA PushFirstBuffers ==
    ASSUME Buffer, NEW signal \in Signals, NEW b \in Brokers, PushFirst(signal, b)
    PROVE  /\ Buffer'
           /\ ToSet(pending') = ToSet(pending) \cup {[signal |-> signal, brokers |-> {b}, left |-> Window]}
  <1> DEFINE e == [signal |-> signal, brokers |-> {b}, left |-> Window]
             n == Len(pending)
  <1>1. pending' = Append(pending, e) /\ \A i \in DOMAIN pending : Key(pending[i].signal) # Key(signal)
    BY DEF PushFirst, Waiting, ToSet
  <1>2. e \in Entry /\ e.signal = signal /\ e.brokers # {}
    BY DeliveryAssumption DEF Entry
  <1>3. pending \in Seq(Entry)
    BY DEF Buffer
  <1> HIDE DEF e
  <1>4. /\ pending' \in Seq(Entry) /\ Len(pending') = n + 1 /\ pending'[n + 1] = e
        /\ \A i \in 1..n : pending'[i] = pending[i]
    BY <1>1, <1>2, <1>3, AppendProperties
  <1>5. n \in Nat /\ DOMAIN pending = 1..n /\ DOMAIN pending' = 1..(n + 1)
    BY <1>3, <1>4, LenProperties
  <1>6. \A i \in DOMAIN pending' : i = n + 1 \/ i \in DOMAIN pending
    BY <1>5
  <1>7. n + 1 \in DOMAIN pending' /\ DOMAIN pending \subseteq DOMAIN pending' /\ n + 1 \notin DOMAIN pending
    BY <1>5
  <1> HIDE DEF n
  <1>8. ToSet(pending') = ToSet(pending) \cup {e}
    BY <1>4, <1>5, <1>6, <1>7 DEF ToSet
  <1>9. Distinct(pending')
    <2>1. \A i \in DOMAIN pending : pending'[i] = pending[i] /\ Key(pending'[i].signal) # Key(signal)
      BY <1>1, <1>4, <1>5
    <2>2. QED
      BY <1>2, <1>4, <1>6, <2>1 DEF Distinct, Buffer
  <1>10. reports' \in [Keys \X Brokers -> Nat]
    BY TriggerCounts DEF PushFirst
  <1>11. \A p \in ToSet(pending') : p.brokers # {}
    BY <1>2, <1>8 DEF Buffer
  <1>12. QED
    BY <1>4, <1>8, <1>9, <1>10, <1>11 DEF Buffer, e

LEMMA PushFirstInv ==
    ASSUME DeliveryInv, NEW signal \in Signals, NEW b \in Brokers, PushFirst(signal, b)
    PROVE  DeliveryInv'
  <1> DEFINE e == [signal |-> signal, brokers |-> {b}, left |-> Window]
  <1>1. Buffer' /\ ToSet(pending') = ToSet(pending) \cup {e}
    BY PushFirstBuffers DEF DeliveryInv
  <1>2. UNCHANGED gatewayVars /\ Waiting(Key(signal)) = {}
    BY DEF PushFirst
  <1>3. GatewayInv' /\ \A k, c : Named(k, c)' = Named(k, c)
    BY <1>2 DEF gatewayVars, DeliveryInv, GatewayInv, Registry, TasksSound, Named
  <1>4. ASSUME NEW k \in Keys, NEW c \in Brokers
        PROVE  Cardinality(Named(k, c)') + (IF Holds(ToSet(pending'), k, c) THEN 1 ELSE 0)
                  <= reports'[<<k, c>>]
    <2>1. /\ Cardinality(Named(k, c)) \in Nat /\ reports[<<k, c>>] \in Nat
          /\ Cardinality(Named(k, c)) + (IF Holds(ToSet(pending), k, c) THEN 1 ELSE 0) <= reports[<<k, c>>]
      BY NamedFinite, CountsByEntries DEF DeliveryInv, GatewayInv, TasksSound, Buffer
    <2>2. reports'[<<k, c>>] = IF k = Key(signal) /\ c = b THEN reports[<<k, c>>] + 1 ELSE reports[<<k, c>>]
      BY TriggerCounts DEF PushFirst, DeliveryInv
    <2>3. CASE k = Key(signal) /\ c = b
      <3>1. ~Holds(ToSet(pending), k, c)
        BY <1>2, <2>3 DEF Holds, Waiting
      <3>2. QED
        BY <1>3, <2>1, <2>2, <2>3, <3>1
    <2>4. CASE ~(k = Key(signal) /\ c = b)
      <3>1. Holds(ToSet(pending'), k, c) => Holds(ToSet(pending), k, c)
        BY <1>1, <2>4 DEF Holds
      <3>2. QED
        BY <1>3, <2>1, <2>2, <2>4, <3>1
    <2>5. QED
      BY <2>3, <2>4
  <1>5. QED
    BY <1>1, <1>3, <1>4, CountsNext DEF DeliveryInv

LEMMA PushDuplicateInv ==
    ASSUME DeliveryInv, NEW signal \in Signals, NEW b \in Brokers, PushDuplicate(signal, b)
    PROVE  DeliveryInv'
  <1>1. UNCHANGED <<gatewayVars, pending>> /\ Trigger(signal, b)
    BY DEF PushDuplicate
  <1>2. GatewayInv' /\ \A k, c : Named(k, c)' = Named(k, c)
    BY <1>1 DEF gatewayVars, DeliveryInv, GatewayInv, Registry, TasksSound, Named
  <1>3. Buffer'
    BY <1>1, TriggerCounts DEF DeliveryInv, Buffer
  <1>4. ASSUME NEW k \in Keys, NEW c \in Brokers
        PROVE  Cardinality(Named(k, c)') + (IF Holds(ToSet(pending'), k, c) THEN 1 ELSE 0)
                  <= reports'[<<k, c>>]
    <2>1. /\ Cardinality(Named(k, c)) \in Nat /\ reports[<<k, c>>] \in Nat
          /\ Cardinality(Named(k, c)) + (IF Holds(ToSet(pending), k, c) THEN 1 ELSE 0) <= reports[<<k, c>>]
      BY NamedFinite, CountsByEntries DEF DeliveryInv, GatewayInv, TasksSound, Buffer
    <2>2. reports'[<<k, c>>] = IF k = Key(signal) /\ c = b THEN reports[<<k, c>>] + 1 ELSE reports[<<k, c>>]
      BY <1>1, TriggerCounts DEF DeliveryInv
    <2>3. QED
      BY <1>1, <1>2, <2>1, <2>2
  <1>5. QED
    BY <1>2, <1>3, <1>4, CountsNext DEF DeliveryInv
\* Entries kept from the buffer are a buffer.
LEMMA WithinBuffer ==
    ASSUME Buffer, NEW A \in SUBSET ToSet(pending), pending' = Within(pending, A),
           reports' \in [Keys \X Brokers -> Nat]
    PROVE  Buffer' /\ ToSet(pending') = A
  <1>1. pending' \in Seq(Entry) /\ ToSet(pending') = ToSet(pending) \cap A
    BY WithinKeeps DEF Buffer
  <1>2. Distinct(pending')
    BY WithinDistinct DEF Buffer
  <1>3. QED
    BY <1>1, <1>2 DEF Buffer

\* Two entries of a setup are one.
LEMMA OneEntry ==
    ASSUME Buffer, NEW p \in ToSet(pending), NEW q \in ToSet(pending),
           Key(p.signal) = Key(q.signal)
    PROVE  p = q
  BY DEF Buffer, Distinct, ToSet

\* What goes out for an entry is fresh and names its setup and the brokers.
LEMMA EmissionFacts ==
    ASSUME NEW p \in Entry, NEW brokers \in SUBSET Brokers
    PROVE  /\ Emission(p, brokers) \in Task /\ Fresh(Emission(p, brokers))
           /\ \A k, c : Names(Emission(p, brokers), k, c) <=> Key(p.signal) = k /\ c \in brokers
           /\ Shown(Emission(p, brokers)) = [key |-> Key(p.signal), consensus |-> brokers]
  <1> DEFINE load == [signal |-> p.signal, consensus |-> brokers]
  <1>1. p.signal \in Signals /\ p.signal.symbol \in Symbols /\ p.signal.symbol # NoSymbol
    BY DeliveryAssumption, GatewayAssumption DEF Entry
  <1>2. load \in Payload /\ load.signal = p.signal /\ load.consensus = brokers
    BY <1>1 DEF Payload
  <1>3. Emission(p, brokers) = Broadcast(load, p.signal.symbol)
    BY DEF Emission
  <1> HIDE DEF load
  <1>4. Fresh(Emission(p, brokers))
    BY <1>1, <1>2, <1>3 DEF Fresh
  <1>5. Emission(p, brokers) \in Task
    <2>1. Sound(Emission(p, brokers), 0, {})
      BY <1>4, FreshSound
    <2>2. QED
      BY <2>1 DEF Sound
  <1>6. Emission(p, brokers).symbol # NoSymbol /\ Emission(p, brokers).payload = load
    BY <1>1, <1>3 DEF Broadcast
  <1>7. QED
    BY <1>2, <1>4, <1>5, <1>6 DEF Names, Shown

LEMMA PushSecondInv ==
    ASSUME DeliveryInv, NEW signal \in Signals, NEW b \in Brokers, PushSecond(signal, b)
    PROVE  DeliveryInv'
  <1> DEFINE K == Key(signal)
  <1>1. PICK p \in Waiting(K) :
           /\ b \notin p.brokers
           /\ Trigger(signal, b)
           /\ pending' = Within(pending, ToSet(pending) \ Waiting(K))
           /\ tasks' = Append(tasks, Emission(p, p.brokers \cup {b}))
           /\ UNCHANGED clientVars
    BY DEF PushSecond
  <1>2. Buffer /\ GatewayInv /\ tasks \in Seq(Task)
    BY DEF DeliveryInv, GatewayInv, TasksSound
  <1>3. p \in ToSet(pending) /\ Key(p.signal) = K /\ p \in Entry
    BY <1>1, <1>2 DEF Waiting, Buffer, ToSet
  <1> DEFINE t == Emission(p, p.brokers \cup {b})
  <1>4. /\ t \in Task /\ Fresh(t)
        /\ \A k, c : Names(t, k, c) <=> K = k /\ c \in p.brokers \cup {b}
    <2>1. p.brokers \cup {b} \in SUBSET Brokers
      BY <1>3 DEF Entry
    <2>2. QED
      BY <1>3, <2>1, EmissionFacts
  <1>5. tasks' = Append(tasks, t)
    BY <1>1
  <1> HIDE DEF t, K
  <1>6. Grown(<<t>>)
    BY <1>2, <1>4, <1>5, AppendGrown
  <1>7. Len(<<t>>) = 1 /\ \A i \in 1..Len(<<t>>) : i = 1 /\ <<t>>[i] = t
    OBVIOUS
  <1>8. GatewayInv'
    <2>1. \A i \in 1..Len(<<t>>) : Fresh(<<t>>[i])
      BY <1>4, <1>7
    <2>2. QED
      BY <1>1, <1>2, <1>6, <2>1, BroadcastsSound
  <1>9. /\ reports' \in [Keys \X Brokers -> Nat]
        /\ \A k \in Keys, c \in Brokers :
              reports'[<<k, c>>] = IF k = K /\ c = b THEN reports[<<k, c>>] + 1
                                   ELSE reports[<<k, c>>]
    BY <1>1, <1>2, TriggerCounts DEF K
  <1>10. Buffer' /\ ToSet(pending') = ToSet(pending) \ Waiting(K)
    BY <1>1, <1>2, <1>9, WithinBuffer
  <1>11. ASSUME NEW k \in Keys, NEW c \in Brokers
         PROVE  Cardinality(Named(k, c)') + (IF Holds(ToSet(pending'), k, c) THEN 1 ELSE 0)
                   <= reports'[<<k, c>>]
    <2>1. /\ Cardinality(Named(k, c)) \in Nat /\ reports[<<k, c>>] \in Nat
          /\ Cardinality(Named(k, c)) + (IF Holds(ToSet(pending), k, c) THEN 1 ELSE 0) <= reports[<<k, c>>]
      BY NamedFinite, CountsByEntries DEF DeliveryInv, GatewayInv, TasksSound, Buffer
    <2>2. Cardinality(Named(k, c)') =
             Cardinality(Named(k, c)) + IF Names(t, k, c) THEN 1 ELSE 0
      <3>1. \A i, j \in 1..Len(<<t>>) : Names(<<t>>[i], k, c) /\ Names(<<t>>[j], k, c) => i = j
        BY <1>7
      <3>2. Cardinality(Named(k, c)') = Cardinality(Named(k, c)) +
               IF \E i \in 1..Len(<<t>>) : Names(<<t>>[i], k, c) THEN 1 ELSE 0
        BY <1>2, <1>6, <3>1, NamedCount
      <3>3. (\E i \in 1..Len(<<t>>) : Names(<<t>>[i], k, c)) <=> Names(t, k, c)
        BY <1>7
      <3>4. QED
        BY <3>2, <3>3
    <2>3. CASE k = K
      <3>1. ~Holds(ToSet(pending'), k, c)
        BY <1>10, <2>3 DEF Holds, Waiting
      <3>2. Holds(ToSet(pending), k, c) <=> c \in p.brokers
        BY <1>2, <1>3, <2>3, OneEntry DEF Holds
      <3>3. QED
        BY <1>1, <1>4, <1>9, <2>1, <2>2, <2>3, <3>1, <3>2
    <2>4. CASE k # K
      <3>1. Holds(ToSet(pending'), k, c) <=> Holds(ToSet(pending), k, c)
        BY <1>10, <2>4 DEF Holds, Waiting
      <3>2. QED
        BY <1>4, <1>9, <2>1, <2>2, <2>4, <3>1
    <2>5. QED
      BY <2>3, <2>4
  <1>12. QED
    BY <1>8, <1>10, <1>11, CountsNext DEF DeliveryInv

\* The broadcasts of a round of the drain loop.
DueTasks(due) == [i \in 1..Len(due) |-> Emission(due[i], due[i].brokers)]

LEMMA DrainEffect ==
    ASSUME DeliveryInv, Drain
    PROVE  \E due \in Seq(Entry) :
              /\ ToSet(due) = Expired /\ Distinct(due)
              /\ Grown(DueTasks(due)) /\ Len(DueTasks(due)) = Len(due)
              /\ Buffer' /\ ToSet(pending') = ToSet(pending) \ Expired
              /\ UNCHANGED <<clientVars, reports, phase>>
  <1> DEFINE due == Within(pending, Expired)
  <1>1. /\ pending' = Within(pending, ToSet(pending) \ Expired)
        /\ tasks' = tasks \o DueTasks(due)
        /\ UNCHANGED <<clientVars, reports, phase>>
    BY DEF Drain, DueTasks
  <1>2. Buffer /\ tasks \in Seq(Task) /\ pending \in Seq(Entry)
    BY DEF DeliveryInv, GatewayInv, TasksSound, Buffer
  <1>3. due \in Seq(Entry) /\ ToSet(due) = Expired /\ Distinct(due)
    BY <1>2, WithinKeeps, WithinDistinct DEF Buffer, Expired
  <1>4. Buffer' /\ ToSet(pending') = ToSet(pending) \ Expired
    BY <1>1, <1>2, WithinBuffer DEF Buffer
  <1> HIDE DEF due
  <1>5. DueTasks(due) \in Seq(Task) /\ Len(DueTasks(due)) = Len(due)
    <2>1. Len(due) \in Nat
      BY <1>3, LenProperties
    <2>2. \A i \in 1..Len(due) : Emission(due[i], due[i].brokers) \in Task
      <3> TAKE i \in 1..Len(due)
      <3>1. due[i] \in Entry
        BY <1>3, ElementOfSeq
      <3>2. due[i].brokers \in SUBSET Brokers
        BY <3>1 DEF Entry
      <3>3. QED
        BY <3>1, <3>2, EmissionFacts
    <2>3. DueTasks(due) \in [1..Len(due) -> Task]
      BY <2>2 DEF DueTasks
    <2>4. QED
      BY <2>1, <2>3, SeqDef, LenProperties
  <1>6. Grown(DueTasks(due))
    BY <1>1, <1>2, <1>5, ConcatGrown
  <1>7. QED
    BY <1>1, <1>3, <1>4, <1>5, <1>6

LEMMA DrainInv ==
    ASSUME DeliveryInv, Drain
    PROVE  DeliveryInv'
  <1>1. PICK due \in Seq(Entry) :
              /\ ToSet(due) = Expired /\ Distinct(due)
              /\ Grown(DueTasks(due)) /\ Len(DueTasks(due)) = Len(due)
              /\ Buffer' /\ ToSet(pending') = ToSet(pending) \ Expired
              /\ UNCHANGED <<clientVars, reports, phase>>
    BY DrainEffect
  <1> DEFINE new == DueTasks(due)
  <1>2. Buffer /\ GatewayInv /\ tasks \in Seq(Task) /\ Len(due) \in Nat /\ DOMAIN due = 1..Len(due)
    BY LenProperties DEF DeliveryInv, GatewayInv, TasksSound
  <1>3. \A i \in 1..Len(new) :
           /\ Fresh(new[i])
           /\ \A k, c : Names(new[i], k, c) <=> Key(due[i].signal) = k /\ c \in due[i].brokers
    <2> TAKE i \in 1..Len(new)
    <2>1. due[i] \in Entry
      BY <1>1, ElementOfSeq
    <2>2. due[i].brokers \in SUBSET Brokers
      BY <2>1 DEF Entry
    <2>3. new[i] = Emission(due[i], due[i].brokers)
      BY <1>1 DEF DueTasks
    <2>4. QED
      BY <2>1, <2>2, <2>3, EmissionFacts
  <1> HIDE DEF new
  <1>4. Grown(new) /\ Len(new) = Len(due)
    BY <1>1 DEF new
  <1>5. GatewayInv'
    BY <1>1, <1>2, <1>3, <1>4, BroadcastsSound
  <1>6. ASSUME NEW k \in Keys, NEW c \in Brokers
        PROVE  Cardinality(Named(k, c)') + (IF Holds(ToSet(pending'), k, c) THEN 1 ELSE 0)
                  <= reports'[<<k, c>>]
    <2>1. /\ Cardinality(Named(k, c)) \in Nat /\ reports[<<k, c>>] \in Nat
          /\ Cardinality(Named(k, c)) + (IF Holds(ToSet(pending), k, c) THEN 1 ELSE 0) <= reports[<<k, c>>]
      BY NamedFinite, CountsByEntries DEF DeliveryInv, GatewayInv, TasksSound, Buffer
    <2>2. Cardinality(Named(k, c)') =
             Cardinality(Named(k, c)) + IF \E i \in 1..Len(new) : Names(new[i], k, c) THEN 1 ELSE 0
      <3>1. \A i, j \in 1..Len(new) : Names(new[i], k, c) /\ Names(new[j], k, c) => i = j
        BY <1>1, <1>2, <1>3, <1>4 DEF Distinct
      <3>2. QED
        BY <1>2, <1>4, <3>1, NamedCount
    <2>3. (\E i \in 1..Len(new) : Names(new[i], k, c)) <=> Holds(Expired, k, c)
      <3>1. Expired = {due[i] : i \in 1..Len(new)}
        BY <1>1, <1>2, <1>4 DEF ToSet
      <3>2. QED
        BY <1>3, <3>1 DEF Holds
    <2>4. ~(Holds(Expired, k, c) /\ Holds(ToSet(pending'), k, c))
      BY <1>1, <1>2, OneEntry DEF Holds, Expired
    <2>5. Holds(Expired, k, c) \/ Holds(ToSet(pending'), k, c) => Holds(ToSet(pending), k, c)
      BY <1>1 DEF Holds, Expired
    <2>6. reports' = reports
      BY <1>1
    <2>7. QED
      BY <2>1, <2>2, <2>3, <2>4, <2>5, <2>6
  <1>7. QED
    BY <1>1, <1>5, <1>6, CountsNext DEF DeliveryInv
LEMMA EngineEventEffect ==
    ASSUME DeliveryInv, EngineEvent
    PROVE  \E t : /\ Grown(<<t>>) /\ Fresh(t) /\ t.symbol = NoSymbol
                  /\ UNCHANGED <<clientVars, pending, reports, phase>>
  <1> DEFINE t == Broadcast(Event, NoSymbol)
  <1>1. Fresh(t) /\ t.symbol = NoSymbol
    BY DEF Fresh, Payload, Broadcast
  <1>2. tasks' = Append(tasks, t) /\ UNCHANGED <<clientVars, pending, reports, phase>>
    BY DEF EngineEvent
  <1> HIDE DEF t
  <1>3. t \in Task
    <2>1. Sound(t, 0, {})
      BY <1>1, FreshSound
    <2>2. QED
      BY <2>1 DEF Sound
  <1>4. Grown(<<t>>)
    BY <1>2, <1>3, AppendGrown DEF DeliveryInv, GatewayInv, TasksSound
  <1>5. QED
    BY <1>1, <1>2, <1>4

LEMMA EngineEventInv ==
    ASSUME DeliveryInv, EngineEvent
    PROVE  DeliveryInv'
  <1>1. PICK t : /\ Grown(<<t>>) /\ Fresh(t) /\ t.symbol = NoSymbol
                 /\ UNCHANGED <<clientVars, pending, reports, phase>>
    BY EngineEventEffect
  <1>2. Len(<<t>>) = 1 /\ \A i \in 1..Len(<<t>>) : <<t>>[i] = t
    OBVIOUS
  <1>3. Buffer /\ GatewayInv /\ tasks \in Seq(Task) /\ Buffer'
    BY <1>1 DEF DeliveryInv, GatewayInv, TasksSound, Buffer
  <1>4. GatewayInv'
    BY <1>1, <1>2, <1>3, BroadcastsSound
  <1>5. ASSUME NEW k \in Keys, NEW c \in Brokers
        PROVE  Cardinality(Named(k, c)') + (IF Holds(ToSet(pending'), k, c) THEN 1 ELSE 0)
                  <= reports'[<<k, c>>]
    <2>1. Cardinality(Named(k, c)) + (IF Holds(ToSet(pending), k, c) THEN 1 ELSE 0) <= reports[<<k, c>>]
      BY CountsByEntries DEF DeliveryInv
    <2>2. \A i \in 1..Len(<<t>>) : ~Names(<<t>>[i], k, c)
      BY <1>1, <1>2 DEF Names
    <2>3. Cardinality(Named(k, c)') = Cardinality(Named(k, c)) + 0
      BY <1>1, <1>3, <2>2, NamedCount
    <2>4. Cardinality(Named(k, c)) \in Nat
      BY <1>3, NamedFinite
    <2>5. QED
      BY <1>1, <2>1, <2>3, <2>4
  <1>6. QED
    BY <1>3, <1>4, <1>5, CountsNext DEF DeliveryInv

\* Time changes no signal and no broker of an entry.
LEMMA AdvanceEffect ==
    ASSUME DeliveryInv, Advance
    PROVE  /\ Buffer' /\ DOMAIN pending' = DOMAIN pending
           /\ \A i \in DOMAIN pending : /\ pending'[i].signal = pending[i].signal
                                        /\ pending'[i].brokers = pending[i].brokers
           /\ UNCHANGED <<gatewayVars, reports>>
  <1> DEFINE aged(p) == [p EXCEPT !.left = Less(@)]
  <1>1. pending' = [i \in DOMAIN pending |-> aged(pending[i])] /\ UNCHANGED <<gatewayVars, reports>>
    BY DEF Advance
  <1>2. pending \in Seq(Entry) /\ DOMAIN pending = 1..Len(pending) /\ Len(pending) \in Nat
    BY LenProperties DEF DeliveryInv, Buffer
  <1>3. ASSUME NEW p \in Entry
        PROVE  aged(p) \in Entry /\ aged(p).signal = p.signal /\ aged(p).brokers = p.brokers
    <2>1. Less(p.left) \in Nat
      BY DEF Less, Entry
    <2>2. QED
      BY <2>1 DEF Entry
  <1> HIDE DEF aged
  <1>4. \A i \in DOMAIN pending : pending[i] \in Entry /\ pending'[i] = aged(pending[i])
    BY <1>1, <1>2, ElementOfSeq
  <1>5. pending' \in Seq(Entry) /\ DOMAIN pending' = DOMAIN pending
    BY <1>1, <1>2, <1>3, <1>4, SeqDef, LenProperties
  <1>6. \A i \in DOMAIN pending : /\ pending'[i].signal = pending[i].signal
                                 /\ pending'[i].brokers = pending[i].brokers
    BY <1>3, <1>4
  <1>7. Distinct(pending')
    BY <1>5, <1>6 DEF Distinct, DeliveryInv, Buffer
  <1>8. \A p \in ToSet(pending') : p.brokers # {}
    BY <1>5, <1>6 DEF ToSet, DeliveryInv, Buffer
  <1>9. QED
    BY <1>1, <1>5, <1>6, <1>7, <1>8 DEF DeliveryInv, Buffer

\* A step that leaves what is sent, the entries and the reports alone.
LEMMA QuietInv ==
    ASSUME DeliveryInv, GatewayInv', Buffer', SameCargo, reports' = reports,
           DOMAIN pending' = DOMAIN pending,
           \A i \in DOMAIN pending : /\ pending'[i].signal = pending[i].signal
                                    /\ pending'[i].brokers = pending[i].brokers
    PROVE  DeliveryInv'
  <1>1. \A k, b : Buffered(k, b)' = Buffered(k, b) /\ Named(k, b)' = Named(k, b)
    BY NamedSame DEF Buffered
  <1>2. ReportsCountOnce'
    BY <1>1 DEF ReportsCountOnce, DeliveryInv
  <1>3. QED
    BY <1>2 DEF DeliveryInv

LEMMA SameTasks ==
    ASSUME GatewayInv, UNCHANGED gatewayVars
    PROVE  GatewayInv' /\ SameCargo
  BY DEF gatewayVars, GatewayInv, Registry, TasksSound, SameCargo

-----------------------------------------------------------------------------
(***************************************************************************)
(* The invariant                                                           *)
(***************************************************************************)

LEMMA InitInv == Init => DeliveryInv
  <1> SUFFICES ASSUME Init PROVE DeliveryInv
    OBVIOUS
  <1>1. /\ counter = 0 /\ registered = {} /\ open = {} /\ tasks = <<>> /\ limit \in Limits
        /\ pending = <<>> /\ reports = [kb \in Keys \X Brokers |-> 0]
    BY DEF Init, GatewayInit
  <1>2. DOMAIN <<>> = {} /\ <<>> \in Seq(Task) /\ <<>> \in Seq(Entry)
    OBVIOUS
  <1>3. GatewayInv
    BY <1>1, <1>2, GatewayAssumption DEF GatewayInv, Registry, TasksSound
  <1>4. Buffer
    BY <1>1, <1>2 DEF Buffer, Distinct, ToSet
  <1>5. \A k \in Keys, b \in Brokers : Named(k, b) = {} /\ Buffered(k, b) = {} /\ reports[<<k, b>>] = 0
    BY <1>1, <1>2 DEF Named, Buffered
  <1>6. ReportsCountOnce
    <2>1. Cardinality({}) = 0 /\ 0 + 0 <= 0
      BY FS_EmptySet
    <2>2. QED
      BY <1>5, <2>1 DEF ReportsCountOnce
  <1>7. QED
    BY <1>3, <1>4, <1>6 DEF DeliveryInv

LEMMA NextInv == DeliveryInv /\ [Next]_vars => DeliveryInv'
  <1> SUFFICES ASSUME DeliveryInv, [Next]_vars PROVE DeliveryInv'
    OBVIOUS
  <1>0. GatewayInv /\ Buffer
    BY DEF DeliveryInv
  <1>1. ASSUME NEW signal \in Signals, NEW b \in Brokers,
               PushFirst(signal, b) \/ PushDuplicate(signal, b) \/ PushSecond(signal, b)
        PROVE  DeliveryInv'
    BY <1>1, PushFirstInv, PushDuplicateInv, PushSecondInv
  <1>2. CASE Drain
    BY <1>2, DrainInv
  <1>3. CASE EngineEvent
    BY <1>3, EngineEventInv
  <1>4. CASE Advance
    <2>1. GatewayInv' /\ SameCargo
      BY <1>0, <1>4, AdvanceEffect, SameTasks
    <2>2. QED
      BY <1>4, <2>1, AdvanceEffect, QuietInv
  <1>5. CASE Stop
    <2>1. UNCHANGED <<clientVars, tasks, consensusVars>>
      BY <1>5 DEF Stop
    <2>2. GatewayInv' /\ SameCargo /\ Buffer'
      BY <1>0, <2>1 DEF clientVars, consensusVars, GatewayInv, Registry, TasksSound, SameCargo, Buffer
    <2>3. QED
      BY <2>1, <2>2, QuietInv DEF consensusVars
  <1>6. CASE /\ \/ Connect
                \/ \E c \in Clients : Connection(c)
                \/ \E i \in DOMAIN tasks : Run(i)
                \/ ServerClosed
             /\ UNCHANGED consensusVars
    <2>1. GatewayInv' /\ SameCargo
      BY <1>0, <1>6, GatewayStepSound
    <2>2. Buffer'
      BY <1>0, <1>6 DEF consensusVars, Buffer
    <2>3. QED
      BY <1>6, <2>1, <2>2, QuietInv DEF consensusVars
  <1>7. CASE UNCHANGED vars
    <2>1. GatewayInv' /\ SameCargo
      BY <1>0, <1>7, SameTasks DEF vars
    <2>2. Buffer'
      BY <1>0, <1>7 DEF vars, consensusVars, Buffer
    <2>3. QED
      BY <1>7, <2>1, <2>2, QuietInv DEF vars, consensusVars
  <1>8. QED
    BY <1>1, <1>2, <1>3, <1>4, <1>5, <1>6, <1>7 DEF Next

\* Every reachable state of the consensus engine and the gateway satisfies the
\* inductive invariant.
THEOREM Invariance == Spec => []DeliveryInv
  BY InitInv, NextInv, PTL DEF Spec

(***************************************************************************)
(* For any signals, brokers, clients and times, however reports, drains    *)
(* and shutdown interleave: a broker's report of a setup is in one signal  *)
(* that went out or in the buffer, never in two.                           *)
(***************************************************************************)
THEOREM NoReportCountsTwice == Spec => []ReportsCountOnce
  <1>1. DeliveryInv => ReportsCountOnce
    BY DEF DeliveryInv
  <1>2. QED
    BY <1>1, Invariance, PTL

(***************************************************************************)
(* For any number of clients and broadcasts under way, an open connection  *)
(* is registered: no broadcast removes a client it did not find dead, and  *)
(* an id is never given again.                                             *)
(***************************************************************************)
THEOREM OpenClientsAreServed == Spec => []OpenStaysRegistered
  <1>1. DeliveryInv => OpenStaysRegistered
    BY DEF DeliveryInv, GatewayInv, Registry, OpenStaysRegistered
  <1>2. QED
    BY <1>1, Invariance, PTL

-----------------------------------------------------------------------------
(***************************************************************************)
(* The consensus engine implements the agreement                           *)
(***************************************************************************)

\* The mapping: the brokers that wait for a setup, and what has gone out.
waitingBar == [k \in Keys |-> UNION {p.brokers : p \in Waiting(k)}]

outBar == [i \in 1..Len(tasks) |-> Shown(tasks[i])]

\* The one entry of a setup holds the brokers that wait.
LEMMA WaitingOne ==
    ASSUME Buffer, NEW p \in ToSet(pending)
    PROVE  Key(p.signal) \in Keys /\ waitingBar[Key(p.signal)] = p.brokers /\ p.brokers # {}
  <1>1. p \in Entry /\ p.brokers # {}
    BY DEF Buffer, ToSet
  <1>2. Key(p.signal) \in Keys
    BY <1>1 DEF Entry, Keys
  <1>3. Waiting(Key(p.signal)) = {p}
    BY OneEntry DEF Waiting
  <1>4. UNION {q.brokers : q \in {p}} = p.brokers
    OBVIOUS
  <1>5. QED
    BY <1>1, <1>2, <1>3, <1>4 DEF waitingBar

LEMMA WaitingNone ==
    ASSUME NEW k \in Keys, Waiting(k) = {}
    PROVE  waitingBar[k] = {}
  BY DEF waitingBar

\* Broadcasts that keep what they carry look the same.
LEMMA OutSame ==
    ASSUME SameCargo, tasks \in Seq(Task)
    PROVE  outBar' = outBar
  <1>1. Len(tasks') = Len(tasks) /\ \A i \in 1..Len(tasks) : Shown(tasks'[i]) = Shown(tasks[i])
    BY LenProperties DEF SameCargo, Shown
  <1>2. QED
    BY <1>1 DEF outBar

\* New broadcasts come after what has gone out.
LEMMA OutGrown ==
    ASSUME tasks \in Seq(Task), NEW new, Grown(new)
    PROVE  outBar' = outBar \o [i \in 1..Len(new) |-> Shown(new[i])]
  <1> DEFINE n == Len(tasks)
             m == Len(new)
             more == [i \in 1..m |-> Shown(new[i])]
             V == {Shown(tasks[i]) : i \in 1..n} \cup {Shown(new[i]) : i \in 1..m}
  <1>1. n \in Nat /\ m \in Nat /\ Len(tasks') = n + m
    BY LenProperties DEF Grown
  <1>2. outBar \in Seq(V) /\ more \in Seq(V)
    BY <1>1, SeqDef DEF outBar
  <1>3. Len(outBar) = n /\ Len(more) = m
    BY <1>1, <1>2, LenProperties DEF outBar
  <1>4. /\ outBar \o more \in Seq(V) /\ Len(outBar \o more) = n + m
        /\ \A i \in 1..(n + m) : (outBar \o more)[i] = IF i <= n THEN outBar[i] ELSE more[i - n]
    <2> HIDE DEF more, n, m, V
    <2>1. QED
      BY <1>2, <1>3, ConcatProperties
  <1>5. outBar' = [i \in 1..(n + m) |-> Shown(tasks'[i])]
    BY <1>1 DEF outBar
  <1>6. ASSUME NEW i \in 1..(n + m)
        PROVE  (outBar \o more)[i] = Shown(tasks'[i])
    <2>1. CASE i <= n
      <3>1. i \in 1..n /\ tasks'[i] = tasks[i]
        BY <1>1, <2>1 DEF Grown
      <3>2. QED
        BY <1>4, <2>1, <3>1 DEF outBar
    <2>2. CASE ~(i <= n)
      <3>1. i - n \in 1..m /\ n + (i - n) = i
        BY <1>1, <2>2
      <3>2. tasks'[n + (i - n)] = new[i - n]
        BY <3>1 DEF Grown
      <3>3. QED
        BY <1>4, <2>2, <3>1, <3>2
    <2>3. QED
      BY <2>1, <2>2
  <1>7. outBar \o more = [i \in 1..(n + m) |-> (outBar \o more)[i]]
    <2> HIDE DEF more, n, m, V
    <2>1. DOMAIN (outBar \o more) = 1..(n + m) /\ outBar \o more \in [1..(n + m) -> V]
      BY <1>1, <1>4, LenProperties
    <2>2. QED
      BY <2>1
  <1>8. QED
    <2> HIDE DEF more, n, m, V
    <2>1. outBar' = outBar \o more
      BY <1>5, <1>6, <1>7
    <2>2. QED
      BY <2>1 DEF more, m

\* Where the entries keep setup and brokers, the same brokers wait.
LEMMA WaitingSame ==
    ASSUME DOMAIN pending' = DOMAIN pending,
           \A i \in DOMAIN pending : /\ pending'[i].signal = pending[i].signal
                                    /\ pending'[i].brokers = pending[i].brokers
    PROVE  waitingBar' = waitingBar
  <1>1. ASSUME NEW k \in Keys
        PROVE  UNION {p.brokers : p \in Waiting(k)'} = UNION {p.brokers : p \in Waiting(k)}
    <2>1. /\ {p.brokers : p \in Waiting(k)}
               = {pending[i].brokers : i \in {j \in DOMAIN pending : Key(pending[j].signal) = k}}
          /\ {p.brokers : p \in Waiting(k)'}
               = {pending'[i].brokers : i \in {j \in DOMAIN pending' : Key(pending'[j].signal) = k}}
      BY DEF Waiting, ToSet
    <2>2. {j \in DOMAIN pending' : Key(pending'[j].signal) = k}
            = {j \in DOMAIN pending : Key(pending[j].signal) = k}
      OBVIOUS
    <2>3. QED
      BY <2>1, <2>2
  <1>2. QED
    BY <1>1 DEF waitingBar

\* The first report waits.
LEMMA PushFirstReports ==
    ASSUME DeliveryInv, NEW signal \in Signals, NEW b \in Brokers, PushFirst(signal, b)
    PROVE  /\ Key(signal) \in Keys /\ waitingBar[Key(signal)] = {}
           /\ waitingBar' = [waitingBar EXCEPT ![Key(signal)] = {b}]
           /\ outBar' = outBar /\ UNCHANGED phase
  <1> DEFINE e == [signal |-> signal, brokers |-> {b}, left |-> Window]
             K == Key(signal)
  <1>1. ToSet(pending') = ToSet(pending) \cup {e} /\ Buffer'
    BY PushFirstBuffers DEF DeliveryInv
  <1>2. Waiting(K) = {} /\ UNCHANGED <<tasks, phase>>
    BY DEF PushFirst, gatewayVars
  <1>3. e.signal = signal /\ e.brokers = {b} /\ K \in Keys
    BY DEF Keys
  <1> HIDE DEF e
  <1>4. waitingBar[K] = {}
    BY <1>2, <1>3, WaitingNone
  <1>5. \A k : Waiting(k)' = IF k = K THEN {e} ELSE Waiting(k)
    BY <1>1, <1>2, <1>3 DEF Waiting
  <1>6. UNION {p.brokers : p \in {e}} = {b}
    BY <1>3
  <1> HIDE DEF K
  <1>7. \A k \in Keys : waitingBar'[k] = IF k = K THEN {b} ELSE waitingBar[k]
    BY <1>5, <1>6 DEF waitingBar
  <1>8. waitingBar' = [waitingBar EXCEPT ![K] = {b}]
    <2>1. DOMAIN waitingBar = Keys /\ waitingBar' = [k \in Keys |-> waitingBar'[k]]
      BY DEF waitingBar
    <2>2. QED
      BY <1>3, <1>7, <2>1
  <1>9. outBar' = outBar
    BY <1>2 DEF outBar
  <1>10. QED
    BY <1>2, <1>3, <1>4, <1>8, <1>9 DEF K

\* The second report goes out with the first.
LEMMA PushSecondConfirms ==
    ASSUME DeliveryInv, NEW signal \in Signals, NEW b \in Brokers, PushSecond(signal, b)
    PROVE  LET K == Key(signal)
           IN  /\ K \in Keys /\ waitingBar[K] # {} /\ b \notin waitingBar[K]
               /\ waitingBar' = [waitingBar EXCEPT ![K] = {}]
               /\ outBar' = Append(outBar, [key |-> K, consensus |-> waitingBar[K] \cup {b}])
               /\ UNCHANGED phase
  <1> DEFINE K == Key(signal)
  <1>1. PICK p \in Waiting(K) :
           /\ b \notin p.brokers
           /\ Trigger(signal, b)
           /\ pending' = Within(pending, ToSet(pending) \ Waiting(K))
           /\ tasks' = Append(tasks, Emission(p, p.brokers \cup {b}))
           /\ UNCHANGED phase
    BY DEF PushSecond
  <1>2. Buffer /\ tasks \in Seq(Task)
    BY DEF DeliveryInv, GatewayInv, TasksSound
  <1>3. p \in ToSet(pending) /\ Key(p.signal) = K /\ p \in Entry
    BY <1>1, <1>2 DEF Waiting, Buffer, ToSet
  <1>4. K \in Keys /\ waitingBar[K] = p.brokers /\ p.brokers # {}
    BY <1>2, <1>3, WaitingOne
  <1>5. reports' \in [Keys \X Brokers -> Nat]
    BY <1>1, <1>2, TriggerCounts
  <1> DEFINE t == Emission(p, p.brokers \cup {b})
             s == [key |-> K, consensus |-> p.brokers \cup {b}]
  <1>6. t \in Task /\ Shown(t) = s /\ tasks' = Append(tasks, t)
    <2>1. p.brokers \cup {b} \in SUBSET Brokers
      BY <1>3 DEF Entry
    <2>2. QED
      BY <1>1, <1>3, <2>1, EmissionFacts
  <1> HIDE DEF t, s, K
  <1>7. ToSet(pending') = ToSet(pending) \ Waiting(K)
    BY <1>1, <1>2, <1>5, WithinBuffer
  <1>8. \A k : Waiting(k)' = IF k = K THEN {} ELSE Waiting(k)
    BY <1>7 DEF Waiting
  <1>9. waitingBar' = [waitingBar EXCEPT ![K] = {}]
    <2>1. DOMAIN waitingBar = Keys /\ waitingBar' = [k \in Keys |-> waitingBar'[k]]
      BY DEF waitingBar
    <2>2. \A k \in Keys : waitingBar'[k] = IF k = K THEN {} ELSE waitingBar[k]
      BY <1>8 DEF waitingBar
    <2>3. QED
      BY <1>4, <2>1, <2>2
  <1>10. outBar' = Append(outBar, s)
    <2>1. Grown(<<t>>)
      BY <1>2, <1>6, AppendGrown
    <2>2. outBar' = outBar \o [i \in 1..Len(<<t>>) |-> Shown(<<t>>[i])]
      BY <1>2, <2>1, OutGrown
    <2>3. [i \in 1..Len(<<t>>) |-> Shown(<<t>>[i])] = <<s>>
      BY <1>6
    <2>4. outBar \in Seq({Shown(tasks[i]) : i \in 1..Len(tasks)} \cup {s})
      <3>1. Len(tasks) \in Nat
        BY <1>2, LenProperties
      <3>2. QED
        BY <3>1, SeqDef DEF outBar
    <2>5. outBar \o <<s>> = Append(outBar, s)
      BY <2>4, AppendIsConcat
    <2>6. QED
      BY <2>2, <2>3, <2>5
  <1>11. QED
    BY <1>1, <1>4, <1>9, <1>10 DEF K, s

\* What has expired goes out alone, each setup once.
LEMMA DrainReleases ==
    ASSUME DeliveryInv, Drain, Expired # {}
    PROVE  \E ks \in SUBSET Keys :
              /\ ks # {} /\ \A k \in ks : waitingBar[k] # {}
              /\ waitingBar' = [k \in Keys |-> IF k \in ks THEN {} ELSE waitingBar[k]]
              /\ \E order \in [1..Cardinality(ks) -> ks] :
                    /\ {order[i] : i \in DOMAIN order} = ks
                    /\ outBar' = outBar \o [i \in DOMAIN order |->
                                               [key |-> order[i], consensus |-> waitingBar[order[i]]]]
              /\ phase = "up" /\ UNCHANGED phase
  <1>1. PICK due \in Seq(Entry) :
              /\ ToSet(due) = Expired /\ Distinct(due)
              /\ Grown(DueTasks(due)) /\ Len(DueTasks(due)) = Len(due)
              /\ Buffer' /\ ToSet(pending') = ToSet(pending) \ Expired
              /\ UNCHANGED <<clientVars, reports, phase>>
    BY DrainEffect
  <1> DEFINE n == Len(due)
             order == [i \in 1..n |-> Key(due[i].signal)]
             ks == {Key(p.signal) : p \in Expired}
  <1>2. Buffer /\ tasks \in Seq(Task) /\ n \in Nat /\ DOMAIN due = 1..n
    BY LenProperties DEF DeliveryInv, GatewayInv, TasksSound
  <1>3. \A p \in Expired : /\ p \in ToSet(pending) /\ Key(p.signal) \in Keys
                            /\ waitingBar[Key(p.signal)] = p.brokers /\ p.brokers # {}
    BY <1>2, WaitingOne DEF Expired
  <1>4. ks \in SUBSET Keys /\ ks # {} /\ \A k \in ks : waitingBar[k] # {}
    BY <1>3
  <1>5. order \in [1..n -> ks] /\ {order[i] : i \in DOMAIN order} = ks
    BY <1>1, <1>2 DEF ToSet
  <1>6. order \in Surjection(1..n, ks) /\ order \in Injection(1..n, ks)
    BY <1>1, <1>2, <1>5 DEF Surjection, Injection, IsInjective, Distinct
  <1>7. Cardinality(ks) = n
    <2> HIDE DEF order, ks, n
    <2>1. IsFiniteSet(1..n) /\ Cardinality(1..n) = n
      BY <1>2, FS_Interval
    <2>2. QED
      BY <1>6, <2>1, FS_Surjection
  <1>8. \A i \in 1..n : /\ due[i] \in Expired /\ due[i] \in Entry
                        /\ order[i] = Key(due[i].signal) /\ waitingBar[order[i]] = due[i].brokers
    <2> TAKE i \in 1..n
    <2>1. due[i] \in Expired /\ due[i] \in Entry
      BY <1>1, <1>2, ElementOfSeq DEF ToSet
    <2>2. QED
      BY <1>3, <2>1
  <1>9. outBar' = outBar \o [i \in DOMAIN order |->
                               [key |-> order[i], consensus |-> waitingBar[order[i]]]]
    <2>1. outBar' = outBar \o [i \in 1..Len(DueTasks(due)) |-> Shown(DueTasks(due)[i])]
      BY <1>1, <1>2, OutGrown
    <2>2. \A i \in 1..n : Shown(DueTasks(due)[i]) = [key |-> order[i], consensus |-> waitingBar[order[i]]]
      <3> TAKE i \in 1..n
      <3>1. DueTasks(due)[i] = Emission(due[i], due[i].brokers)
        BY DEF DueTasks
      <3>2. due[i] \in Entry /\ due[i].brokers \in SUBSET Brokers
        <4>1. due[i] \in Entry
          BY <1>8
        <4>2. QED
          BY <4>1 DEF Entry
      <3>3. Shown(DueTasks(due)[i]) = [key |-> Key(due[i].signal), consensus |-> due[i].brokers]
        BY <3>1, <3>2, EmissionFacts
      <3> HIDE DEF order
      <3>4. QED
        BY <1>8, <3>3
    <2>3. DOMAIN order = 1..n /\ Len(DueTasks(due)) = n
      BY <1>1
    <2> HIDE DEF order, n
    <2>4. [i \in 1..n |-> Shown(DueTasks(due)[i])] =
             [i \in 1..n |-> [key |-> order[i], consensus |-> waitingBar[order[i]]]]
      BY <2>2
    <2>5. QED
      BY <2>1, <2>3, <2>4
  <1>10. waitingBar' = [k \in Keys |-> IF k \in ks THEN {} ELSE waitingBar[k]]
    <2>1. ASSUME NEW k \in Keys
          PROVE  Waiting(k)' = IF k \in ks THEN {} ELSE Waiting(k)
      <3>1. CASE k \in ks
        <4>1. PICK p \in Expired : Key(p.signal) = k
          BY <3>1
        <4>2. \A q \in ToSet(pending) : Key(q.signal) = k => q = p
          BY <1>2, <1>3, <4>1, OneEntry
        <4>3. QED
          BY <1>1, <3>1, <4>1, <4>2 DEF Waiting
      <3>2. CASE k \notin ks
        BY <1>1, <3>2 DEF Waiting
      <3>3. QED
        BY <3>1, <3>2
    <2> HIDE DEF ks
    <2>2. QED
      BY <2>1 DEF waitingBar
  <1>11. phase = "up" /\ UNCHANGED phase
    BY <1>1 DEF Drain
  <1> HIDE DEF order, ks, n
  <1>12. QED
    BY <1>4, <1>5, <1>7, <1>9, <1>10, <1>11

LEMMA InitAgrees == Init => Agreed!Init
  <1> SUFFICES ASSUME Init PROVE Agreed!Init
    OBVIOUS
  <1>1. tasks = <<>> /\ pending = <<>> /\ phase = "up"
    BY DEF Init, GatewayInit
  <1>2. ToSet(<<>>) = {} /\ Len(<<>>) = 0 /\ 1..0 = {}
    BY DEF ToSet
  <1>3. \A k \in Keys : Waiting(k) = {}
    BY <1>1, <1>2 DEF Waiting
  <1>4. [k \in Keys |-> UNION {p.brokers : p \in Waiting(k)}] = [k \in Keys |-> {}]
    BY <1>3
  <1>5. [i \in 1..Len(tasks) |-> Shown(tasks[i])] = <<>>
    BY <1>1, <1>2
  <1>6. QED
    BY <1>1, <1>4, <1>5 DEF Agreed!Init

LEMMA NextAgrees == DeliveryInv /\ [Next]_vars => [Agreed!Next]_(Agreed!vars)
  <1> SUFFICES ASSUME DeliveryInv, [Next]_vars PROVE [Agreed!Next]_(Agreed!vars)
    OBVIOUS
  <1> DEFINE Stutters == waitingBar' = waitingBar /\ outBar' = outBar /\ ((phase # "up")' <=> (phase # "up"))
  <1>0. GatewayInv /\ tasks \in Seq(Task) /\ Buffer
    BY DEF DeliveryInv, GatewayInv, TasksSound
  <1>1. ASSUME Stutters PROVE UNCHANGED Agreed!vars
    BY <1>1 DEF Agreed!vars, waitingBar, outBar
  <1>2. ASSUME NEW signal \in Signals, NEW b \in Brokers, PushFirst(signal, b)
        PROVE  Agreed!Next
    <2>1. Agreed!Report(Key(signal), b)
      BY <1>2, PushFirstReports DEF Agreed!Report, waitingBar, outBar
    <2>2. QED
      BY <1>2, <2>1, PushFirstReports DEF Agreed!Next
  <1>3. ASSUME NEW signal \in Signals, NEW b \in Brokers, PushDuplicate(signal, b)
        PROVE  Stutters
    BY <1>3 DEF PushDuplicate, gatewayVars, waitingBar, outBar, Waiting
  <1>4. ASSUME NEW signal \in Signals, NEW b \in Brokers, PushSecond(signal, b)
        PROVE  Agreed!Next
    <2>1. Agreed!Confirm(Key(signal), b)
      BY <1>4, PushSecondConfirms DEF Agreed!Confirm, waitingBar, outBar
    <2>2. QED
      BY <1>4, <2>1, PushSecondConfirms DEF Agreed!Next
  <1>5. CASE Drain
    <2>1. CASE Expired # {}
      <3>1. PICK ks \in SUBSET Keys :
              /\ ks # {} /\ \A k \in ks : waitingBar[k] # {}
              /\ waitingBar' = [k \in Keys |-> IF k \in ks THEN {} ELSE waitingBar[k]]
              /\ \E order \in [1..Cardinality(ks) -> ks] :
                    /\ {order[i] : i \in DOMAIN order} = ks
                    /\ outBar' = outBar \o [i \in DOMAIN order |->
                                               [key |-> order[i], consensus |-> waitingBar[order[i]]]]
              /\ phase = "up" /\ UNCHANGED phase
        BY <1>5, <2>1, DrainReleases
      <3>2. ~(phase # "up") /\ (phase # "up")' = (phase # "up")
        BY <3>1
      <3>3. Agreed!Alone(ks)
        <4>1. Agreed!Cardinality(ks) = Cardinality(ks)
          BY DEF Agreed!Cardinality, Agreed!IsFiniteSet, Cardinality, IsFiniteSet
        <4>2. QED
          BY <3>1, <3>2, <4>1, Zenon DEF Agreed!Alone, waitingBar, outBar
      <3>4. QED
        BY <3>3 DEF Agreed!Next
    <2>2. CASE Expired = {}
      <3>1. PICK due \in Seq(Entry) :
              /\ ToSet(due) = Expired /\ Grown(DueTasks(due)) /\ Len(DueTasks(due)) = Len(due)
              /\ ToSet(pending') = ToSet(pending) \ Expired /\ UNCHANGED phase
        BY <1>5, DrainEffect
      <3>2. Len(due) = 0
        <4>1. Len(due) \in Nat /\ DOMAIN due = 1..Len(due)
          BY LenProperties
        <4>2. DOMAIN due = {}
          BY <2>2, <3>1 DEF ToSet
        <4>3. QED
          BY <4>1, <4>2
      <3>3. Len(tasks') = Len(tasks) /\ \A i \in 1..Len(tasks) : tasks'[i] = tasks[i]
        BY <1>0, <3>1, <3>2, LenProperties DEF Grown
      <3>4. \A k : Waiting(k)' = Waiting(k)
        BY <2>2, <3>1 DEF Waiting
      <3>5. Stutters
        BY <3>1, <3>3, <3>4 DEF waitingBar, outBar
      <3>6. QED
        BY <1>1, <3>5
    <2>3. QED
      BY <2>1, <2>2
  <1>6. CASE EngineEvent
    <2>1. PICK t : /\ Grown(<<t>>) /\ t.symbol = NoSymbol /\ UNCHANGED <<pending, phase>>
      BY <1>6, EngineEventEffect
    <2>2. outBar' = outBar \o [i \in 1..Len(<<t>>) |-> Shown(<<t>>[i])]
      BY <1>0, <2>1, OutGrown
    <2>3. [i \in 1..Len(<<t>>) |-> Shown(<<t>>[i])] = <<Event>>
      BY <2>1 DEF Shown
    <2>4. outBar \in Seq({Shown(tasks[i]) : i \in 1..Len(tasks)} \cup {Event})
      <3>1. Len(tasks) \in Nat
        BY <1>0, LenProperties
      <3>2. QED
        BY <3>1, SeqDef DEF outBar
    <2>5. outBar' = Append(outBar, Event)
      BY <2>2, <2>3, <2>4, AppendIsConcat
    <2>6. waitingBar' = waitingBar
      BY <2>1 DEF waitingBar, Waiting
    <2>7. Agreed!Pass
      BY <2>1, <2>5, <2>6 DEF Agreed!Pass, waitingBar, outBar
    <2>8. QED
      BY <2>7 DEF Agreed!Next
  <1>7. CASE Advance
    <2>1. waitingBar' = waitingBar
      BY <1>7, AdvanceEffect, WaitingSame
    <2>2. outBar' = outBar /\ UNCHANGED phase
      BY <1>7 DEF Advance, gatewayVars, outBar
    <2>3. QED
      BY <1>1, <2>1, <2>2
  <1>8. CASE Stop
    <2>1. waitingBar' = waitingBar /\ outBar' = outBar
      BY <1>8 DEF Stop, consensusVars, waitingBar, outBar, Waiting
    <2>2. (phase # "up")' = TRUE
      BY <1>8 DEF Stop
    <2>3. Agreed!Close
      BY <2>1, <2>2 DEF Agreed!Close, waitingBar, outBar
    <2>4. QED
      BY <2>3 DEF Agreed!Next
  <1>9. CASE /\ \/ Connect
                \/ \E c \in Clients : Connection(c)
                \/ \E i \in DOMAIN tasks : Run(i)
                \/ ServerClosed
             /\ UNCHANGED consensusVars
    <2>1. outBar' = outBar
      BY <1>0, <1>9, GatewayStepSound, OutSame
    <2>2. waitingBar' = waitingBar
      BY <1>9 DEF consensusVars, waitingBar, Waiting
    <2>3. (phase # "up")' <=> (phase # "up")
      BY <1>9 DEF Connect, Connection, Subscribe, Unsubscribe, Disconnect, HandlerEnds,
                  HandlerFails, Run, ServerClosed
    <2>4. QED
      BY <1>1, <2>1, <2>2, <2>3
  <1>10. CASE UNCHANGED vars
    <2>1. Stutters
      BY <1>10 DEF vars, gatewayVars, consensusVars, waitingBar, outBar, Waiting
    <2>2. QED
      BY <1>1, <2>1
  <1> HIDE DEF Stutters
  <1>11. QED
    BY <1>1, <1>2, <1>3, <1>4, <1>5, <1>6, <1>7, <1>8, <1>9, <1>10 DEF Next

(***************************************************************************)
(* The safety part of ImplementsAgreement, for any brokers, signals,       *)
(* window and drain period: every step of the buffer, the drain loop, the  *)
(* gateway and the shutdown is a step the agreement allows, or changes     *)
(* nothing it speaks of.                                                   *)
(***************************************************************************)
THEOREM ConsensusImplementsAgreement == Spec => Agreed!Safety
  BY InitAgrees, NextAgrees, Invariance, PTL DEF Spec, Agreed!Safety
==============================================================================
