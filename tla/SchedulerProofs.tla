--------------------------- MODULE SchedulerProofs ---------------------------
(***************************************************************************)
(* Theorems of Scheduler, for any number of symbols, subscribers, timers   *)
(* and ticks, and any week.                                                *)
(***************************************************************************)
EXTENDS Scheduler, TLAPS

-----------------------------------------------------------------------------
(***************************************************************************)
(* Delays                                                                  *)
(***************************************************************************)

\* The next candle boundary lies ahead.
LEMMA BoundaryAhead ==
    ASSUME NEW t \in Nat, NEW len \in Nat \ {0}
    PROVE  (t \div len + 1) * len - t \in Nat
  <1>1. /\ t \div len \in Int
        /\ (t \div len) * len \in Int
        /\ t < (t \div len) * len + len
    OBVIOUS
  <1>2. (t \div len + 1) * len = (t \div len) * len + len
    BY <1>1
  <1>3. QED
    BY <1>1, <1>2

\* The weekend sleep is a natural number.
LEMMA WeekendSleepType ==
    ASSUME NEW t \in Nat, NEW o \in Offsets, weekend \in Weekends
    PROVE  WeekendSleep(t, o) \in Nat
  <1>1. /\ weekend.close \in 0..(Week - 1)
        /\ weekend.reopen \in 0..(Week - 1)
        /\ Week \in Nat \ {0} /\ Buffer \in Nat /\ o \in Int
    BY SchedulerAssumption
  <1>2. t + o \in Int
    BY <1>1
  <1>3. BrokerTime(t, o) \in 0..(Week - 1)
    BY <1>1, <1>2 DEF BrokerTime
  <1>4. QED
    BY <1>1, <1>3 DEF WeekendSleep, NoSleep

\* So is the delay of every timer.
LEMMA NextDelayType ==
    ASSUME TypeOK, NEW o \in Offsets
    PROVE  NextDelay(o) \in Nat
  <1>1. now \in Nat /\ weekend \in Weekends /\ Interval \in Nat \ {0} /\ Buffer \in Nat
    BY SchedulerAssumption DEF TypeOK
  <1>2. UntilNextBoundary(now) \in Nat
    BY <1>1, BoundaryAhead DEF UntilNextBoundary
  <1>3. QED
    BY <1>1, <1>2, WeekendSleepType DEF NextDelay

-----------------------------------------------------------------------------
(***************************************************************************)
(* Type correctness                                                        *)
(***************************************************************************)

\* Init gives every variable a value of its type.
LEMMA TypeInit == Init => TypeOK
  <1> SUFFICES ASSUME Init PROVE TypeOK
    OBVIOUS
  <1>1. /\ now \in 0..(Week - 1) /\ weekend \in Weekends /\ offset \in Offsets
        /\ dropped = {}
    BY DEF Init
  <1>2. calls \in 0..MaxCalls
    BY SchedulerAssumption DEF Init
  <1>3. DOMAIN schedules = {} /\ schedules \in [DOMAIN schedules -> SymbolSchedule]
    BY DEF Init
  <1>4. chains \in [Chains -> Chain]
    BY DEF Init, Chain
  <1>5. QED
    BY <1>1, <1>2, <1>3, <1>4 DEF TypeOK

\* _schedule_next keeps the types.
LEMMA ScheduleNextType ==
    ASSUME TypeOK, NEW c \in Chains, NEW s \in DOMAIN schedules,
           NEW schedule \in SymbolSchedule, NEW o \in Offsets,
           ScheduleNext(c, s, schedule, o)
    PROVE  /\ chains' \in [Chains -> Chain]
           /\ DOMAIN schedules' = DOMAIN schedules
           /\ schedules' \in [DOMAIN schedules -> SymbolSchedule]
  <1>1. s \in Symbols
    BY DEF TypeOK
  <1>2. Armed(s, NextDelay(o), IF WeekendSleep(now, o) # NoSleep THEN o
                               ELSE BrokerOffset) \in Chain
    BY <1>1, NextDelayType, SchedulerAssumption DEF Armed, Chain
  <1>3. [schedule EXCEPT !.timer = c] \in SymbolSchedule
    BY DEF SymbolSchedule
  <1>4. QED
    BY <1>2, <1>3 DEF ScheduleNext, TypeOK

\* _cancel keeps the types.
LEMMA CancelType ==
    ASSUME TypeOK, NEW symbols, symbols \subseteq DOMAIN schedules, NEW left,
           left \in [DOMAIN schedules -> SymbolSchedule], Cancel(symbols, left)
    PROVE  /\ chains' \in [Chains -> Chain]
           /\ DOMAIN schedules' \subseteq Symbols
           /\ schedules' \in [DOMAIN schedules' -> SymbolSchedule]
           /\ dropped' \subseteq Symbols
  <1>1. chains' \in [Chains -> Chain]
    BY DEF Cancel, TypeOK, Chain
  <1>2. schedules' = [s \in DOMAIN schedules \ symbols |-> left[s]]
    BY DEF Cancel, Restrict
  <1>3. dropped' \subseteq Symbols
    BY DEF Cancel, TypeOK
  <1>4. QED
    BY <1>1, <1>2, <1>3 DEF TypeOK

\* So does a subscriber that leaves.
LEMMA LeaveType ==
    ASSUME TypeOK, NEW id, NEW symbols, Leave(id, symbols)
    PROVE  /\ chains' \in [Chains -> Chain]
           /\ DOMAIN schedules' \subseteq Symbols
           /\ schedules' \in [DOMAIN schedules' -> SymbolSchedule]
           /\ dropped' \subseteq Symbols
  <1> DEFINE left == [s \in DOMAIN schedules |->
                        IF s \in symbols
                        THEN [schedules[s] EXCEPT !.subscriber_ids = @ \ {id}]
                        ELSE schedules[s]]
             gone == {s \in symbols \cap DOMAIN left : left[s].subscriber_ids = {}}
  <1>1. left \in [DOMAIN schedules -> SymbolSchedule]
    BY DEF TypeOK, SymbolSchedule
  <1>2. gone \subseteq DOMAIN schedules
    OBVIOUS
  <1>3. Cancel(gone, left)
    BY DEF Leave
  <1> HIDE DEF left, gone
  <1>4. QED
    BY <1>1, <1>2, <1>3, CancelType

\* Every step keeps the types.
LEMMA TypeStep == TypeOK /\ [Next]_vars => TypeOK'
  <1> SUFFICES ASSUME TypeOK, [Next]_vars PROVE TypeOK'
    OBVIOUS
  <1>1. CASE UNCHANGED vars
    BY <1>1 DEF vars, TypeOK
  <1>2. CASE Advance
    <2>1. now' \in 0..(Week - 1) /\ calls' \in 0..MaxCalls
      BY <1>2, SchedulerAssumption DEF Advance, TypeOK
    <2>2. \A c \in Chains : chains'[c] \in Chain
      <3> SUFFICES ASSUME NEW c \in Chains PROVE chains'[c] \in Chain
        OBVIOUS
      <3>1. CASE chains[c].at = "armed"
        <4>1. chains[c] \in [at : {"armed"}, symbol : Symbols, left : Nat, clock : Offsets]
          BY <3>1 DEF TypeOK, Chain, NoChain
        <4>2. chains[c].left # 0
          BY <1>2, <3>1 DEF Advance, Due
        <4>3. chains'[c] = [chains[c] EXCEPT !.left = @ - 1]
          BY <1>2, <3>1 DEF Advance
        <4>4. QED
          BY <4>1, <4>2, <4>3 DEF Chain
      <3>2. CASE chains[c].at # "armed"
        BY <1>2, <3>2 DEF Advance, TypeOK
      <3>3. QED
        BY <3>1, <3>2
    <2>3. chains' \in [Chains -> Chain]
      BY <1>2, <2>2 DEF Advance
    <2>4. QED
      BY <1>2, <2>1, <2>3 DEF Advance, TypeOK
  <1>3. ASSUME Call PROVE /\ calls' \in 0..MaxCalls
                          /\ now' \in 0..(Week - 1) /\ weekend' \in Weekends
                          /\ offset' \in Offsets
    BY <1>3, SchedulerAssumption DEF Call, TypeOK
  <1>4. ASSUME NEW id \in Subscribers, NEW s \in Symbols, Subscribe(id, s)
        PROVE  TypeOK'
    <2>1. CASE Scheduled(s)
      <3>1. [schedules[s] EXCEPT !.subscriber_ids = @ \cup {id}] \in SymbolSchedule
        BY <2>1 DEF TypeOK, SymbolSchedule, Scheduled
      <3>2. QED
        BY <1>3, <1>4, <2>1, <3>1 DEF Subscribe, TypeOK, Scheduled
    <2>2. CASE ~Scheduled(s)
      <3>1. PICK c \in Chains :
              /\ chains' = [chains EXCEPT ![c] = Armed(s, 0, BrokerOffset)]
              /\ schedules' =
                   [t \in DOMAIN schedules \cup {s} |->
                       IF t = s THEN [is_running |-> FALSE, timer |-> c,
                                      subscriber_ids |-> {id}]
                       ELSE schedules[t]]
        BY <1>4, <2>2 DEF Subscribe
      <3>2. Armed(s, 0, BrokerOffset) \in Chain
        BY SchedulerAssumption DEF Armed, Chain
      <3>3. [is_running |-> FALSE, timer |-> c, subscriber_ids |-> {id}] \in SymbolSchedule
        BY DEF SymbolSchedule
      <3>4. schedules' \in [DOMAIN schedules \cup {s} -> SymbolSchedule]
        BY <3>1, <3>3 DEF TypeOK
      <3>5. chains' \in [Chains -> Chain]
        BY <3>1, <3>2 DEF TypeOK
      <3>6. QED
        BY <1>3, <1>4, <3>4, <3>5 DEF Subscribe, TypeOK
    <2>3. QED
      BY <2>1, <2>2
  <1>5. ASSUME NEW id \in Subscribers,
               Unsubscribe(id) \/ \E s \in Symbols : RemoveSymbols(id, s)
        PROVE  TypeOK'
    BY <1>3, <1>5, LeaveType DEF Unsubscribe, RemoveSymbols, TypeOK
  <1>6. CASE Shutdown
    BY <1>3, <1>6, CancelType DEF Shutdown, TypeOK
  <1>7. ASSUME NEW c \in Chains, Wake(c) PROVE TypeOK'
    <2>1. [at |-> "woken", symbol |-> chains[c].symbol] \in Chain
      BY <1>7 DEF Wake, TypeOK, Chain, NoChain
    <2>2. \A s \in DOMAIN schedules :
             [schedules[s] EXCEPT !.timer = NoTimer] \in SymbolSchedule
      BY DEF TypeOK, SymbolSchedule
    <2>3. /\ DOMAIN schedules' = DOMAIN schedules
          /\ schedules' \in [DOMAIN schedules -> SymbolSchedule]
      BY <1>7, <2>2 DEF Wake, TypeOK
    <2>4. QED
      BY <1>7, <2>1, <2>3 DEF Wake, TypeOK
  <1>8. ASSUME NEW c \in Chains, RunSkips(c) PROVE TypeOK'
    BY <1>8 DEF RunSkips, TypeOK, Chain
  <1>9. ASSUME NEW c \in Chains, RunSleeps(c) PROVE TypeOK'
    BY <1>9, ScheduleNextType DEF RunSleeps, Scheduled, TypeOK
  <1>10. ASSUME NEW c \in Chains, RunTicks(c) PROVE TypeOK'
    <2> DEFINE s == chains[c].symbol
    <2>1. chains[c] \in [at : {"woken", "ticking"}, symbol : Symbols]
      BY <1>10 DEF RunTicks, TypeOK, Chain, NoChain
    <2>2. [chains[c] EXCEPT !.at = "ticking"] \in Chain
      BY <2>1 DEF Chain
    <2>3. chains' \in [Chains -> Chain]
      BY <1>10, <2>2 DEF RunTicks, TypeOK
    <2>4. [schedules[s] EXCEPT !.is_running = TRUE] \in SymbolSchedule
      BY <1>10 DEF RunTicks, TypeOK, SymbolSchedule, Scheduled
    <2>5. QED
      BY <1>10, <2>3, <2>4 DEF RunTicks, TypeOK
  <1>11. ASSUME NEW c \in Chains, OnDone(c) PROVE TypeOK'
    <2> DEFINE s == chains[c].symbol
    <2>1. dropped' \subseteq Symbols /\ UNCHANGED <<now, weekend, offset, calls>>
      BY <1>11 DEF OnDone, TypeOK
    <2>2. CASE Scheduled(s)
      <3>1. [schedules[s] EXCEPT !.is_running = FALSE] \in SymbolSchedule
        BY <2>2 DEF TypeOK, SymbolSchedule, Scheduled
      <3>2. QED
        BY <1>11, <2>1, <2>2, <3>1, ScheduleNextType DEF OnDone, Scheduled, TypeOK
    <2>3. CASE ~Scheduled(s)
      BY <1>11, <2>1, <2>3 DEF OnDone, TypeOK, Chain
    <2>4. QED
      BY <2>2, <2>3
  <1>12. ASSUME NEW o \in Offsets, Measure(o) PROVE TypeOK'
    BY <1>12 DEF Measure, TypeOK
  <1>13. QED
    BY <1>1, <1>2, <1>4, <1>5, <1>6, <1>7, <1>8, <1>9, <1>10, <1>11, <1>12 DEF Next

(***************************************************************************)
(* Every variable of the scheduler holds a value of its type; a delay is   *)
(* never negative, whatever the week, its closing and the broker's clock.  *)
(***************************************************************************)
THEOREM TypeCorrect == Spec => []TypeOK
  BY TypeInit, TypeStep, PTL DEF Spec

-----------------------------------------------------------------------------
(***************************************************************************)
(* No schedule without a chain, no hidden overlap                          *)
(***************************************************************************)

\* The invariants, with what makes them inductive.
ChainsInv ==
    /\ ChainAlive
    /\ OneTickPerSymbol
    /\ TimerIsOwn
    /\ TickIsKnown

\* Nothing is scheduled at first.
LEMMA ChainsInit == Init => ChainsInv
  BY DEF Init, ChainsInv, ChainAlive, OneTickPerSymbol, TimerIsOwn, TickIsKnown,
         ChainsAt, NoChain

\* Time changes no chain's place.
LEMMA ChainsAdvance ==
    ASSUME TypeOK, ChainsInv, Advance
    PROVE  ChainsInv'
  <1>1. \A c \in Chains : /\ chains'[c].at = chains[c].at
                          /\ chains[c].at # "none" =>
                               chains'[c].symbol = chains[c].symbol
    <2> SUFFICES ASSUME NEW c \in Chains
                 PROVE  /\ chains'[c].at = chains[c].at
                        /\ chains[c].at # "none" =>
                             chains'[c].symbol = chains[c].symbol
      OBVIOUS
    <2>1. CASE chains[c].at = "armed"
      <3>1. chains[c] \in [at : {"armed"}, symbol : Symbols, left : Nat, clock : Offsets]
        BY <2>1 DEF TypeOK, Chain, NoChain
      <3>2. chains'[c] = [chains[c] EXCEPT !.left = @ - 1]
        BY <2>1 DEF Advance
      <3>3. QED
        BY <3>1, <3>2
    <2>2. CASE chains[c].at # "armed"
      BY <2>2 DEF Advance
    <2>3. QED
      BY <2>1, <2>2
  <1>2. \A s, places : "none" \notin places => ChainsAt(s, places)' = ChainsAt(s, places)
    BY <1>1 DEF ChainsAt
  <1>3. \A s : /\ ChainsAt(s, {"ticking"})' = ChainsAt(s, {"ticking"})
               /\ ChainsAt(s, {"armed"})' = ChainsAt(s, {"armed"})
               /\ ChainsAt(s, {"armed", "woken", "ticking"})'
                    = ChainsAt(s, {"armed", "woken", "ticking"})
    BY <1>2
  <1>4. schedules' = schedules /\ dropped' = dropped
    BY DEF Advance
  <1>5. QED
    BY <1>3, <1>4 DEF ChainsInv, ChainAlive, OneTickPerSymbol, TimerIsOwn,
                      TickIsKnown, Scheduled

\* A new schedule starts with a timer of its own, on a chain nobody uses.
LEMMA ChainsSubscribe ==
    ASSUME TypeOK, ChainsInv, NEW id, NEW s \in Symbols, Subscribe(id, s)
    PROVE  ChainsInv'
  <1>1. CASE Scheduled(s)
    <2>1. /\ schedules' = [schedules EXCEPT ![s].subscriber_ids = @ \cup {id}]
          /\ chains' = chains /\ dropped' = dropped
      BY <1>1 DEF Subscribe
    <2>2. /\ DOMAIN schedules' = DOMAIN schedules
          /\ \A t \in DOMAIN schedules :
                /\ schedules'[t].is_running = schedules[t].is_running
                /\ schedules'[t].timer = schedules[t].timer
      BY <2>1 DEF TypeOK, SymbolSchedule
    <2>3. QED
      BY <2>1, <2>2 DEF ChainsInv, ChainAlive, OneTickPerSymbol, TimerIsOwn,
                        TickIsKnown, Scheduled, ChainsAt
  <1>2. CASE ~Scheduled(s)
    <2>1. PICK c \in Chains :
            /\ chains[c] = NoChain
            /\ chains' = [chains EXCEPT ![c] = Armed(s, 0, BrokerOffset)]
            /\ schedules' =
                 [t \in DOMAIN schedules \cup {s} |->
                     IF t = s THEN [is_running |-> FALSE, timer |-> c,
                                    subscriber_ids |-> {id}]
                     ELSE schedules[t]]
      BY <1>2 DEF Subscribe
    <2>2. /\ chains[c].at = "none"
          /\ chains'[c].at = "armed" /\ chains'[c].symbol = s
          /\ \A d \in Chains : d # c => chains'[d] = chains[d]
      BY <2>1 DEF TypeOK, NoChain, Armed
    <2>3. /\ DOMAIN schedules' = DOMAIN schedules \cup {s}
          /\ schedules'[s].is_running = FALSE /\ schedules'[s].timer = c
          /\ \A t \in DOMAIN schedules : schedules'[t] = schedules[t]
      BY <1>2, <2>1 DEF Scheduled
    <2>4. dropped' = dropped
      BY DEF Subscribe
    <2>5. \A t : ChainsAt(t, {"ticking"})' = ChainsAt(t, {"ticking"})
      BY <2>2 DEF ChainsAt
    <2>6. ChainAlive'
      BY <2>2, <2>3, <2>5 DEF ChainsInv, ChainAlive, ChainsAt
    <2>7. TimerIsOwn'
      BY <2>2, <2>3 DEF ChainsInv, TimerIsOwn, ChainsAt
    <2>8. OneTickPerSymbol'
      BY <2>4, <2>5 DEF ChainsInv, OneTickPerSymbol
    <2>9. TickIsKnown'
      BY <1>2, <2>3, <2>4, <2>5 DEF ChainsInv, TickIsKnown, Scheduled
    <2>10. QED
      BY <2>6, <2>7, <2>8, <2>9 DEF ChainsInv
  <1>3. QED
    BY <1>1, <1>2

(***************************************************************************)
(* Cancelling some symbols ends their armed timers and nothing else: the   *)
(* ticks go on, and a symbol that loses its schedule under one is dropped. *)
(***************************************************************************)
LEMMA ChainsCancel ==
    ASSUME TypeOK, ChainsInv, NEW symbols, symbols \subseteq DOMAIN schedules, NEW left,
           DOMAIN left = DOMAIN schedules,
           \A t \in DOMAIN schedules : /\ left[t].is_running = schedules[t].is_running
                                       /\ left[t].timer = schedules[t].timer,
           Cancel(symbols, left)
    PROVE  ChainsInv'
  <1>1. /\ DOMAIN schedules' = DOMAIN schedules \ symbols
        /\ \A t \in DOMAIN schedules' :
              /\ schedules'[t].is_running = schedules[t].is_running
              /\ schedules'[t].timer = schedules[t].timer
    <2>1. schedules' = [t \in DOMAIN schedules \ symbols |-> left[t]]
      BY DEF Cancel, Restrict
    <2>2. QED
      BY <2>1
  <1>2. \A c \in Chains : chains'[c] = IF \E t \in symbols : left[t].timer = c
                                       THEN NoChain ELSE chains[c]
    BY DEF Cancel
  <1>3. \A c \in Chains, t \in symbols :
           left[t].timer = c => chains[c].at = "armed" /\ chains[c].symbol = t
    BY SchedulerAssumption DEF ChainsInv, TimerIsOwn, ChainsAt
  <1>4. \A c \in Chains :
           \/ chains'[c] = chains[c]
           \/ /\ chains[c].at = "armed" /\ chains[c].symbol \in symbols
              /\ chains'[c].at = "none"
    BY <1>2, <1>3 DEF NoChain
  <1>5. \A t : ChainsAt(t, {"ticking"})' = ChainsAt(t, {"ticking"})
    BY <1>4 DEF ChainsAt
  <1>6. \A t \in DOMAIN schedules' :
           /\ ChainsAt(t, {"armed"})' = ChainsAt(t, {"armed"})
           /\ ChainsAt(t, {"armed", "woken", "ticking"})'
                = ChainsAt(t, {"armed", "woken", "ticking"})
    BY <1>1, <1>4 DEF ChainsAt
  <1>7. dropped' = dropped \cup {t \in symbols : ChainsAt(t, {"ticking"}) # {}}
    BY DEF Cancel
  <1>8. ChainAlive' /\ TimerIsOwn'
    BY <1>1, <1>5, <1>6 DEF ChainsInv, ChainAlive, TimerIsOwn
  <1>9. OneTickPerSymbol'
    BY <1>5, <1>7 DEF ChainsInv, OneTickPerSymbol
  <1>10. TickIsKnown'
    BY <1>1, <1>5, <1>7 DEF ChainsInv, TickIsKnown, Scheduled
  <1>11. QED
    BY <1>8, <1>9, <1>10 DEF ChainsInv

\* A subscriber that leaves cancels the symbols nobody else wants.
LEMMA ChainsLeave ==
    ASSUME TypeOK, ChainsInv, NEW id, NEW symbols, Leave(id, symbols)
    PROVE  ChainsInv'
  <1> DEFINE left == [s \in DOMAIN schedules |->
                        IF s \in symbols
                        THEN [schedules[s] EXCEPT !.subscriber_ids = @ \ {id}]
                        ELSE schedules[s]]
             gone == {s \in symbols \cap DOMAIN left : left[s].subscriber_ids = {}}
  <1>1. \A t \in DOMAIN schedules : /\ left[t].is_running = schedules[t].is_running
                                    /\ left[t].timer = schedules[t].timer
    BY DEF TypeOK, SymbolSchedule
  <1>2. gone \subseteq DOMAIN schedules /\ DOMAIN left = DOMAIN schedules
    OBVIOUS
  <1>3. Cancel(gone, left)
    BY DEF Leave
  <1> HIDE DEF left, gone
  <1>4. QED
    BY <1>1, <1>2, <1>3, ChainsCancel

\* A timer that fires is no longer the schedule's to cancel.
LEMMA ChainsWake ==
    ASSUME TypeOK, ChainsInv, NEW c \in Chains, Wake(c)
    PROVE  ChainsInv'
  <1>1. /\ chains[c].at = "armed"
        /\ chains'[c].at = "woken" /\ chains'[c].symbol = chains[c].symbol
        /\ \A d \in Chains : d # c => chains'[d] = chains[d]
    BY DEF Wake, TypeOK
  <1>2. /\ DOMAIN schedules' = DOMAIN schedules
        /\ \A t \in DOMAIN schedules :
              /\ schedules'[t].is_running = schedules[t].is_running
              /\ schedules'[t].timer \in {schedules[t].timer, NoTimer} \ {c}
    BY SchedulerAssumption DEF Wake, TypeOK, SymbolSchedule
  <1>3. dropped' = dropped
    BY DEF Wake
  <1>4. \A t : /\ ChainsAt(t, {"ticking"})' = ChainsAt(t, {"ticking"})
               /\ ChainsAt(t, {"armed", "woken", "ticking"})'
                    = ChainsAt(t, {"armed", "woken", "ticking"})
    BY <1>1 DEF ChainsAt
  <1>5. ChainAlive' /\ OneTickPerSymbol' /\ TickIsKnown'
    BY <1>2, <1>3, <1>4 DEF ChainsInv, ChainAlive, OneTickPerSymbol, TickIsKnown,
                            Scheduled
  <1>6. TimerIsOwn'
    BY <1>1, <1>2 DEF ChainsInv, TimerIsOwn, ChainsAt
  <1>7. QED
    BY <1>5, <1>6 DEF ChainsInv

\* A chain may end where the symbol is gone or another tick will go on.
LEMMA ChainsRunSkips ==
    ASSUME TypeOK, ChainsInv, NEW c \in Chains, RunSkips(c)
    PROVE  ChainsInv'
  <1> DEFINE s == chains[c].symbol
  <1>1. /\ chains[c].at = "woken" /\ chains'[c].at = "none"
        /\ \A d \in Chains : d # c => chains'[d] = chains[d]
        /\ schedules' = schedules /\ dropped' = dropped
    BY DEF RunSkips, TypeOK, NoChain
  <1>2. \A t : /\ ChainsAt(t, {"ticking"})' = ChainsAt(t, {"ticking"})
               /\ ChainsAt(t, {"armed"})' = ChainsAt(t, {"armed"})
               /\ t # s => ChainsAt(t, {"armed", "woken", "ticking"})'
                             = ChainsAt(t, {"armed", "woken", "ticking"})
    BY <1>1 DEF ChainsAt
  <1>3. s \in DOMAIN schedules => schedules[s].is_running
    BY DEF RunSkips, Scheduled
  <1>4. ChainAlive'
    BY <1>1, <1>2, <1>3 DEF ChainsInv, ChainAlive
  <1>5. OneTickPerSymbol' /\ TickIsKnown' /\ TimerIsOwn'
    BY <1>1, <1>2 DEF ChainsInv, OneTickPerSymbol, TickIsKnown, TimerIsOwn, Scheduled
  <1>6. QED
    BY <1>4, <1>5 DEF ChainsInv

\* A chain that goes on with a new timer, out of a thread or a tick.
LEMMA ScheduleNextEffect ==
    ASSUME TypeOK, NEW c \in Chains, NEW s \in DOMAIN schedules,
           NEW schedule \in SymbolSchedule, NEW o \in Offsets,
           ScheduleNext(c, s, schedule, o)
    PROVE  /\ chains'[c].at = "armed" /\ chains'[c].symbol = s
           /\ \A d \in Chains : d # c => chains'[d] = chains[d]
           /\ DOMAIN schedules' = DOMAIN schedules
           /\ schedules'[s].is_running = schedule.is_running /\ schedules'[s].timer = c
           /\ \A t \in DOMAIN schedules : t # s => schedules'[t] = schedules[t]
  BY DEF ScheduleNext, Armed, TypeOK, SymbolSchedule

\* Sleeping on over the weekend.
LEMMA ChainsRunSleeps ==
    ASSUME TypeOK, ChainsInv, NEW c \in Chains, RunSleeps(c)
    PROVE  ChainsInv'
  <1> DEFINE s == chains[c].symbol
  <1>1. /\ chains[c].at = "woken" /\ s \in DOMAIN schedules
        /\ schedules[s] \in SymbolSchedule /\ ~schedules[s].is_running
        /\ offset' \in Offsets
        /\ ScheduleNext(c, s, schedules[s], offset') /\ dropped' = dropped
    BY DEF RunSleeps, Scheduled, TypeOK
  <1>2. /\ chains'[c].at = "armed" /\ chains'[c].symbol = s
        /\ \A d \in Chains : d # c => chains'[d] = chains[d]
        /\ DOMAIN schedules' = DOMAIN schedules
        /\ schedules'[s].is_running = FALSE /\ schedules'[s].timer = c
        /\ \A t \in DOMAIN schedules : t # s => schedules'[t] = schedules[t]
    BY <1>1, ScheduleNextEffect DEF SymbolSchedule
  <1>3. \A t : ChainsAt(t, {"ticking"})' = ChainsAt(t, {"ticking"})
    BY <1>1, <1>2 DEF ChainsAt
  <1>4. ChainAlive'
    BY <1>1, <1>2, <1>3 DEF ChainsInv, ChainAlive, ChainsAt
  <1>5. TimerIsOwn'
    BY <1>1, <1>2 DEF ChainsInv, TimerIsOwn, ChainsAt
  <1>6. OneTickPerSymbol' /\ TickIsKnown'
    BY <1>1, <1>2, <1>3 DEF ChainsInv, OneTickPerSymbol, TickIsKnown, Scheduled
  <1>7. QED
    BY <1>4, <1>5, <1>6 DEF ChainsInv

\* A tick starts only where no tick the schedule knows of runs.
LEMMA ChainsRunTicks ==
    ASSUME TypeOK, ChainsInv, NEW c \in Chains, RunTicks(c)
    PROVE  ChainsInv'
  <1>0. PICK s : s = chains[c].symbol
    OBVIOUS
  <1>1. /\ chains[c].at = "woken" /\ s \in DOMAIN schedules
        /\ ~schedules[s].is_running /\ dropped' = dropped
    BY <1>0 DEF RunTicks, Scheduled
  <1>2. /\ chains'[c].at = "ticking" /\ chains'[c].symbol = s
        /\ \A d \in Chains : d # c => chains'[d] = chains[d]
    <2>1. chains[c] \in [at : {"woken", "ticking"}, symbol : Symbols]
      BY <1>1 DEF TypeOK, Chain, NoChain
    <2>2. QED
      BY <1>0, <2>1 DEF RunTicks, TypeOK
  <1>3. /\ DOMAIN schedules' = DOMAIN schedules
        /\ schedules'[s].is_running = TRUE /\ schedules'[s].timer = schedules[s].timer
        /\ \A t \in DOMAIN schedules : t # s => schedules'[t] = schedules[t]
    BY <1>0, <1>1 DEF RunTicks, TypeOK, SymbolSchedule
  <1>4. \A t : /\ ChainsAt(t, {"armed"})' = ChainsAt(t, {"armed"})
               /\ ChainsAt(t, {"armed", "woken", "ticking"})'
                    = ChainsAt(t, {"armed", "woken", "ticking"})
               /\ t # s => ChainsAt(t, {"ticking"})' = ChainsAt(t, {"ticking"})
    BY <1>0, <1>1, <1>2 DEF ChainsAt
  <1>5. ChainsAt(s, {"ticking"})' = ChainsAt(s, {"ticking"}) \cup {c}
    BY <1>0, <1>1, <1>2 DEF ChainsAt
  <1>6. s \notin dropped => ChainsAt(s, {"ticking"}) = {}
    BY <1>1 DEF ChainsInv, TickIsKnown, TypeOK
  <1>7. ChainAlive'
    BY <1>3, <1>4, <1>5 DEF ChainsInv, ChainAlive
  <1>8. TimerIsOwn'
    BY <1>1, <1>3, <1>4 DEF ChainsInv, TimerIsOwn
  <1>9. OneTickPerSymbol'
    BY <1>1, <1>4, <1>5, <1>6 DEF ChainsInv, OneTickPerSymbol
  <1>10. TickIsKnown'
    BY <1>1, <1>3, <1>4 DEF ChainsInv, TickIsKnown, Scheduled
  <1>11. QED
    BY <1>7, <1>8, <1>9, <1>10 DEF ChainsInv

\* The end of a tick arms the next timer where the symbol is still scheduled.
LEMMA ChainsOnDone ==
    ASSUME TypeOK, ChainsInv, NEW c \in Chains, OnDone(c)
    PROVE  ChainsInv'
  <1>0. PICK s : s = chains[c].symbol
    OBVIOUS
  <1>1. /\ chains[c].at = "ticking"
        /\ dropped' = IF ChainsAt(s, {"ticking"}) = {c} THEN dropped \ {s} ELSE dropped
    BY <1>0 DEF OnDone
  <1>2. c \in ChainsAt(s, {"ticking"})
    BY <1>0, <1>1 DEF ChainsAt
  <1>3. s \notin dropped' => ChainsAt(s, {"ticking"}) = {c}
    <2>1. s \in Symbols
      BY <1>0, <1>1 DEF TypeOK, Chain, NoChain
    <2>2. s \notin dropped => \A d \in ChainsAt(s, {"ticking"}) : d = c
      BY <1>2, <2>1 DEF ChainsInv, OneTickPerSymbol
    <2>3. QED
      BY <1>1, <1>2, <2>2
  <1>4. /\ \A d \in Chains : d # c => chains'[d] = chains[d]
        /\ chains'[c].at \in {"armed", "none"}
        /\ DOMAIN schedules' = DOMAIN schedules
        /\ \A t \in DOMAIN schedules : t # s => schedules'[t] = schedules[t]
        /\ s \in DOMAIN schedules => /\ chains'[c].at = "armed" /\ chains'[c].symbol = s
                                     /\ schedules'[s].is_running = FALSE
                                     /\ schedules'[s].timer = c
    <2>1. CASE Scheduled(s)
      <3>1. PICK reset : reset = [schedules[s] EXCEPT !.is_running = FALSE]
        OBVIOUS
      <3>2. reset \in SymbolSchedule /\ reset.is_running = FALSE
        BY <2>1, <3>1 DEF TypeOK, SymbolSchedule, Scheduled
      <3>3. /\ ScheduleNext(c, s, reset, offset) /\ s \in DOMAIN schedules
            /\ offset \in Offsets
        BY <1>0, <2>1, <3>1 DEF OnDone, Scheduled, TypeOK
      <3>4. /\ chains'[c].at = "armed" /\ chains'[c].symbol = s
            /\ \A d \in Chains : d # c => chains'[d] = chains[d]
            /\ DOMAIN schedules' = DOMAIN schedules
            /\ schedules'[s].is_running = reset.is_running /\ schedules'[s].timer = c
            /\ \A t \in DOMAIN schedules : t # s => schedules'[t] = schedules[t]
        BY <3>2, <3>3, ScheduleNextEffect
      <3>5. QED
        BY <3>2, <3>4
    <2>2. CASE ~Scheduled(s)
      BY <1>0, <2>2 DEF OnDone, Scheduled, TypeOK, NoChain
    <2>3. QED
      BY <2>1, <2>2
  <1>5. \A t : t # s => /\ ChainsAt(t, {"ticking"})' = ChainsAt(t, {"ticking"})
                        /\ ChainsAt(t, {"armed", "woken", "ticking"}) \subseteq
                             ChainsAt(t, {"armed", "woken", "ticking"})'
                        /\ ChainsAt(t, {"armed"}) \subseteq ChainsAt(t, {"armed"})'
    BY <1>0, <1>1, <1>4 DEF ChainsAt
  <1>6. ChainsAt(s, {"ticking"})' = ChainsAt(s, {"ticking"}) \ {c}
    BY <1>0, <1>1, <1>4 DEF ChainsAt
  <1>7. s \in DOMAIN schedules => c \in ChainsAt(s, {"armed"})'
                               /\ c \in ChainsAt(s, {"armed", "woken", "ticking"})'
    BY <1>4 DEF ChainsAt
  <1>8. ChainAlive'
    BY <1>4, <1>5, <1>7 DEF ChainsInv, ChainAlive
  <1>9. TimerIsOwn'
    BY <1>4, <1>5, <1>7 DEF ChainsInv, TimerIsOwn
  <1>10. OneTickPerSymbol'
    BY <1>1, <1>3, <1>5, <1>6 DEF ChainsInv, OneTickPerSymbol
  <1>11. TickIsKnown'
    BY <1>1, <1>3, <1>4, <1>5, <1>6 DEF ChainsInv, TickIsKnown, Scheduled
  <1>12. QED
    BY <1>8, <1>9, <1>10, <1>11 DEF ChainsInv

\* Every step keeps them.
LEMMA ChainsStep == TypeOK /\ ChainsInv /\ [Next]_vars => ChainsInv'
  <1> SUFFICES ASSUME TypeOK, ChainsInv, [Next]_vars PROVE ChainsInv'
    OBVIOUS
  <1>1. CASE UNCHANGED vars
    BY <1>1 DEF vars, ChainsInv, ChainAlive, OneTickPerSymbol, TimerIsOwn, TickIsKnown,
                ChainsAt, Scheduled
  <1>2. CASE Advance
    BY <1>2, ChainsAdvance
  <1>3. ASSUME NEW id \in Subscribers, NEW s \in Symbols, Subscribe(id, s)
        PROVE  ChainsInv'
    BY <1>3, ChainsSubscribe
  <1>4. ASSUME NEW id \in Subscribers,
               Unsubscribe(id) \/ \E s \in Symbols : RemoveSymbols(id, s)
        PROVE  ChainsInv'
    BY <1>4, ChainsLeave DEF Unsubscribe, RemoveSymbols
  <1>5. CASE Shutdown
    BY <1>5, ChainsCancel DEF Shutdown
  <1>6. ASSUME NEW c \in Chains,
               Wake(c) \/ RunSkips(c) \/ RunSleeps(c) \/ RunTicks(c) \/ OnDone(c)
        PROVE  ChainsInv'
    BY <1>6, ChainsWake, ChainsRunSkips, ChainsRunSleeps, ChainsRunTicks, ChainsOnDone
  <1>7. ASSUME NEW o \in Offsets, Measure(o) PROVE ChainsInv'
    BY <1>7 DEF Measure, ChainsInv, ChainAlive, OneTickPerSymbol, TimerIsOwn, TickIsKnown,
                ChainsAt, Scheduled
  <1>8. QED
    BY <1>1, <1>2, <1>3, <1>4, <1>5, <1>6, <1>7 DEF Next

(***************************************************************************)
(* No crossing of calls, timers and ticks leaves a subscribed symbol       *)
(* without a chain: there is always a tick, a thread or a timer to serve   *)
(* it, and is_running is never left behind by a tick that is gone.         *)
(***************************************************************************)
THEOREM ScheduledSymbolsAreServed == Spec => []ChainAlive
  <1>1. ChainsInv => ChainAlive
    BY DEF ChainsInv
  <1>2. QED
    BY <1>1, TypeCorrect, ChainsInit, ChainsStep, PTL DEF Spec

(***************************************************************************)
(* Two ticks of a symbol never overlap, unless it was cancelled and        *)
(* subscribed again under the first.                                       *)
(***************************************************************************)
THEOREM TicksDoNotOverlap == Spec => []OneTickPerSymbol
  <1>1. ChainsInv => OneTickPerSymbol
    BY DEF ChainsInv
  <1>2. QED
    BY <1>1, TypeCorrect, ChainsInit, ChainsStep, PTL DEF Spec

-----------------------------------------------------------------------------
(***************************************************************************)
(* No timer sleeps into the open market                                    *)
(***************************************************************************)

\* One unit on, the position in a cycle is the next one, or the first again.
LEMMA NextInCycle ==
    ASSUME NEW a \in Int, NEW n \in Nat \ {0}
    PROVE  (a + 1) % n = IF a % n = n - 1 THEN 0 ELSE (a % n) + 1
  <1> DEFINE q == a \div n
             r == a % n
  <1>1. q \in Int /\ r \in 0..(n - 1) /\ a = n * q + r
    OBVIOUS
  <1> HIDE DEF q, r
  <1>2. CASE r = n - 1
    <2>1. a + 1 = n * (q + 1)
      BY <1>1, <1>2
    <2>2. (a + 1) % n = 0
      BY <1>1, <2>1
    <2>3. QED
      BY <1>2, <2>2 DEF r
  <1>3. CASE r # n - 1
    <2>1. a + 1 = n * q + (r + 1) /\ r + 1 \in 0..(n - 1)
      BY <1>1, <1>3
    <2>2. (a + 1) % n = r + 1
      BY <1>1, <2>1
    <2>3. QED
      BY <1>3, <2>2 DEF r
  <1>4. QED
    BY <1>2, <1>3

\* A whole turn leads back to the same position.
LEMMA WholeTurn ==
    ASSUME NEW a \in Int, NEW n \in Nat \ {0}
    PROVE  (a + n) % n = a % n
  <1> DEFINE q == a \div n
             r == a % n
  <1>1. q \in Int /\ r \in 0..(n - 1) /\ a = n * q + r
    OBVIOUS
  <1> HIDE DEF q, r
  <1>2. a + n = n * (q + 1) + r
    BY <1>1
  <1>3. (a + n) % n = r
    BY <1>1, <1>2
  <1>4. QED
    BY <1>3 DEF r

\* A difference of positions, round the cycle.
LEMMA Difference ==
    ASSUME NEW a \in Int, NEW b \in Int, NEW n \in Nat \ {0}
    PROVE  (a - b) % n = IF a % n >= b % n THEN (a % n) - (b % n)
                         ELSE (a % n) - (b % n) + n
  <1> DEFINE q == a \div n
             r == a % n
             p == b \div n
             s == b % n
  <1>1. /\ q \in Int /\ r \in 0..(n - 1) /\ a = n * q + r
        /\ p \in Int /\ s \in 0..(n - 1) /\ b = n * p + s
    OBVIOUS
  <1> HIDE DEF q, r, p, s
  <1>2. ASSUME NEW x \in Int, NEW k \in Int, NEW d \in 0..(n - 1), x = n * k + d
        PROVE  x % n = d
    BY <1>2
  <1>3. CASE r >= s
    <2>1. PICK x \in Int, k \in Int, d \in 0..(n - 1) :
             x = a - b /\ k = q - p /\ d = r - s
      BY <1>1, <1>3
    <2>2. x = n * k + d
      BY <1>1, <2>1
    <2>3. x % n = d
      BY <1>2, <2>2
    <2>4. QED
      BY <1>3, <2>1, <2>3 DEF r, s
  <1>4. CASE ~(r >= s)
    <2>1. PICK x \in Int, k \in Int, d \in 0..(n - 1) :
             x = a - b /\ k = q - p - 1 /\ d = r - s + n
      BY <1>1, <1>4
    <2>2. x = n * k + d
      BY <1>1, <2>1
    <2>3. x % n = d
      BY <1>2, <2>2
    <2>4. QED
      BY <1>4, <2>1, <2>3 DEF r, s
  <1>5. QED
    BY <1>3, <1>4

\* The broker's clock goes on with the scheduler's, over both ends of the week.
LEMMA BrokerTimeStep ==
    ASSUME TypeOK, now' = (now + 1) % Week, NEW o \in Offsets
    PROVE  /\ BrokerTime(now, o) \in 0..(Week - 1)
           /\ BrokerTime(now', o) = IF BrokerTime(now, o) = Week - 1 THEN 0
                                    ELSE BrokerTime(now, o) + 1
  <1>1. now \in 0..(Week - 1) /\ Week \in Nat \ {0} /\ o \in Int
    BY SchedulerAssumption DEF TypeOK
  <1>2. BrokerTime(now, o) \in 0..(Week - 1)
    BY <1>1 DEF BrokerTime
  <1>3. ((now + o) + 1) % Week = IF BrokerTime(now, o) = Week - 1 THEN 0
                                            ELSE BrokerTime(now, o) + 1
    <2>1. now + o \in Int
      BY <1>1
    <2>2. \A a \in Int : (a + 1) % Week = IF a % Week = Week - 1 THEN 0
                                           ELSE (a % Week) + 1
      BY <1>1, NextInCycle
    <2>3. QED
      BY <2>1, <2>2 DEF BrokerTime
  <1>4. CASE now = Week - 1
    <2>1. now' = 0
      BY <1>1, <1>4
    <2>2. (now + o) + 1 = o + Week
      BY <1>1, <1>4
    <2>3. (now + o + 1) % Week = o % Week
      BY <1>1, <2>2, WholeTurn
    <2>4. BrokerTime(now', o) = o % Week
      BY <1>1, <2>1 DEF BrokerTime
    <2>5. QED
      BY <1>2, <1>3, <2>3, <2>4
  <1>5. CASE now # Week - 1
    <2>1. now' = now + 1
      BY <1>1, <1>5
    <2>2. now' + o = (now + o) + 1
      BY <1>1, <2>1
    <2>3. QED
      BY <1>2, <1>3, <2>2 DEF BrokerTime
  <1>6. QED
    BY <1>4, <1>5

(***************************************************************************)
(* A timer waits for the next candle at most, or else no longer than a     *)
(* timer armed now by the same clock would sleep: what makes NoOversleep   *)
(* inductive.                                                              *)
(***************************************************************************)
SleepIsBounded ==
    \A c \in Chains :
        chains[c].at = "armed" => \/ chains[c].left <= Interval + Buffer
                                  \/ chains[c].left
                                       <= WeekendSleep(now, chains[c].clock)

\* A weekend sleep shrinks with time, and ends a buffer after the reopening.
LEMMA SleepShrinks ==
    ASSUME TypeOK, now' = (now + 1) % Week, weekend' = weekend, NEW o \in Offsets,
           WeekendSleep(now, o) # NoSleep
    PROVE  \/ WeekendSleep(now, o)' = WeekendSleep(now, o) - 1
           \/ WeekendSleep(now, o) = 1 + Buffer
  <1>1. /\ weekend.close \in 0..(Week - 1) /\ weekend.reopen \in 0..(Week - 1)
        /\ Week \in Nat \ {0} /\ Buffer \in Nat
    BY SchedulerAssumption DEF TypeOK
  <1>2. /\ BrokerTime(now, o) \in 0..(Week - 1)
        /\ BrokerTime(now', o) = IF BrokerTime(now, o) = Week - 1 THEN 0
                                 ELSE BrokerTime(now, o) + 1
    BY BrokerTimeStep
  <1>3. QED
    BY <1>1, <1>2 DEF WeekendSleep, NoSleep

(***************************************************************************)
(* In the open market a clock sleeps no longer than it is behind, and no   *)
(* longer than the weekend; a clock that is right does not sleep.          *)
(***************************************************************************)
LEMMA OpenMarketSleep ==
    ASSUME TypeOK, MarketOpen(now), NEW o \in Offsets
    PROVE  \/ WeekendSleep(now, o) = NoSleep
           \/ /\ WeekendSleep(now, o) <= Behind(o) + Buffer
              /\ WeekendSleep(now, o) <= ClosedLength + Buffer
  <1> DEFINE s == BrokerTime(now, o)
             p == BrokerTime(now, BrokerOffset)
             b == Behind(o)
             c == weekend.close
             r == weekend.reopen
  <1>1. /\ c \in 0..(Week - 1) /\ r \in 0..(Week - 1) /\ Week \in Nat \ {0}
        /\ Buffer \in Nat /\ now \in Int /\ o \in Int /\ BrokerOffset \in Int
    BY SchedulerAssumption DEF TypeOK
  <1>2. s \in 0..(Week - 1) /\ p \in 0..(Week - 1) /\ b \in 0..(Week - 1)
    BY <1>1 DEF BrokerTime, Behind
  <1>3. s = IF p >= b THEN p - b ELSE p - b + Week
    <2>1. now + o = (now + BrokerOffset) - (BrokerOffset - o)
      BY <1>1
    <2>2. now + BrokerOffset \in Int /\ BrokerOffset - o \in Int
      BY <1>1
    <2>3. \A x \in Int, y \in Int :
             (x - y) % Week = IF x % Week >= y % Week THEN (x % Week) - (y % Week)
                              ELSE (x % Week) - (y % Week) + Week
      BY <1>1, Difference
    <2>4. QED
      BY <2>1, <2>2, <2>3 DEF BrokerTime, Behind
  <1>4. c = r \/ (p - r) % Week < (c - r) % Week
    BY DEF MarketOpen
  <1>5. ASSUME NEW x \in 0..(Week - 1), NEW y \in 0..(Week - 1)
        PROVE  (x - y) % Week = IF x >= y THEN x - y ELSE (x - y) + Week
    BY <1>1, <1>5
  <1>6. /\ (p - r) % Week = IF p >= r THEN p - r ELSE (p - r) + Week
        /\ (c - r) % Week = IF c >= r THEN c - r ELSE (c - r) + Week
        /\ ClosedLength = IF r >= c THEN r - c ELSE (r - c) + Week
    BY <1>1, <1>2, <1>5 DEF ClosedLength
  <1>7. WeekendSleep(now, o)
          = IF c = r \/ ~(IF c < r THEN c <= s /\ s < r ELSE s >= c \/ s < r)
            THEN NoSleep ELSE (IF s < r THEN r - s ELSE Week - s + r) + Buffer
    BY DEF WeekendSleep
  <1> HIDE DEF s, p, b, c, r
  <1>8. QED
    BY <1>1, <1>2, <1>3, <1>4, <1>6, <1>7 DEF b

\* A timer armed now waits for the next candle, or sleeps over the weekend.
LEMMA NextDelayIsBounded ==
    ASSUME TypeOK, NEW o \in Offsets
    PROVE  \/ NextDelay(o) <= Interval + Buffer
           \/ WeekendSleep(now, o) # NoSleep /\ NextDelay(o) <= WeekendSleep(now, o)
  <1>1. /\ now \in Nat /\ weekend \in Weekends /\ Interval \in Nat \ {0}
        /\ Buffer \in Nat
    BY SchedulerAssumption DEF TypeOK
  <1>2. /\ now \div Interval \in Int
        /\ (now \div Interval) * Interval \in Int
        /\ (now \div Interval) * Interval <= now
    BY <1>1
  <1>3. (now \div Interval + 1) * Interval = (now \div Interval) * Interval + Interval
    BY <1>1, <1>2
  <1>4. UntilNextBoundary(now) <= Interval + Buffer
    BY <1>1, <1>2, <1>3 DEF UntilNextBoundary
  <1>5. WeekendSleep(now, o) \in Nat
    BY <1>1, WeekendSleepType
  <1>6. QED
    BY <1>4, <1>5 DEF NextDelay

\* Time: every wait shrinks, and the sleep that bounds it by no more.
LEMMA SleepAdvance ==
    ASSUME TypeOK, SleepIsBounded, Advance
    PROVE  SleepIsBounded'
  <1>1. /\ Interval \in Nat \ {0} /\ Buffer \in Nat
        /\ now \in Nat /\ weekend \in Weekends
    BY SchedulerAssumption DEF TypeOK
  <1>2. now' = (now + 1) % Week /\ weekend' = weekend
    BY DEF Advance
  <1>3. SUFFICES ASSUME NEW c \in Chains, chains'[c].at = "armed"
                 PROVE  \/ chains'[c].left <= Interval + Buffer
                        \/ chains'[c].left <= WeekendSleep(now, chains[c].clock)'
    BY DEF SleepIsBounded
  <1>4. chains[c].at = "armed"
    <2>1. chains[c].at # "armed" => chains'[c] = chains[c]
      BY DEF Advance
    <2>2. QED
      BY <1>3, <2>1
  <1>5. chains[c] \in [at : {"armed"}, symbol : Symbols, left : Nat, clock : Offsets]
    BY <1>4 DEF TypeOK, Chain, NoChain
  <1>6. chains[c].left # 0
    BY <1>4 DEF Advance, Due
  <1>7. chains'[c].left = chains[c].left - 1 /\ chains'[c].clock = chains[c].clock
    <2>1. chains'[c] = [chains[c] EXCEPT !.left = @ - 1]
      BY <1>4 DEF Advance
    <2>2. QED
      BY <1>5, <2>1
  <1>8. PICK o \in Offsets : o = chains[c].clock
    BY <1>5
  <1>9. PICK z : z = WeekendSleep(now, o)
    OBVIOUS
  <1>10. z \in Nat
    BY <1>1, <1>9, WeekendSleepType
  <1>11. z # 0 => WeekendSleep(now', o) = z - 1 \/ z = 1 + Buffer
    <2>1. WeekendSleep(now, o)' = WeekendSleep(now', o)
      BY <1>2 DEF WeekendSleep, BrokerTime, NoSleep
    <2>2. QED
      BY <1>2, <1>9, <2>1, SleepShrinks DEF NoSleep
  <1>12. WeekendSleep(now, chains[c].clock)' = WeekendSleep(now', o)
    BY <1>2, <1>7, <1>8 DEF WeekendSleep, BrokerTime, NoSleep
  <1>13. chains[c].left <= Interval + Buffer \/ chains[c].left <= z
    BY <1>4, <1>8, <1>9 DEF SleepIsBounded
  <1>14. chains[c].left \in Nat
    BY <1>5
  <1>15. CASE chains[c].left <= Interval + Buffer
    BY <1>1, <1>7, <1>14, <1>15
  <1>16. CASE chains[c].left <= z
    BY <1>1, <1>6, <1>7, <1>10, <1>11, <1>12, <1>14, <1>16
  <1>17. QED
    BY <1>13, <1>15, <1>16

(***************************************************************************)
(* Where time does not pass, every chain keeps its wait but for the one    *)
(* that is armed, and that one gets a bounded delay.                       *)
(***************************************************************************)
LEMMA SleepKept ==
    ASSUME TypeOK, SleepIsBounded, now' = now, weekend' = weekend,
           \A c \in Chains : chains'[c].at = "armed" =>
               \/ chains'[c] = chains[c]
               \/ chains'[c].left <= Interval + Buffer
               \/ chains'[c].left <= WeekendSleep(now, chains'[c].clock)
    PROVE  SleepIsBounded'
  <1>1. \A o : WeekendSleep(now, o)' = WeekendSleep(now, o)
    BY DEF WeekendSleep, BrokerTime, NoSleep
  <1>2. SUFFICES ASSUME NEW c \in Chains, chains'[c].at = "armed"
                 PROVE  \/ chains'[c].left <= Interval + Buffer
                        \/ chains'[c].left <= WeekendSleep(now, chains[c].clock)'
    BY DEF SleepIsBounded
  <1>3. WeekendSleep(now, chains[c].clock)' = WeekendSleep(now, chains'[c].clock)
    BY DEF WeekendSleep, BrokerTime, NoSleep
  <1>4. QED
    BY <1>2, <1>3 DEF SleepIsBounded

\* Every step keeps the bound.
LEMMA SleepStep == TypeOK /\ SleepIsBounded /\ [Next]_vars => SleepIsBounded'
  <1> SUFFICES ASSUME TypeOK, SleepIsBounded, [Next]_vars PROVE SleepIsBounded'
    OBVIOUS
  <1>1. CASE UNCHANGED vars
    BY <1>1 DEF vars, SleepIsBounded, WeekendSleep, BrokerTime, NoSleep
  <1>2. CASE Advance
    BY <1>2, SleepAdvance
  <1> DEFINE Kept == /\ now' = now /\ weekend' = weekend
                     /\ \A c \in Chains : chains'[c].at = "armed" =>
                            \/ chains'[c] = chains[c]
                            \/ chains'[c].left <= Interval + Buffer
                            \/ chains'[c].left <= WeekendSleep(now, chains'[c].clock)
  <1>3. ASSUME NEW id \in Subscribers, NEW s \in Symbols, Subscribe(id, s)
        PROVE  Kept
    <2>1. 0 <= Interval + Buffer
      BY SchedulerAssumption
    <2>2. \A c \in Chains : chains'[c] = chains[c] \/ chains'[c].left = 0
      BY <1>3 DEF Subscribe, Armed, TypeOK
    <2>3. QED
      BY <1>3, <2>1, <2>2 DEF Subscribe, Call
  <1>4. ASSUME NEW symbols, NEW left, Cancel(symbols, left), Call
        PROVE  Kept
    BY <1>4 DEF Cancel, Call, NoChain
  <1>5. ASSUME NEW id \in Subscribers,
               Unsubscribe(id) \/ \E s \in Symbols : RemoveSymbols(id, s)
        PROVE  Kept
    BY <1>4, <1>5 DEF Unsubscribe, RemoveSymbols, Leave
  <1>6. CASE Shutdown
    BY <1>4, <1>6, SleepKept DEF Shutdown
  <1>7. ASSUME NEW c \in Chains, NEW s, NEW schedule, NEW o \in Offsets,
               ScheduleNext(c, s, schedule, o), UNCHANGED <<now, weekend>>
        PROVE  Kept
    <2>1. \/ NextDelay(o) <= Interval + Buffer
          \/ WeekendSleep(now, o) # NoSleep /\ NextDelay(o) <= WeekendSleep(now, o)
      BY NextDelayIsBounded
    <2>2. /\ \A d \in Chains : d # c => chains'[d] = chains[d]
          /\ chains'[c].left = NextDelay(o)
          /\ WeekendSleep(now, o) # NoSleep => chains'[c].clock = o
      BY <1>7 DEF ScheduleNext, Armed, TypeOK
    <2>3. QED
      BY <1>7, <2>1, <2>2
  <1>8. ASSUME NEW c \in Chains, Wake(c) \/ RunSkips(c) \/ RunTicks(c)
        PROVE  Kept
    <2>1. CASE Wake(c)
      BY <2>1 DEF Wake, TypeOK
    <2>2. CASE RunSkips(c)
      BY <2>2 DEF RunSkips, NoChain, TypeOK
    <2>3. CASE RunTicks(c)
      <3>1. chains[c] \in [at : {"woken", "ticking"}, symbol : Symbols]
        BY <2>3 DEF RunTicks, TypeOK, Chain, NoChain
      <3>2. chains'[c].at = "ticking"
        BY <2>3, <3>1 DEF RunTicks, TypeOK
      <3>3. QED
        BY <2>3, <3>2 DEF RunTicks, TypeOK
    <2>4. QED
      BY <1>8, <2>1, <2>2, <2>3
  <1>9. ASSUME NEW c \in Chains, RunSleeps(c) \/ OnDone(c)
        PROVE  Kept
    <2>1. CASE RunSleeps(c)
      BY <1>7, <2>1 DEF RunSleeps
    <2>2. CASE OnDone(c) /\ Scheduled(chains[c].symbol)
      BY <1>7, <2>2 DEF OnDone, TypeOK
    <2>3. CASE OnDone(c) /\ ~Scheduled(chains[c].symbol)
      BY <2>3 DEF OnDone, NoChain, TypeOK
    <2>4. QED
      BY <1>9, <2>1, <2>2, <2>3
  <1>10. ASSUME NEW o \in Offsets, Measure(o)
         PROVE  Kept
    BY <1>10 DEF Measure
  <1>11. Kept => SleepIsBounded'
    BY SleepKept
  <1> HIDE DEF Kept
  <1>12. QED
    BY <1>1, <1>2, <1>3, <1>5, <1>6, <1>8, <1>9, <1>10, <1>11 DEF Next

(***************************************************************************)
(* The weekend sleep ends with the weekend: while the market is open every *)
(* timer fires within one candle and the settle buffer, whatever the       *)
(* weekend (inside the week, across its end, or none), if its delay was    *)
(* computed with the broker's true offset.  With an offset that a stale    *)
(* tick or the settings left behind, a timer may sleep on into the open    *)
(* market, but by no more than the clock was behind and no more than one   *)
(* weekend, however often the offset is measured meanwhile.                *)
(***************************************************************************)
THEOREM SleepEndsWithTheWeekend == Spec => []NoOversleep
  <1>1. Init => SleepIsBounded
    BY DEF Init, SleepIsBounded, NoChain
  <1>2. TypeOK /\ SleepIsBounded => NoOversleep
    <2> SUFFICES ASSUME TypeOK, SleepIsBounded, MarketOpen(now),
                        NEW c \in Chains, chains[c].at = "armed"
                 PROVE  \/ chains[c].left <= Interval + Buffer
                        \/ /\ chains[c].left <= Behind(chains[c].clock) + Buffer
                           /\ chains[c].left <= ClosedLength + Buffer
      BY DEF NoOversleep
    <2>1. chains[c] \in [at : {"armed"}, symbol : Symbols, left : Nat, clock : Offsets]
      BY DEF TypeOK, Chain, NoChain
    <2>2. PICK o \in Offsets : o = chains[c].clock
      BY <2>1
    <2>3. PICK z : z = WeekendSleep(now, o)
      OBVIOUS
    <2>4. z \in Nat
      BY <2>3, WeekendSleepType, SchedulerAssumption DEF TypeOK
    <2>5. \/ z = 0
          \/ z <= Behind(o) + Buffer /\ z <= ClosedLength + Buffer
      BY <2>3, OpenMarketSleep DEF NoSleep
    <2>6. chains[c].left <= Interval + Buffer \/ chains[c].left <= z
      BY <2>2, <2>3 DEF SleepIsBounded
    <2>7. /\ chains[c].left \in Nat
          /\ Interval \in Nat /\ Buffer \in Nat /\ Week \in Nat \ {0} /\ o \in Int
          /\ BrokerOffset \in Int
          /\ weekend.close \in Int /\ weekend.reopen \in Int
      BY <2>1, SchedulerAssumption DEF TypeOK
    <2>8. Behind(o) \in Int /\ ClosedLength \in Int
      BY <2>7 DEF Behind, ClosedLength
    <2>9. QED
      BY <2>2, <2>4, <2>5, <2>6, <2>7, <2>8
  <1>3. QED
    BY <1>1, <1>2, TypeCorrect, SleepStep, PTL DEF Spec
==============================================================================
