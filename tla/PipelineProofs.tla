--------------------------- MODULE PipelineProofs ----------------------------
(***************************************************************************)
(* Theorems of Pipeline, for every list of distinct sources and any number *)
(* of restarts and failures.                                               *)
(***************************************************************************)
EXTENDS Pipeline, SequenceTheorems, TLAPS

Stages == {"new", "starting", "running", "unwinding", "backoff", "done"}

\* The stages in which a supervisor's engine exists.
EngineStages == {"starting", "running", "unwinding"}

Task == [broker : Brokers, stage : Stages, cancelled : BOOLEAN, backoff : Nat]

Entry == [health : {"starting", "running", "error", "stopped"},
          restart_count : Nat, task : Nat]

\* The brokers of the deployment.
Sourced == {sources[i] : i \in DOMAIN sources}

Typed ==
    /\ sources \in SourceLists
    /\ tasks \in Seq(Task)
    /\ entry \in [Brokers -> Entry]
    /\ restarts \subseteq [broker : Brokers, awaits : Nat, call : Nat]
    /\ called \in Nat /\ failures \in Nat
    /\ phase \in {"up", "stopping", "stopped"}
    /\ mt5 \in Brokers \cup {NoBroker}
    /\ stranded \in BOOLEAN
    /\ store \in Brokers \cup {NoBroker}
    /\ raced \subseteq Brokers

\* _entries holds the sources until stop clears it.
ListedAreSources == listed = IF phase = "stopped" THEN {} ELSE Sourced

\* Supervisors serve sources, and a source's entry names one of its own.
EntriesNameTheirOwn ==
    /\ \A t \in DOMAIN tasks : tasks[t].broker \in Sourced
    /\ \A b \in Sourced : /\ entry[b].task \in DOMAIN tasks
                          /\ tasks[entry[b].task].broker = b

\* Of the supervisors of a broker, all but the one its entry names have ended.
OthersHaveEnded ==
    \A b \in Sourced \ raced : \A t \in DOMAIN tasks :
       tasks[t].broker = b /\ t # entry[b].task => Done(t)

\* A restart waits for the supervisor of the entry, and is the only one.
RestartsAwaitTheEntry ==
    \A r \in restarts :
       /\ r.broker \in Sourced /\ r.awaits \in DOMAIN tasks
       /\ r.broker \notin raced =>
             /\ r.awaits = entry[r.broker].task
             /\ \A q \in restarts : q.broker = r.broker => q = r

\* The health of an entry follows its supervisor, over the stop as well.
HealthFollows ==
    \A b \in Sourced \ raced :
       LET stage == tasks[entry[b].task].stage
       IN  /\ (entry[b].health = "running") <=> stage \in {"running", "unwinding"}
           /\ (entry[b].health = "error") <=> stage = "backoff"

\* After stop was called only the supervisors it waits for are left.
OnlyGatheredLive ==
    phase # "up" /\ raced = {} =>
       /\ restarts = {}
       /\ \A t \in DOMAIN tasks : t \in gathered \/ Done(t)

StoppedHasEnded ==
    phase = "stopped" /\ raced = {} => \A t \in DOMAIN tasks : Done(t)

\* The terminal is connected on behalf of an engine that exists, or of none
\* since a constructor failed after connecting.
TerminalHasEngine ==
    mt5 # NoBroker => \/ stranded
                      \/ \E t \in DOMAIN tasks : /\ tasks[t].broker = mt5
                                                 /\ tasks[t].stage \in EngineStages

\* A single source: its engine has the terminal and the file.
AloneHoldsBoth ==
    /\ store # NoBroker => store \in Sourced
    /\ Len(sources) = 1 =>
          \A b \in Sourced \ raced : \A t \in DOMAIN tasks :
             tasks[t].broker = b /\ tasks[t].stage \in EngineStages => mt5 = b /\ store = b

PipelineInv ==
    /\ Typed
    /\ ListedAreSources
    /\ EntriesNameTheirOwn
    /\ OthersHaveEnded
    /\ RestartsAwaitTheEntry
    /\ HealthFollows
    /\ OnlyGatheredLive
    /\ StoppedHasEnded
    /\ TerminalHasEngine
    /\ AloneHoldsBoth

-----------------------------------------------------------------------------
(***************************************************************************)
(* What the steps do                                                       *)
(***************************************************************************)

\* The smaller of two integers is one of them.
LEMMA SmallerOfTwo ==
    ASSUME NEW x \in Int, NEW y \in Int
    PROVE  Min({x, y}) \in {x, y}
  <1>1. \E m \in {x, y} : \A n \in {x, y} : m <= n
    <2>1. CASE x <= y
      BY <2>1
    <2>2. CASE ~(x <= y)
      BY <2>2
    <2>3. QED
      BY <2>1, <2>2
  <1>2. QED
    BY <1>1 DEF Min

\* A doubled and capped back-off is a length of time.
LEMMA NextBackoffType ==
    ASSUME Typed, NEW t \in DOMAIN tasks
    PROVE  NextBackoff(t) \in Nat
  <1>1. tasks[t] \in Task
    BY DEF Typed
  <1>2. tasks[t].backoff \in Nat /\ 2 * tasks[t].backoff \in Nat
    BY <1>1 DEF Task
  <1>3. MaxBackoff \in Nat
    BY PipelineAssumption
  <1>4. Min({2 * tasks[t].backoff, MaxBackoff}) \in Nat
    BY <1>2, <1>3, SmallerOfTwo
  <1>5. QED
    BY <1>2, <1>4 DEF NextBackoff

\* A supervisor that is not done changes only itself and its broker's health;
\* where it goes, and what becomes of the terminal and the file on the way.
SupervisorEffect(t) ==
    LET b == tasks[t].broker
        old == tasks[t].stage
        new == tasks'[t].stage
    IN  /\ tasks' \in Seq(Task) /\ DOMAIN tasks' = DOMAIN tasks
        /\ \A u \in DOMAIN tasks : tasks'[u].broker = tasks[u].broker
        /\ \A u \in DOMAIN tasks : u # t => tasks'[u] = tasks[u]
        /\ entry' \in [Brokers -> Entry]
        /\ \A a \in Brokers : entry'[a].task = entry[a].task
        /\ \A a \in Brokers : a # b => entry'[a].health = entry[a].health
        /\ failures' \in Nat
        /\ old # "done"
        /\ new = "running" => entry'[b].health = "running" /\ old = "starting"
        /\ new = "unwinding" => entry'[b].health = entry[b].health /\ old = "running"
        /\ new = "backoff" => entry'[b].health = "error"
        /\ new = "starting" => entry'[b].health = "starting" /\ old \in {"new", "backoff"}
        /\ new = "done" => \/ entry'[b].health = "stopped"
                           \/ old = "new" /\ entry'[b].health = entry[b].health
        /\ new # "new"
        /\ new = "starting" =>
              /\ mt5' = b
              /\ store' = Opened(b)
        /\ new \in {"running", "unwinding"} =>
              mt5' = mt5 /\ stranded' = stranded /\ store' = store
        /\ new \in {"done", "backoff"} => store' \in {store, Opened(b)}
        /\ new \in {"done", "backoff"} /\ old \in EngineStages => mt5' = NoBroker
        /\ new \in {"done", "backoff"} /\ mt5' # NoBroker =>
              \/ mt5' = mt5 /\ stranded' = stranded
              \/ mt5' = b /\ stranded' = TRUE
        /\ stranded' \in BOOLEAN
        /\ UNCHANGED <<sources, listed, restarts, called, phase, gathered, raced>>

\* Supervisor t, and no other, is at a stage.
Moved(t, stage) ==
    /\ tasks' \in Seq(Task) /\ DOMAIN tasks' = DOMAIN tasks
    /\ \A u \in DOMAIN tasks : u # t => tasks'[u] = tasks[u]
    /\ tasks'[t].stage = stage /\ tasks'[t].broker = tasks[t].broker

\* The two ways the actions write it.
LEMMA TaskUpdates ==
    ASSUME Typed, NEW t \in DOMAIN tasks, NEW stage \in Stages, NEW backoff \in Nat,
           \/ tasks' = [tasks EXCEPT ![t].stage = stage]
           \/ tasks' = [tasks EXCEPT ![t].stage = stage, ![t].backoff = backoff]
    PROVE  Moved(t, stage)
  <1>1. tasks \in Seq(Task) /\ t \in 1..Len(tasks) /\ DOMAIN tasks = 1..Len(tasks)
    BY LenProperties DEF Typed
  <1>2. tasks[t] \in Task
    BY <1>1, ElementOfSeq
  <1>3. ASSUME NEW task \in Task, tasks' = [tasks EXCEPT ![t] = task]
        PROVE  /\ tasks' \in Seq(Task) /\ DOMAIN tasks' = DOMAIN tasks
               /\ \A u \in DOMAIN tasks : u # t => tasks'[u] = tasks[u]
               /\ tasks'[t] = task
    BY <1>1, <1>3, ExceptSeq
  <1> DEFINE one == [tasks[t] EXCEPT !.stage = stage]
             two == [tasks[t] EXCEPT !.stage = stage, !.backoff = backoff]
  <1>4. one \in Task /\ one.stage = stage /\ one.broker = tasks[t].broker
    BY <1>2 DEF Task
  <1>5. two \in Task /\ two.stage = stage /\ two.broker = tasks[t].broker
    BY <1>2 DEF Task
  <1>6. /\ [tasks EXCEPT ![t].stage = stage] = [tasks EXCEPT ![t] = one]
        /\ [tasks EXCEPT ![t].stage = stage, ![t].backoff = backoff] = [tasks EXCEPT ![t] = two]
    OBVIOUS
  <1> HIDE DEF one, two
  <1>7. QED
    BY <1>3, <1>4, <1>5, <1>6 DEF Moved

\* The entry of a broker gets a health, and keeps its supervisor.
Reported(b, health) ==
    /\ entry' \in [Brokers -> Entry] /\ entry'[b].health = health
    /\ \A a \in Brokers : entry'[a].task = entry[a].task
    /\ \A a \in Brokers : a # b => entry'[a].health = entry[a].health

LEMMA EntryUpdates ==
    ASSUME Typed, NEW b \in Brokers,
           NEW health \in {"starting", "running", "error", "stopped"},
           \/ entry' = [entry EXCEPT ![b].health = health]
           \/ entry' = [entry EXCEPT ![b].health = health, ![b].restart_count = @ + 1]
    PROVE  Reported(b, health)
  <1>1. entry \in [Brokers -> Entry] /\ entry[b] \in Entry
    BY DEF Typed
  <1> DEFINE one == [entry[b] EXCEPT !.health = health]
             two == [entry[b] EXCEPT !.health = health, !.restart_count = @ + 1]
  <1>2. one \in Entry /\ one.health = health /\ one.task = entry[b].task
    BY <1>1 DEF Entry
  <1>3. two \in Entry /\ two.health = health /\ two.task = entry[b].task
    <2>1. entry[b].restart_count + 1 \in Nat
      BY <1>1 DEF Entry
    <2>2. two = [one EXCEPT !.restart_count = entry[b].restart_count + 1]
      BY <1>1 DEF Entry
    <2>3. QED
      BY <1>2, <2>1, <2>2 DEF Entry
  <1>4. entry' = [entry EXCEPT ![b] = one] \/ entry' = [entry EXCEPT ![b] = two]
    BY <1>1
  <1> HIDE DEF one, two
  <1>5. QED
    BY <1>1, <1>2, <1>3, <1>4 DEF Reported

\* Every step of a supervisor has such an effect.
LEMMA SupervisorSteps ==
    ASSUME Typed, NEW t \in DOMAIN tasks, Supervisor(t)
    PROVE  SupervisorEffect(t)
  <1> DEFINE b == tasks[t].broker
  <1>1. tasks[t] \in Task /\ b \in Brokers /\ tasks[t].backoff \in Nat
    <2>1. tasks[t] \in Task
      BY LenProperties, ElementOfSeq DEF Typed
    <2>2. QED
      BY <2>1 DEF Task
  <1>2. NextBackoff(t) \in Nat
    BY NextBackoffType
  <1>3. /\ entry \in [Brokers -> Entry] /\ failures \in Nat /\ failures + 1 \in Nat
        /\ stranded \in BOOLEAN
    BY DEF Typed
  <1> USE DEF EngineStages, Unmanaged, Moved, Reported
  <1>4. CASE NeverRuns(t) \/ FindsNoEntry(t)
    <2>1. Moved(t, "done")
      BY <1>1, <1>4, TaskUpdates DEF NeverRuns, FindsNoEntry, Move, Stages
    <2>2. QED
      BY <1>3, <1>4, <2>1 DEF NeverRuns, FindsNoEntry, SupervisorEffect
  <1>5. CASE Construct(t)
    <2>1. Moved(t, "starting")
      BY <1>2, <1>5, TaskUpdates DEF Construct, Stages
    <2>2. Reported(b, "starting")
      BY <1>1, <1>5, EntryUpdates DEF Construct, Health
    <2>3. QED
      BY <1>3, <1>5, <2>1, <2>2 DEF Construct, Begins, SupervisorEffect
  <1>6. CASE ConstructFails(t)
    <2>1. Moved(t, "backoff")
      BY <1>2, <1>6, TaskUpdates DEF ConstructFails, Fails, Stages
    <2>2. Reported(b, "error")
      BY <1>1, <1>6, EntryUpdates DEF ConstructFails, Fails
    <2>3. /\ store' \in {store, Opened(b)}
          /\ mt5' # NoBroker => \/ mt5' = mt5 /\ stranded' = stranded
                                \/ mt5' = b /\ stranded' = TRUE
          /\ stranded' \in BOOLEAN
      <3>1. CASE FailsUnconnected
        BY <1>3, <3>1 DEF FailsUnconnected
      <3>2. CASE FailsConnected(b)
        BY <3>2 DEF FailsConnected
      <3>3. QED
        BY <1>6, <3>1, <3>2 DEF ConstructFails
    <2>4. QED
      BY <1>3, <1>6, <2>1, <2>2, <2>3 DEF ConstructFails, Begins, Fails, SupervisorEffect
  <1>7. CASE Started(t)
    <2>1. Moved(t, "running")
      BY <1>1, <1>7, TaskUpdates DEF Started, Move, Stages
    <2>2. Reported(b, "running")
      BY <1>1, <1>7, EntryUpdates DEF Started, Health
    <2>3. QED
      BY <1>3, <1>7, <2>1, <2>2 DEF Started, SupervisorEffect
  <1>8. CASE StartFails(t)
    <2>1. Moved(t, "backoff")
      BY <1>1, <1>8, TaskUpdates DEF StartFails, Fails, Stages
    <2>2. Reported(b, "error")
      BY <1>1, <1>8, EntryUpdates DEF StartFails, Fails
    <2>3. QED
      BY <1>3, <1>8, <2>1, <2>2 DEF StartFails, Fails, SupervisorEffect
  <1>9. CASE Unwinds(t)
    <2>1. Moved(t, "unwinding")
      BY <1>1, <1>9, TaskUpdates DEF Unwinds, Move, Stages
    <2>2. QED
      BY <1>3, <1>9, <2>1 DEF Unwinds, SupervisorEffect
  <1>10. CASE EngineStops(t)
    <2>1. Moved(t, "done")
      BY <1>1, <1>10, TaskUpdates DEF EngineStops, Move, Stages
    <2>2. Reported(b, "stopped")
      BY <1>1, <1>10, EntryUpdates DEF EngineStops, Health
    <2>3. QED
      BY <1>3, <1>10, <2>1, <2>2 DEF EngineStops, SupervisorEffect
  <1>11. CASE BackoffCancelled(t)
    <2>1. Moved(t, "done")
      BY <1>1, <1>11, TaskUpdates DEF BackoffCancelled, Move, Stages
    <2>2. Reported(b, "stopped")
      BY <1>1, <1>11, EntryUpdates DEF BackoffCancelled, Health
    <2>3. QED
      BY <1>3, <1>11, <2>1, <2>2 DEF BackoffCancelled, SupervisorEffect
  <1>12. QED
    BY <1>4, <1>5, <1>6, <1>7, <1>8, <1>9, <1>10, <1>11 DEF Supervisor

-----------------------------------------------------------------------------
(***************************************************************************)
(* The invariant                                                           *)
(***************************************************************************)

\* start: one supervisor per source, all new.
LEMMA InitInv == Init => PipelineInv
  <1> SUFFICES ASSUME Init PROVE PipelineInv
    OBVIOUS
  <1>1. PICK s \in SourceLists :
           /\ sources = s
           /\ listed = {s[i] : i \in DOMAIN s}
           /\ tasks = [i \in DOMAIN s |-> NewTask(s[i])]
           /\ entry = [b \in Brokers |->
                         [health |-> "starting", restart_count |-> 0,
                          task |-> IF b \in {s[i] : i \in DOMAIN s}
                                   THEN CHOOSE i \in DOMAIN s : s[i] = b ELSE 0]]
    BY DEF Init
  <1>2. /\ restarts = {} /\ called = 0 /\ failures = 0 /\ phase = "up"
        /\ mt5 = NoBroker /\ stranded = FALSE /\ store = NoBroker /\ raced = {}
    BY DEF Init
  <1>3. /\ Len(s) \in Nat /\ DOMAIN s = 1..Len(s)
        /\ \A i \in DOMAIN s : s[i] \in Brokers
    BY PipelineAssumption
  <1>4. \A i \in DOMAIN s : NewTask(s[i]) \in Task
    BY <1>3, PipelineAssumption DEF NewTask, Task, Stages
  <1>5. tasks \in [1..Len(s) -> Task] /\ DOMAIN tasks = DOMAIN s
    BY <1>1, <1>3, <1>4
  <1>6. tasks \in Seq(Task)
    BY <1>3, <1>5, SeqDef
  <1>7. \A b \in {s[i] : i \in DOMAIN s} :
           /\ (CHOOSE i \in DOMAIN s : s[i] = b) \in DOMAIN s
           /\ s[CHOOSE i \in DOMAIN s : s[i] = b] = b
    OBVIOUS
  <1>8. entry \in [Brokers -> Entry]
    <2>1. \A b \in Brokers :
             (IF b \in {s[i] : i \in DOMAIN s} THEN CHOOSE i \in DOMAIN s : s[i] = b ELSE 0) \in Nat
      BY <1>3, <1>7
    <2>2. QED
      BY <1>1, <2>1 DEF Entry
  <1>9. \A b \in Sourced : /\ b \in Brokers /\ entry[b].task \in DOMAIN tasks
                            /\ s[entry[b].task] = b /\ entry[b].health = "starting"
    BY <1>1, <1>3, <1>5, <1>7 DEF Sourced
  <1>10. \A t \in DOMAIN tasks : tasks[t].broker = s[t] /\ tasks[t].stage = "new"
    BY <1>1, <1>5 DEF NewTask
  <1>11. \A i, j \in DOMAIN s : s[i] = s[j] => i = j
    BY PipelineAssumption
  <1>12. Typed
    BY <1>1, <1>2, <1>6, <1>8 DEF Typed
  <1>13. ListedAreSources /\ EntriesNameTheirOwn /\ OthersHaveEnded
    <2>1. ListedAreSources
      BY <1>1, <1>2 DEF ListedAreSources, Sourced
    <2>2. EntriesNameTheirOwn
      BY <1>1, <1>5, <1>9, <1>10 DEF EntriesNameTheirOwn, Sourced
    <2>3. OthersHaveEnded
      BY <1>5, <1>9, <1>10, <1>11 DEF OthersHaveEnded
    <2>4. QED
      BY <2>1, <2>2, <2>3
  <1>14. HealthFollows
    BY <1>9, <1>10 DEF HealthFollows
  <1>15. QED
    BY <1>2, <1>12, <1>13, <1>14, <1>10
       DEF PipelineInv, RestartsAwaitTheEntry, OnlyGatheredLive, StoppedHasEnded,
           TerminalHasEngine, AloneHoldsBoth, EngineStages

\* A supervisor at work: outside raced it is the one its entry names.
LEMMA SupervisorKeeps ==
    ASSUME PipelineInv, NEW t \in DOMAIN tasks, SupervisorEffect(t)
    PROVE  PipelineInv'
  <1> DEFINE b == tasks[t].broker
  <1>1. /\ Typed /\ ListedAreSources /\ EntriesNameTheirOwn /\ OthersHaveEnded
        /\ RestartsAwaitTheEntry /\ HealthFollows /\ OnlyGatheredLive
        /\ StoppedHasEnded /\ TerminalHasEngine /\ AloneHoldsBoth
    BY DEF PipelineInv
  <1>2. /\ b \in Sourced /\ Sourced \subseteq Brokers /\ Sourced' = Sourced
        /\ b \in Brokers /\ NoBroker \notin Brokers
    BY <1>1, PipelineAssumption DEF EntriesNameTheirOwn, Sourced, Typed, SupervisorEffect
  <1>3. b \notin raced => t = entry[b].task
    BY <1>1, <1>2 DEF OthersHaveEnded, SupervisorEffect, Done
  <1>4. /\ DOMAIN tasks' = DOMAIN tasks
        /\ \A u \in DOMAIN tasks : tasks'[u].broker = tasks[u].broker
        /\ \A u \in DOMAIN tasks : u # t => tasks'[u].stage = tasks[u].stage
        /\ \A a \in Brokers : entry'[a].task = entry[a].task
        /\ UNCHANGED <<sources, listed, restarts, called, phase, gathered, raced>>
        /\ tasks'[t].stage \in Stages /\ tasks[t].stage \in Stages \ {"done"}
    <2>1. tasks[t] \in Task /\ tasks'[t] \in Task
      BY <1>1, LenProperties, ElementOfSeq DEF Typed, SupervisorEffect
    <2>2. QED
      BY <2>1 DEF Task, SupervisorEffect
  <1>5. Typed'
    <2>1. store' \in Brokers \cup {NoBroker}
      BY <1>1, <1>2, <1>4 DEF Typed, SupervisorEffect, Stages, Opened
    <2>2. mt5' \in Brokers \cup {NoBroker} /\ stranded' \in BOOLEAN
      BY <1>1, <1>2, <1>4 DEF Typed, SupervisorEffect, Stages
    <2>3. QED
      BY <1>1, <1>2, <1>4, <2>1, <2>2 DEF Typed, SupervisorEffect
  <1>6. ListedAreSources' /\ EntriesNameTheirOwn'
    BY <1>1, <1>2, <1>4 DEF ListedAreSources, EntriesNameTheirOwn
  <1>7. OthersHaveEnded'
    BY <1>1, <1>2, <1>3, <1>4 DEF OthersHaveEnded, Done
  <1>8. RestartsAwaitTheEntry'
    BY <1>1, <1>2, <1>4 DEF RestartsAwaitTheEntry
  <1>9. HealthFollows'
    <2> SUFFICES ASSUME NEW a \in Sourced \ raced
                 PROVE  LET stage == tasks'[entry'[a].task].stage
                        IN  /\ (entry'[a].health = "running") <=> stage \in {"running", "unwinding"}
                            /\ (entry'[a].health = "error") <=> stage = "backoff"
      BY <1>2, <1>4 DEF HealthFollows
    <2>1. CASE a = b
      BY <1>1, <1>2, <1>3, <1>4, <2>1 DEF HealthFollows, SupervisorEffect, Stages
    <2>2. CASE a # b
      <3>1. entry[a].task # t /\ entry[a].task \in DOMAIN tasks
        BY <1>1, <2>2 DEF EntriesNameTheirOwn
      <3>2. entry'[a].health = entry[a].health
        BY <1>2, <2>2 DEF SupervisorEffect
      <3>3. QED
        BY <1>1, <1>2, <1>4, <3>1, <3>2 DEF HealthFollows
    <2>3. QED
      BY <2>1, <2>2
  <1>10. OnlyGatheredLive' /\ StoppedHasEnded'
    BY <1>1, <1>4 DEF OnlyGatheredLive, StoppedHasEnded, Done
  <1>11. TerminalHasEngine'
    BY <1>1, <1>2, <1>4 DEF TerminalHasEngine, SupervisorEffect, EngineStages, Stages
  <1>12. AloneHoldsBoth'
    <2>1. (store # NoBroker => store \in Sourced)'
      BY <1>1, <1>2, <1>4 DEF AloneHoldsBoth, SupervisorEffect, Opened, Stages
    <2>2. ASSUME Len(sources) = 1, NEW a \in Sourced \ raced, NEW u \in DOMAIN tasks,
                 tasks'[u].broker = a, tasks'[u].stage \in EngineStages
          PROVE  mt5' = a /\ store' = a
      <3>1. a = b
        <4>1. DOMAIN sources = 1..1
          BY <1>1, <2>2, PipelineAssumption DEF Typed
        <4>2. QED
          BY <1>2, <4>1 DEF Sourced
      <3>2. u = t
        BY <1>1, <1>2, <1>3, <1>4, <2>2, <3>1 DEF OthersHaveEnded, Done, EngineStages
      <3>3. CASE tasks'[t].stage = "starting"
        <4>1. store \in {b, NoBroker}
          <5>1. DOMAIN sources = 1..1
            BY <1>1, <2>2, PipelineAssumption DEF Typed
          <5>2. QED
            BY <1>1, <1>2, <5>1 DEF AloneHoldsBoth, Sourced
        <4>2. QED
          BY <3>1, <3>3, <4>1 DEF SupervisorEffect, Opened
      <3>4. CASE tasks'[t].stage # "starting"
        BY <1>1, <1>4, <2>2, <3>1, <3>2, <3>4 DEF AloneHoldsBoth, SupervisorEffect, EngineStages
      <3>5. QED
        BY <3>3, <3>4
    <2>3. QED
      BY <1>2, <1>4, <2>1, <2>2 DEF AloneHoldsBoth
  <1>13. QED
    BY <1>5, <1>6, <1>7, <1>8, <1>9, <1>10, <1>11, <1>12 DEF PipelineInv

\* A fresh supervisor for the entry of b, once all its others have ended.
LEMMA RespawnKeeps ==
    ASSUME PipelineInv, NEW b \in Sourced, Respawn(b),
           b \notin raced' => \A t \in DOMAIN tasks : tasks[t].broker = b => Done(t),
           \A r \in restarts' : r \in restarts /\ (r.broker = b => b \in raced'),
           raced \subseteq raced', raced' \subseteq Brokers, called' \in Nat,
           phase # "up" => raced' # {},
           UNCHANGED <<sources, listed, failures, phase, gathered, mt5, stranded, store>>
    PROVE  PipelineInv'
  <1> DEFINE n == Len(tasks) + 1
  <1>1. /\ Typed /\ ListedAreSources /\ EntriesNameTheirOwn /\ OthersHaveEnded
        /\ RestartsAwaitTheEntry /\ HealthFollows /\ OnlyGatheredLive
        /\ StoppedHasEnded /\ TerminalHasEngine /\ AloneHoldsBoth
    BY DEF PipelineInv
  <1>2. Sourced \subseteq Brokers /\ Sourced' = Sourced
    BY <1>1, PipelineAssumption DEF Sourced, Typed
  <1>3. NewTask(b) \in Task
    BY <1>2, PipelineAssumption DEF NewTask, Task, Stages
  <1>4. tasks \in Seq(Task) /\ Len(tasks) \in Nat /\ DOMAIN tasks = 1..Len(tasks)
    BY <1>1, LenProperties DEF Typed
  <1>5. /\ tasks' \in Seq(Task) /\ DOMAIN tasks' = DOMAIN tasks \cup {n} /\ n \notin DOMAIN tasks
        /\ \A t \in DOMAIN tasks : tasks'[t] = tasks[t]
        /\ tasks'[n].broker = b /\ tasks'[n].stage = "new"
    <2>1. /\ tasks' \in Seq(Task) /\ Len(tasks') = n
          /\ \A t \in 1..Len(tasks) : tasks'[t] = tasks[t]
          /\ tasks'[n] = NewTask(b)
      BY <1>3, <1>4, AppendProperties DEF Respawn
    <2>2. DOMAIN tasks' = 1..n
      BY <2>1, LenProperties
    <2>3. QED
      BY <1>4, <2>1, <2>2 DEF NewTask
  <1>6. /\ entry' \in [Brokers -> Entry]
        /\ \A a \in Brokers : a # b => entry'[a] = entry[a]
        /\ entry'[b].task = n /\ entry'[b].health = entry[b].health
    <2>1. entry \in [Brokers -> Entry] /\ entry[b] \in Entry /\ b \in Brokers
      BY <1>1, <1>2 DEF Typed
    <2>2. entry' = [entry EXCEPT ![b] = [entry[b] EXCEPT !.restart_count = 0, !.task = n]]
      BY <2>1 DEF Respawn
    <2>3. /\ [entry[b] EXCEPT !.restart_count = 0, !.task = n] \in Entry
          /\ [entry[b] EXCEPT !.restart_count = 0, !.task = n].task = n
          /\ [entry[b] EXCEPT !.restart_count = 0, !.task = n].health = entry[b].health
      <3>1. n \in Nat
        BY <1>4
      <3> HIDE DEF n
      <3>2. QED
        BY <2>1, <3>1 DEF Entry
    <2>4. QED
      BY <2>1, <2>2, <2>3
  <1> HIDE DEF n
  <1>7. Typed'
    BY <1>1, <1>5, <1>6 DEF Typed
  <1>8. ListedAreSources' /\ EntriesNameTheirOwn'
    BY <1>1, <1>2, <1>5, <1>6 DEF ListedAreSources, EntriesNameTheirOwn
  <1>9. OthersHaveEnded'
    BY <1>1, <1>2, <1>5, <1>6 DEF OthersHaveEnded, Done
  <1>10. RestartsAwaitTheEntry'
    BY <1>1, <1>2, <1>5, <1>6 DEF RestartsAwaitTheEntry
  <1>11. HealthFollows'
    <2> SUFFICES ASSUME NEW a \in Sourced \ raced'
                 PROVE  LET stage == tasks'[entry'[a].task].stage
                        IN  /\ (entry'[a].health = "running") <=> stage \in {"running", "unwinding"}
                            /\ (entry'[a].health = "error") <=> stage = "backoff"
      BY <1>2 DEF HealthFollows
    <2>1. entry[a].task \in DOMAIN tasks /\ tasks[entry[a].task].broker = a
      BY <1>1 DEF EntriesNameTheirOwn
    <2>2. CASE a = b
      BY <1>1, <1>5, <1>6, <2>1, <2>2 DEF HealthFollows, Done
    <2>3. CASE a # b
      BY <1>1, <1>2, <1>5, <1>6, <2>1, <2>3 DEF HealthFollows
    <2>4. QED
      BY <2>2, <2>3
  <1>12. OnlyGatheredLive' /\ StoppedHasEnded'
    BY <1>1 DEF OnlyGatheredLive, StoppedHasEnded, Typed
  <1>13. TerminalHasEngine'
    BY <1>1, <1>5 DEF TerminalHasEngine
  <1>14. AloneHoldsBoth'
    BY <1>1, <1>2, <1>5 DEF AloneHoldsBoth, EngineStages
  <1>15. QED
    BY <1>7, <1>8, <1>9, <1>10, <1>11, <1>12, <1>13, <1>14 DEF PipelineInv

\* restart of a supervisor that has ended.
LEMMA RestartEndedKeeps ==
    ASSUME PipelineInv, NEW b \in Brokers, RestartEnded(b)
    PROVE  PipelineInv'
  <1>1. /\ Typed /\ ListedAreSources /\ OthersHaveEnded
    BY DEF PipelineInv
  <1>2. b \in Sourced /\ Done(entry[b].task)
    BY <1>1 DEF RestartEnded, Call, ListedAreSources
  <1>3. b \notin raced' => \A t \in DOMAIN tasks : tasks[t].broker = b => Done(t)
    BY <1>1, <1>2 DEF RestartEnded, Call, OthersHaveEnded
  <1>4. /\ raced \subseteq raced' /\ raced' \subseteq Brokers /\ called' \in Nat
        /\ phase # "up" => raced' # {}
        /\ \A r \in restarts' : r \in restarts /\ (r.broker = b => b \in raced')
    <2>1. raced' = IF phase # "up" \/ \E r \in restarts : r.broker = b
                   THEN raced \cup {b} ELSE raced
      BY DEF RestartEnded, Call
    <2>2. called' = called + 1 /\ restarts' = restarts
      BY DEF RestartEnded, Call
    <2>3. called \in Nat /\ raced \subseteq Brokers
      BY <1>1 DEF Typed
    <2>4. QED
      BY <2>1, <2>2, <2>3
  <1>5. QED
    BY <1>2, <1>3, <1>4, RespawnKeeps DEF RestartEnded

\* restart of a supervisor that was awaited and has ended.
LEMMA RestartResumesKeeps ==
    ASSUME PipelineInv, NEW r \in restarts, RestartResumes(r)
    PROVE  PipelineInv'
  <1> DEFINE b == r.broker
  <1>1. /\ Typed /\ OthersHaveEnded /\ RestartsAwaitTheEntry /\ OnlyGatheredLive
    BY DEF PipelineInv
  <1>2. b \in Sourced
    BY <1>1 DEF RestartsAwaitTheEntry
  <1>3. b \notin raced' => \A t \in DOMAIN tasks : tasks[t].broker = b => Done(t)
    BY <1>1, <1>2 DEF RestartResumes, RestartsAwaitTheEntry, OthersHaveEnded
  <1>4. /\ raced \subseteq raced' /\ raced' \subseteq Brokers /\ called' \in Nat
        /\ phase # "up" => raced' # {}
    BY <1>1 DEF RestartResumes, Typed, OnlyGatheredLive
  <1>5. \A q \in restarts' : q \in restarts /\ (q.broker = b => b \in raced')
    BY <1>1 DEF RestartResumes, RestartsAwaitTheEntry
  <1>6. QED
    BY <1>2, <1>3, <1>4, <1>5, RespawnKeeps DEF RestartResumes

\* A cancellation is noted; nothing else changes about the supervisors.
LEMMA CancelEffect ==
    ASSUME Typed, NEW ts, Cancel(ts)
    PROVE  /\ tasks' \in Seq(Task) /\ DOMAIN tasks' = DOMAIN tasks
           /\ \A t \in DOMAIN tasks : /\ tasks'[t].broker = tasks[t].broker
                                      /\ tasks'[t].stage = tasks[t].stage
  <1>1. tasks \in Seq(Task) /\ Len(tasks) \in Nat /\ DOMAIN tasks = 1..Len(tasks)
    BY LenProperties DEF Typed
  <1>2. \A t \in DOMAIN tasks : tasks[t] \in Task
    BY <1>1, ElementOfSeq
  <1>3. \A t \in DOMAIN tasks :
           /\ [tasks[t] EXCEPT !.cancelled = TRUE] \in Task
           /\ [tasks[t] EXCEPT !.cancelled = TRUE].broker = tasks[t].broker
           /\ [tasks[t] EXCEPT !.cancelled = TRUE].stage = tasks[t].stage
    BY <1>2 DEF Task
  <1>4. /\ tasks' \in [1..Len(tasks) -> Task] /\ DOMAIN tasks' = DOMAIN tasks
        /\ \A t \in DOMAIN tasks : /\ tasks'[t].broker = tasks[t].broker
                                   /\ tasks'[t].stage = tasks[t].stage
    BY <1>1, <1>2, <1>3 DEF Cancel
  <1>5. tasks' \in Seq(Task)
    BY <1>1, <1>4, SeqDef
  <1>6. QED
    BY <1>4, <1>5

\* What a step keeps that moves no supervisor and only adds to raced.
LEMMA StillKeeps ==
    ASSUME PipelineInv,
           tasks' \in Seq(Task), DOMAIN tasks' = DOMAIN tasks,
           \A t \in DOMAIN tasks : /\ tasks'[t].broker = tasks[t].broker
                                  /\ tasks'[t].stage = tasks[t].stage,
           raced \subseteq raced',
           UNCHANGED <<sources, entry, mt5, stranded, store>>
    PROVE  /\ Sourced' = Sourced
           /\ EntriesNameTheirOwn' /\ OthersHaveEnded' /\ HealthFollows'
           /\ TerminalHasEngine' /\ AloneHoldsBoth'
  <1>1. /\ EntriesNameTheirOwn /\ OthersHaveEnded /\ HealthFollows
        /\ TerminalHasEngine /\ AloneHoldsBoth
    BY DEF PipelineInv
  <1>2. Sourced' = Sourced
    BY DEF Sourced
  <1>3. EntriesNameTheirOwn'
    BY <1>1, <1>2 DEF EntriesNameTheirOwn
  <1>4. OthersHaveEnded'
    BY <1>1, <1>2 DEF OthersHaveEnded, Done
  <1>5. HealthFollows'
    BY <1>1, <1>2 DEF HealthFollows, EntriesNameTheirOwn
  <1>6. TerminalHasEngine'
    BY <1>1 DEF TerminalHasEngine
  <1>7. AloneHoldsBoth'
    BY <1>1, <1>2 DEF AloneHoldsBoth
  <1>8. QED
    BY <1>2, <1>3, <1>4, <1>5, <1>6, <1>7

\* restart cancels the live supervisor of the entry and waits for it.
LEMMA RestartLiveKeeps ==
    ASSUME PipelineInv, NEW b \in Brokers, RestartLive(b)
    PROVE  PipelineInv'
  <1> DEFINE wait == [broker |-> b, awaits |-> entry[b].task, call |-> called]
  <1>1. /\ Typed /\ ListedAreSources /\ EntriesNameTheirOwn
        /\ RestartsAwaitTheEntry /\ OnlyGatheredLive /\ StoppedHasEnded
    BY DEF PipelineInv
  <1>2. /\ Cancel({entry[b].task}) /\ restarts' = restarts \cup {wait}
        /\ called' = called + 1
        /\ raced' = IF phase # "up" \/ \E r \in restarts : r.broker = b
                    THEN raced \cup {b} ELSE raced
        /\ UNCHANGED <<sources, entry, listed, failures, phase, gathered, mt5, stranded, store>>
    BY DEF RestartLive, Call
  <1>3. /\ tasks' \in Seq(Task) /\ DOMAIN tasks' = DOMAIN tasks
        /\ \A t \in DOMAIN tasks : /\ tasks'[t].broker = tasks[t].broker
                                   /\ tasks'[t].stage = tasks[t].stage
    BY <1>1, <1>2, CancelEffect
  <1>4. b \in Sourced
    BY <1>1 DEF RestartLive, Call, ListedAreSources
  <1>5. /\ Sourced' = Sourced
        /\ EntriesNameTheirOwn' /\ OthersHaveEnded' /\ HealthFollows'
        /\ TerminalHasEngine' /\ AloneHoldsBoth'
    BY <1>2, <1>3, StillKeeps
  <1>6. wait \in [broker : Brokers, awaits : Nat, call : Nat]
    BY <1>1 DEF Typed, Entry
  <1>7. Typed'
    <2>1. called' \in Nat
      BY <1>1, <1>2 DEF Typed
    <2>2. QED
      BY <1>1, <1>2, <1>3, <1>6, <2>1 DEF Typed
  <1>8. ListedAreSources'
    BY <1>1, <1>2, <1>5 DEF ListedAreSources
  <1>9. RestartsAwaitTheEntry'
    BY <1>1, <1>2, <1>3, <1>4, <1>5 DEF RestartsAwaitTheEntry, EntriesNameTheirOwn
  <1>10. OnlyGatheredLive' /\ StoppedHasEnded'
    BY <1>1, <1>2 DEF OnlyGatheredLive, StoppedHasEnded, Typed
  <1>11. QED
    BY <1>5, <1>7, <1>8, <1>9, <1>10 DEF PipelineInv

\* stop up to its gather: without a race every live supervisor is in it.
LEMMA StopKeeps ==
    ASSUME PipelineInv, Stop
    PROVE  PipelineInv'
  <1>1. /\ Typed /\ ListedAreSources /\ EntriesNameTheirOwn /\ OthersHaveEnded
        /\ RestartsAwaitTheEntry
    BY DEF PipelineInv
  <1>2. /\ phase = "up" /\ phase' = "stopping" /\ gathered' = Live /\ Cancel(Live)
        /\ raced' = raced \cup {r.broker : r \in restarts}
        /\ UNCHANGED <<sources, entry, listed, restarts, called, failures, mt5, stranded, store>>
    BY DEF Stop
  <1>3. /\ tasks' \in Seq(Task) /\ DOMAIN tasks' = DOMAIN tasks
        /\ \A t \in DOMAIN tasks : /\ tasks'[t].broker = tasks[t].broker
                                   /\ tasks'[t].stage = tasks[t].stage
    BY <1>1, <1>2, CancelEffect
  <1>4. /\ Sourced' = Sourced
        /\ EntriesNameTheirOwn' /\ OthersHaveEnded' /\ HealthFollows'
        /\ TerminalHasEngine' /\ AloneHoldsBoth'
    BY <1>2, <1>3, StillKeeps
  <1>5. Typed'
    BY <1>1, <1>2, <1>3 DEF Typed
  <1>6. ListedAreSources'
    BY <1>1, <1>2, <1>4 DEF ListedAreSources
  <1>7. RestartsAwaitTheEntry'
    BY <1>1, <1>2, <1>3, <1>4 DEF RestartsAwaitTheEntry
  <1>8. OnlyGatheredLive'
    <2> SUFFICES ASSUME raced' = {}
                 PROVE  restarts' = {} /\ \A t \in DOMAIN tasks' : t \in gathered' \/ Done(t)'
      BY DEF OnlyGatheredLive
    <2>1. restarts = {} /\ raced = {}
      BY <1>2
    <2>2. ASSUME NEW t \in DOMAIN tasks PROVE t \in Live \/ Done(t)
      <3>1. tasks[t].broker \in Sourced /\ listed = Sourced
        BY <1>1, <1>2 DEF EntriesNameTheirOwn, ListedAreSources
      <3>2. t # entry[tasks[t].broker].task => Done(t)
        BY <1>1, <2>1, <3>1 DEF OthersHaveEnded
      <3>3. QED
        BY <3>1, <3>2 DEF Live
    <2>3. QED
      BY <1>2, <1>3, <2>1, <2>2 DEF Done
  <1>9. StoppedHasEnded'
    BY <1>2 DEF StoppedHasEnded
  <1>10. QED
    BY <1>4, <1>5, <1>6, <1>7, <1>8, <1>9 DEF PipelineInv

\* stop returns when what it gathered has ended, and clears _entries.
LEMMA StopReturnsKeeps ==
    ASSUME PipelineInv, StopReturns
    PROVE  PipelineInv'
  <1>1. /\ Typed /\ ListedAreSources /\ RestartsAwaitTheEntry /\ OnlyGatheredLive
    BY DEF PipelineInv
  <1>2. /\ phase = "stopping" /\ phase' = "stopped" /\ listed' = {}
        /\ \A t \in gathered : Done(t)
        /\ UNCHANGED <<sources, tasks, entry, restarts, called, failures, gathered, mt5, stranded, store, raced>>
    BY DEF StopReturns
  <1>3. /\ Sourced' = Sourced
        /\ EntriesNameTheirOwn' /\ OthersHaveEnded' /\ HealthFollows'
        /\ TerminalHasEngine' /\ AloneHoldsBoth'
    BY <1>1, <1>2, StillKeeps DEF Typed
  <1>4. Typed' /\ ListedAreSources'
    BY <1>1, <1>2 DEF Typed, ListedAreSources
  <1>5. RestartsAwaitTheEntry'
    BY <1>1, <1>2, <1>3 DEF RestartsAwaitTheEntry
  <1>6. OnlyGatheredLive' /\ StoppedHasEnded'
    BY <1>1, <1>2 DEF OnlyGatheredLive, StoppedHasEnded, Done
  <1>7. QED
    BY <1>3, <1>4, <1>5, <1>6 DEF PipelineInv

\* Every step keeps the invariant.
LEMMA NextInv == PipelineInv /\ [Next]_vars => PipelineInv'
  <1> SUFFICES ASSUME PipelineInv, [Next]_vars PROVE PipelineInv'
    OBVIOUS
  <1>1. ASSUME NEW t \in DOMAIN tasks, Supervisor(t) PROVE PipelineInv'
    <2>1. SupervisorEffect(t)
      BY <1>1, SupervisorSteps DEF PipelineInv
    <2>2. QED
      BY <1>1, <2>1, SupervisorKeeps
  <1>2. ASSUME NEW b \in Brokers, RestartEnded(b) \/ RestartLive(b) PROVE PipelineInv'
    BY <1>2, RestartEndedKeeps, RestartLiveKeeps
  <1>3. ASSUME NEW r \in restarts, RestartResumes(r) PROVE PipelineInv'
    BY <1>3, RestartResumesKeeps
  <1>4. CASE Stop \/ StopReturns
    BY <1>4, StopKeeps, StopReturnsKeeps
  <1>5. CASE UNCHANGED vars
    BY <1>5 DEF vars, PipelineInv, Typed, ListedAreSources, EntriesNameTheirOwn,
                OthersHaveEnded, RestartsAwaitTheEntry, HealthFollows, OnlyGatheredLive,
                StoppedHasEnded, TerminalHasEngine, AloneHoldsBoth, Sourced, Done
  <1>6. QED
    BY <1>1, <1>2, <1>3, <1>4, <1>5 DEF Next

LEMMA Invariance == Spec => []PipelineInv
  BY InitInv, NextInv, PTL DEF Spec

-----------------------------------------------------------------------------
(***************************************************************************)
(* The theorems                                                            *)
(***************************************************************************)

(***************************************************************************)
(* A broker has one engine, the one its entry names, however failures,     *)
(* cancellations and restarts fall together (_supervise, restart).         *)
(***************************************************************************)
THEOREM OneEnginePerBroker == Spec => []OneEngine
  <1>1. PipelineInv => OneEngine
    BY DEF PipelineInv, ListedAreSources, OthersHaveEnded, OneEngine, Engines, Done
  <1>2. QED
    BY <1>1, Invariance, PTL

(***************************************************************************)
(* What get_stats reports as connected or failed is so.                    *)
(***************************************************************************)
THEOREM HealthTellsTheTruth == Spec => []HealthIsTrue
  <1>1. PipelineInv => HealthIsTrue
    BY DEF PipelineInv, ListedAreSources, HealthFollows, HealthIsTrue
  <1>2. QED
    BY <1>1, Invariance, PTL

(***************************************************************************)
(* After stop no supervisor is left to bring up an engine, unless a        *)
(* restart overlapped it; and the process is disconnected from MT5, unless *)
(* the last to touch the terminal was a constructor that connected and     *)
(* then failed (the SignalEngine of _run_engine, outside its try).         *)
(***************************************************************************)
THEOREM StopLeavesNothing == Spec => []StopIsClean
  <1>1. PipelineInv => StopIsClean
    BY DEF PipelineInv, StoppedHasEnded, TerminalHasEngine, EngineStages, StopIsClean, Done
  <1>2. QED
    BY <1>1, Invariance, PTL

(***************************************************************************)
(* The engine of a single source keeps its terminal and its file.          *)
(***************************************************************************)
THEOREM AloneStaysIsolated == Spec => []AloneIsIsolated
  <1>1. PipelineInv => AloneIsIsolated
    BY DEF PipelineInv, ListedAreSources, AloneHoldsBoth, EngineStages, AloneIsIsolated,
           Isolated, Engines
  <1>2. QED
    BY <1>1, Invariance, PTL
==============================================================================
