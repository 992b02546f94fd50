------------------------------- MODULE Pipeline ------------------------------
(***************************************************************************)
(* PipelineManager: one supervisor task per broker, which constructs and   *)
(* starts the broker's SignalEngine, waits for its cancellation, and tries *)
(* again after a back-off when the engine could not be brought up.         *)
(*                                                                         *)
(* All tasks share one event loop; a step leads from one suspension to the *)
(* next.  A cancellation is noted and takes effect when the task runs      *)
(* again.  Engines share more than the loop: the MT5 library holds one     *)
(* connection per process, and the signal store one SQLite connection per  *)
(* thread, opened by the first store constructed.                          *)
(***************************************************************************)
EXTENDS Integers, Sequences, FiniteSets, FiniteSetsExt

CONSTANTS
    Brokers,
    SourceLists,   \* the configured sources, in order: sequences of brokers
    InitBackoff,   \* _INIT_BACKOFF
    MaxBackoff,    \* _MAX_BACKOFF
    NoBroker,
    MaxRestarts,   \* bound: calls of restart
    MaxFailures    \* bound: engines that cannot be brought up

ASSUME PipelineAssumption ==
    /\ \A s \in SourceLists :
          /\ Len(s) \in Nat /\ DOMAIN s = 1..Len(s)
          /\ \A i \in DOMAIN s : s[i] \in Brokers
          /\ \A i, j \in DOMAIN s : s[i] = s[j] => i = j
    /\ NoBroker \notin Brokers
    /\ InitBackoff \in Nat /\ MaxBackoff \in Nat /\ InitBackoff <= MaxBackoff

VARIABLES
    sources,    \* the brokers of this deployment
    tasks,      \* the supervisors ever created, in order
    entry,      \* by broker: its EngineEntry
    listed,     \* the brokers in _entries
    restarts,   \* the calls of restart that wait for a supervisor's end
    called,     \* calls of restart so far
    failures,   \* engines that could not be brought up so far
    phase,      \* up, stopping, stopped
    gathered,   \* the supervisors stop waits for
    mt5,        \* the broker whose terminal the process is connected to
    stranded,   \* history: a constructor that failed left that connection
    store,      \* the broker whose file the loop's SQLite connection is on
    raced       \* history: brokers with a restart during a restart or a stop

vars == <<sources, tasks, entry, listed, restarts, called, failures, phase,
          gathered, mt5, stranded, store, raced>>

\* A supervisor at the start of _supervise.
NewTask(b) == [broker |-> b, stage |-> "new", cancelled |-> FALSE,
               backoff |-> InitBackoff]

Done(t) == tasks[t].stage = "done"

\* The supervisors whose engine exists: constructed and not yet stopped.
Engines(b) == {t \in DOMAIN tasks : /\ tasks[t].broker = b
                                    /\ tasks[t].stage \in {"starting", "running", "unwinding"}}

\* start: one entry and one supervisor per source.
Init ==
    \E s \in SourceLists :
       /\ sources = s
       /\ listed = {s[i] : i \in DOMAIN s}
       /\ tasks = [i \in DOMAIN s |-> NewTask(s[i])]
       /\ entry = [b \in Brokers |->
                     [health |-> "starting", restart_count |-> 0,
                      task |-> IF b \in {s[i] : i \in DOMAIN s}
                               THEN CHOOSE i \in DOMAIN s : s[i] = b ELSE 0]]
       /\ restarts = {} /\ called = 0 /\ failures = 0
       /\ phase = "up" /\ gathered = {}
       /\ mt5 = NoBroker /\ stranded = FALSE /\ store = NoBroker
       /\ raced = {}

-----------------------------------------------------------------------------
(***************************************************************************)
(* A supervisor                                                            *)
(***************************************************************************)

Move(t, stage) == tasks' = [tasks EXCEPT ![t].stage = stage]

Health(b, health) == entry' = [entry EXCEPT ![b].health = health]

Unmanaged == UNCHANGED <<sources, listed, restarts, called, phase, gathered, raced>>

\* A supervisor cancelled before its first step never runs.
NeverRuns(t) ==
    /\ tasks[t].stage = "new" /\ tasks[t].cancelled
    /\ Move(t, "done")
    /\ Unmanaged /\ UNCHANGED <<entry, failures, mt5, stranded, store>>

\* Its entry is gone: _supervise raises at once.
FindsNoEntry(t) ==
    /\ tasks[t].stage = "new" /\ ~tasks[t].cancelled
    /\ tasks[t].broker \notin listed
    /\ Move(t, "done")
    /\ Unmanaged /\ UNCHANGED <<entry, failures, mt5, stranded, store>>

\* The loop body of _supervise begins: first, or when the back-off is over.
Begins(t) ==
    /\ ~tasks[t].cancelled
    /\ \/ tasks[t].stage = "new" /\ tasks[t].broker \in listed
       \/ tasks[t].stage = "backoff"
    /\ tasks[t].stage = "new" => \A u \in 1..(t - 1) : tasks[u].stage # "new"

\* The back-off of the next failure, once this one is over.
NextBackoff(t) ==
    IF tasks[t].stage = "backoff" THEN Min({2 * tasks[t].backoff, MaxBackoff})
    ELSE tasks[t].backoff

\* The file of the loop's connection, once a store for broker b is open.
Opened(b) == IF store = NoBroker THEN b ELSE store

(***************************************************************************)
(* SignalEngine is constructed: the client connects the process to the     *)
(* broker's terminal, the store opens its file unless the loop's thread    *)
(* has one open already.  start then waits for the open signals.           *)
(***************************************************************************)
Construct(t) ==
    /\ Begins(t)
    /\ tasks' = [tasks EXCEPT ![t].stage = "starting", ![t].backoff = NextBackoff(t)]
    /\ Health(tasks[t].broker, "starting")
    /\ mt5' = tasks[t].broker /\ stranded' = FALSE
    /\ store' = Opened(tasks[t].broker)
    /\ Unmanaged /\ UNCHANGED failures

\* The except branch of _supervise.
Fails(t, backoff) ==
    /\ failures < MaxFailures
    /\ failures' = failures + 1
    /\ tasks' = [tasks EXCEPT ![t].stage = "backoff", ![t].backoff = backoff]
    /\ entry' = [entry EXCEPT ![tasks[t].broker].health = "error",
                              ![tasks[t].broker].restart_count = @ + 1]

\* Mutant: a failure to construct ends the supervisor.
ConstructGivesUp(t) ==
    /\ Begins(t)
    /\ failures < MaxFailures
    /\ failures' = failures + 1
    /\ Move(t, "done")
    /\ Health(tasks[t].broker, "error")
    /\ UNCHANGED <<mt5, stranded, store>>
    /\ Unmanaged

\* The settings or the terminal fail; a connection there was may be lost.
FailsUnconnected ==
    /\ mt5' \in {mt5, NoBroker}
    /\ stranded' = (stranded /\ mt5' # NoBroker)
    /\ UNCHANGED store

(***************************************************************************)
(* The constructor connects to the terminal before it opens the store and  *)
(* the registry.  What fails there fails outside the try of _run_engine,   *)
(* so nobody stops the engine and the connection stays.                    *)
(***************************************************************************)
FailsConnected(b) ==
    /\ mt5' = b /\ stranded' = TRUE
    /\ store' \in {store, Opened(b)}

ConstructFails(t) ==
    /\ Begins(t)
    /\ Fails(t, NextBackoff(t))
    /\ FailsUnconnected \/ FailsConnected(tasks[t].broker)
    /\ Unmanaged

\* start returns: the engine runs until its supervisor is cancelled.
Started(t) ==
    /\ tasks[t].stage = "starting" /\ ~tasks[t].cancelled
    /\ Move(t, "running")
    /\ Health(tasks[t].broker, "running")
    /\ Unmanaged /\ UNCHANGED <<failures, mt5, stranded, store>>

\* Mutant: an engine that failed to start is left as it is.
StartFailsUnstopped(t) ==
    /\ tasks[t].stage = "starting" /\ ~tasks[t].cancelled
    /\ failures < MaxFailures
    /\ failures' = failures + 1
    /\ Move(t, "backoff")
    /\ Unmanaged /\ UNCHANGED <<entry, mt5, stranded, store>>

\* start raises: the engine is stopped, which closes the connection to MT5.
StartFails(t) ==
    /\ tasks[t].stage = "starting" /\ ~tasks[t].cancelled
    /\ Fails(t, tasks[t].backoff)
    /\ mt5' = NoBroker /\ stranded' = FALSE
    /\ Unmanaged /\ UNCHANGED store

\* The supervisor of a running engine is cancelled and waits for its metrics task.
Unwinds(t) ==
    /\ tasks[t].stage = "running" /\ tasks[t].cancelled
    /\ Move(t, "unwinding")
    /\ Unmanaged /\ UNCHANGED <<entry, failures, mt5, stranded, store>>

\* engine.stop, while starting or when the metrics task is gone.
EngineStops(t) ==
    /\ \/ tasks[t].stage = "starting" /\ tasks[t].cancelled
       \/ tasks[t].stage = "unwinding"
    /\ Move(t, "done")
    /\ Health(tasks[t].broker, "stopped")
    /\ mt5' = NoBroker /\ stranded' = FALSE
    /\ Unmanaged /\ UNCHANGED <<failures, store>>

BackoffCancelled(t) ==
    /\ tasks[t].stage = "backoff" /\ tasks[t].cancelled
    /\ Move(t, "done")
    /\ Health(tasks[t].broker, "stopped")
    /\ Unmanaged /\ UNCHANGED <<failures, mt5, stranded, store>>

-----------------------------------------------------------------------------
(***************************************************************************)
(* restart and stop                                                        *)
(***************************************************************************)

Cancel(ts) == tasks' = [t \in DOMAIN tasks |->
                          IF t \in ts THEN [tasks[t] EXCEPT !.cancelled = TRUE] ELSE tasks[t]]

\* The end of restart: a fresh supervisor for the entry.
Respawn(b) ==
    /\ tasks' = Append(tasks, NewTask(b))
    /\ entry' = [entry EXCEPT ![b].restart_count = 0, ![b].task = Len(tasks) + 1]

Call(b) ==
    /\ b \in listed /\ called < MaxRestarts
    /\ called' = called + 1
    /\ raced' = IF phase # "up" \/ \E r \in restarts : r.broker = b
                THEN raced \cup {b} ELSE raced

\* restart of a supervisor that has ended.
RestartEnded(b) ==
    /\ Call(b) /\ Done(entry[b].task)
    /\ Respawn(b)
    /\ UNCHANGED <<sources, listed, restarts, failures, phase, gathered, mt5, stranded, store>>

\* Mutant: the old supervisor is cancelled and not awaited.
RestartAtOnce(b) ==
    /\ Call(b) /\ ~Done(entry[b].task)
    /\ tasks' = Append([tasks EXCEPT ![entry[b].task].cancelled = TRUE], NewTask(b))
    /\ entry' = [entry EXCEPT ![b].restart_count = 0, ![b].task = Len(tasks) + 1]
    /\ UNCHANGED <<sources, listed, restarts, failures, phase, gathered, mt5, stranded, store>>

\* The supervisor lives: restart cancels it and waits for its end.
RestartLive(b) ==
    /\ Call(b) /\ ~Done(entry[b].task)
    /\ Cancel({entry[b].task})
    /\ restarts' = restarts \cup {[broker |-> b, awaits |-> entry[b].task, call |-> called]}
    /\ UNCHANGED <<sources, entry, listed, failures, phase, gathered, mt5, stranded, store>>

RestartResumes(r) ==
    /\ Done(r.awaits)
    /\ restarts' = restarts \ {r}
    /\ Respawn(r.broker)
    /\ UNCHANGED <<sources, listed, called, failures, phase, gathered, mt5, stranded, store, raced>>

Live == {entry[b].task : b \in listed} \cap {t \in DOMAIN tasks : ~Done(t)}

\* Mutant: stop passes over the supervisors in their back-off.
StopRunning ==
    /\ phase = "up"
    /\ phase' = "stopping"
    /\ gathered' = {t \in Live : tasks[t].stage # "backoff"}
    /\ Cancel(gathered')
    /\ raced' = raced \cup {r.broker : r \in restarts}
    /\ UNCHANGED <<sources, entry, listed, restarts, called, failures, mt5, stranded, store>>

\* Mutant: stop waits for the supervisors without cancelling them.
StopUncancelled ==
    /\ phase = "up"
    /\ phase' = "stopping"
    /\ gathered' = Live
    /\ raced' = raced \cup {r.broker : r \in restarts}
    /\ UNCHANGED <<sources, tasks, entry, listed, restarts, called, failures, mt5, stranded, store>>

\* stop, up to the gather.
Stop ==
    /\ phase = "up"
    /\ phase' = "stopping"
    /\ gathered' = Live
    /\ Cancel(Live)
    /\ raced' = raced \cup {r.broker : r \in restarts}
    /\ UNCHANGED <<sources, entry, listed, restarts, called, failures, mt5, stranded, store>>

StopReturns ==
    /\ phase = "stopping" /\ \A t \in gathered : Done(t)
    /\ phase' = "stopped"
    /\ listed' = {}
    /\ UNCHANGED <<sources, tasks, entry, restarts, called, failures, gathered, mt5, stranded, store, raced>>

-----------------------------------------------------------------------------
Supervisor(t) ==
    \/ NeverRuns(t) \/ FindsNoEntry(t) \/ Construct(t) \/ ConstructFails(t)
    \/ Started(t) \/ StartFails(t) \/ Unwinds(t) \/ EngineStops(t) \/ BackoffCancelled(t)

Next ==
    \/ \E t \in DOMAIN tasks : Supervisor(t)
    \/ \E b \in Brokers : RestartEnded(b) \/ RestartLive(b)
    \/ \E r \in restarts : RestartResumes(r)
    \/ Stop \/ StopReturns

Spec == Init /\ [][Next]_vars

(***************************************************************************)
(* The event loop runs every task that is ready and every sleep ends.      *)
(***************************************************************************)
Fairness ==
    /\ \A t \in 1..(Cardinality(Brokers) + MaxRestarts) :
          WF_vars(t \in DOMAIN tasks /\ Supervisor(t))
    /\ WF_vars(\E r \in restarts : RestartResumes(r))
    /\ WF_vars(StopReturns)

FairSpec == Spec /\ Fairness

-----------------------------------------------------------------------------
(***************************************************************************)
(* Properties                                                              *)
(***************************************************************************)

(***************************************************************************)
(* However failures, cancellations and restarts fall together, a broker    *)
(* has one engine, and it is the one its entry names, unless two restarts  *)
(* of the broker, or a restart and the stop, overlapped.                   *)
(***************************************************************************)
OneEngine == \A b \in listed \ raced : Engines(b) \subseteq {entry[b].task}

(***************************************************************************)
(* get_stats tells the truth: a source counts as connected exactly while   *)
(* its engine runs, and as failed exactly while it waits to be tried again.*)
(***************************************************************************)
HealthIsTrue ==
    \A b \in listed \ raced :
       LET stage == tasks[entry[b].task].stage
       IN  /\ (entry[b].health = "running") <=> stage \in {"running", "unwinding"}
           /\ (entry[b].health = "error") <=> stage = "backoff"

(***************************************************************************)
(* When stop has returned, no engine is left and no supervisor will bring  *)
(* one up again; and MT5 is disconnected, unless the last engine to touch  *)
(* the terminal failed in its constructor after connecting, with no engine *)
(* brought up or stopped since.                                            *)
(***************************************************************************)
StopIsClean ==
    phase = "stopped" /\ raced = {} =>
       /\ \A t \in DOMAIN tasks : Done(t)
       /\ mt5 # NoBroker => stranded

\* An engine that runs reads its own terminal and writes its own file.
Isolated(b) == \A t \in Engines(b) :
                  tasks[t].stage = "running" => mt5 = b /\ store = b

(***************************************************************************)
(* A manager of one source keeps its engine on its terminal and its file   *)
(* over every failure and restart.                                         *)
(***************************************************************************)
AloneIsIsolated == Len(sources) = 1 => \A b \in listed \ raced : Isolated(b)

(***************************************************************************)
(* As long as the manager is up every source comes to run, and does so     *)
(* again after every failure and every restart.                            *)
(***************************************************************************)
EngineComesUp ==
    \A b \in Brokers : (b \in listed) ~> (entry[b].health = "running" \/ phase # "up")

\* A stop returns.
StopEnds == (phase = "stopping") ~> (phase = "stopped")
==============================================================================
