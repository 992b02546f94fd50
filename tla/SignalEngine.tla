---------------------------- MODULE SignalEngine -----------------------------
(***************************************************************************)
(* One broker's signal engine: the ticks of its symbols on one event loop  *)
(* (SignalEngine._on_candle_close, SignalService), the session state they  *)
(* share (SessionCoordinator) and what survives the process (SignalStore,  *)
(* SessionStore).                                                          *)
(*                                                                         *)
(* A tick suspends where the code awaits a candle fetch; between two       *)
(* awaits the event loop belongs to it.  A step of the model is such a     *)
(* segment, or the part of one between two writes to the store: loop says  *)
(* where in a segment the process stands, so that a crash can fall there.  *)
(* The market is the environment: which rejections are found and what the  *)
(* candles do to an open signal is any choice the code could meet.         *)
(***************************************************************************)
EXTENDS Session, Functions

CONSTANTS
    MoveSlToBe,      \* profile.move_sl_to_be_on_tp1
    MaxEmitLag,      \* max_emit_lag_ms, in candles
    CrashPoints,     \* places in a segment where the process may die
    StoreFaults,     \* store operations that may fail
    MaxTime          \* bound: the horizon of the clock

LoopPoints == {"free", "evaluate", "record", "append", "announce"}
StoreOps == {"upsert", "delete", "insert", "json",
             "load_session", "load_dedup", "load_open"}

ASSUME EngineAssumption ==
    /\ MoveSlToBe \in BOOLEAN
    /\ MaxEmitLag \in Nat
    /\ CrashPoints \subseteq LoopPoints
    /\ StoreFaults \subseteq StoreOps
    /\ MaxTime \in Nat

VARIABLES
    now,            \* the clock
    up,             \* the process is running
    tick,           \* per symbol, its tick in flight
    loop,           \* the segment that holds the event loop
    watchlist,      \* SignalService._watchlist
    dedup,          \* SessionCoordinator._state
    history,        \* SessionCoordinator._history
    session_day,    \* SessionCoordinator._session_day
    paused_until,   \* SessionCoordinator._paused_until
    open_rows,      \* table open_signals
    closed_rows,    \* table closed_signals
    session_json,   \* the session JSON files, by day
    announced,      \* history: the signals sent out as SIGNAL_TRIGGERED
    ledger          \* history: every recorded outcome, in order, with its day

memory == <<watchlist, dedup, history, session_day, paused_until>>
store == <<open_rows, closed_rows, session_json>>
ghosts == <<announced, ledger>>
vars == <<now, up, tick, loop, memory, store, ghosts>>

OpenSignal == [zone : Zones, rej : Nat, status : OpenStatus]

Setup(sig) == [zone |-> sig.zone, rej |-> sig.rej]

LtfOf(sig) == Ltf[sig.zone.pair]

Intervals == {Ltf[p] : p \in Pairs}

IdleTick == [phase |-> "idle", fired_at |-> -1, groups |-> {}, pairs |-> {}]

(***************************************************************************)
(* Where the running segment stands, and what it still carries: the signals *)
(* of the group left to evaluate, the record record_outcome is writing,    *)
(* first to SQLite and then to the session JSON, the setup to be announced. *)
(***************************************************************************)
LoopState ==
    [at : {"free"}, todo : {{}}]
      \cup [at : {"evaluate"}, todo : SUBSET OpenSignal]
      \cup [at : {"record", "append"}, todo : SUBSET OpenSignal, rec : ClosedRecord]
      \cup [at : {"announce"}, todo : {{}}, sig : Signal]

FreeLoop == [at |-> "free", todo |-> {}]

ClosedRow == [rec : ClosedRecord, day : Nat]

DayRecords(rows, day) == {row.rec : row \in {r \in rows : r.day = day}}

\* A store operation that cannot fail succeeds.
MayFail(op) == IF op \in StoreFaults THEN {TRUE, FALSE} ELSE {TRUE}

-----------------------------------------------------------------------------
(***************************************************************************)
(* SignalStore                                                             *)
(***************************************************************************)
UpsertOpen(rows, sig) ==
    {r \in rows : SignalId(r) # SignalId(sig)} \cup {sig}

DeleteOpen(rows, sig) == {r \in rows : SignalId(r) # SignalId(sig)}

\* Mutant: closed_at alone is the key of a closed row.
InsertClosedByTime(rows, rec, day) ==
    IF \E r \in rows : r.rec.closed_at = rec.closed_at
    THEN rows ELSE rows \cup {[rec |-> rec, day |-> day]}

\* INSERT OR IGNORE: the first row of an id stays.
InsertClosed(rows, rec, day) ==
    IF \E r \in rows : SignalId(r.rec.sig) = SignalId(rec.sig)
    THEN rows ELSE rows \cup {[rec |-> rec, day |-> day]}

(***************************************************************************)
(* _load_session: the rows SQLite has for the day, or, when it has none,   *)
(* or fails, the records of the day's JSON file.                           *)
(***************************************************************************)
LoadSession(day) ==
    LET rows == DayRecords(closed_rows, day)
    IN  (IF rows # {} THEN OrderedByClose(rows) ELSE {session_json[day]})
        \cup (IF "load_session" \in StoreFaults THEN {session_json[day]} ELSE {})

-----------------------------------------------------------------------------
Init ==
    /\ now = 0
    /\ up = TRUE
    /\ tick = [s \in Symbols |-> IdleTick]
    /\ loop = FreeLoop
    /\ watchlist = {}
    /\ dedup = EmptyDedup
    /\ history = <<>>
    /\ session_day = Day(0)
    /\ paused_until = NoPause
    /\ open_rows = {}
    /\ closed_rows = {}
    /\ session_json = [d \in 0..MaxTime |-> <<>>]
    /\ announced = {}
    /\ ledger = <<>>

Advance ==
    /\ now < MaxTime
    /\ now' = now + 1
    /\ UNCHANGED <<up, tick, loop, memory, store, ghosts>>

-----------------------------------------------------------------------------
(***************************************************************************)
(* The tick of a symbol: _on_candle_close                                  *)
(***************************************************************************)

\* analyze: a coroutine for every pair whose LTF candle has just closed.
AnalyzeFrom(fired_at) ==
    LET due == {p \in Pairs : fired_at % Ltf[p] = 0}
    IN  [phase |-> IF due = {} THEN "idle" ELSE "scan",
         fired_at |-> fired_at, groups |-> {}, pairs |-> due]

(***************************************************************************)
(* The tick takes its time, and update_watchlist groups the symbol's open  *)
(* signals by LTF and starts a fetch for each group.  The scheduler runs   *)
(* one tick of a symbol at a time and one per candle.                      *)
(***************************************************************************)
BeginTick(s) ==
    /\ up /\ loop.at = "free"
    /\ tick[s].phase = "idle" /\ tick[s].fired_at < now
    /\ LET groups == {LtfOf(sig) : sig \in {g \in watchlist : g.zone.sym = s}}
       IN  tick' = [tick EXCEPT ![s] =
                      IF groups = {} THEN AnalyzeFrom(now)
                      ELSE [phase |-> "watch", fired_at |-> now,
                            groups |-> groups, pairs |-> {}]]
    /\ UNCHANGED <<now, up, loop, memory, store, ghosts>>

\* The fetch of a group returns; the signals of the group are evaluated.
FetchGroup(s, interval) ==
    /\ up /\ loop.at = "free"
    /\ tick[s].phase = "watch" /\ interval \in tick[s].groups
    /\ tick' = [tick EXCEPT ![s].groups = @ \ {interval}]
    /\ loop' = [at |-> "evaluate",
                todo |-> {g \in watchlist :
                            g.zone.sym = s /\ LtfOf(g) = interval}]
    /\ UNCHANGED <<now, up, memory, store, ghosts>>

\* The fetch raises, or returns fewer than two closed candles.
FetchGroupFails(s, interval) ==
    /\ up /\ loop.at = "free"
    /\ tick[s].phase = "watch" /\ interval \in tick[s].groups
    /\ tick' = [tick EXCEPT ![s].groups = @ \ {interval}]
    /\ UNCHANGED <<now, up, loop, memory, store, ghosts>>

\* update_watchlist returns and analyze begins.
FinishWatch(s) ==
    /\ up /\ loop.at = "free"
    /\ tick[s].phase = "watch" /\ tick[s].groups = {}
    /\ tick' = [tick EXCEPT ![s] = AnalyzeFrom(tick[s].fired_at)]
    /\ UNCHANGED <<now, up, loop, memory, store, ghosts>>

-----------------------------------------------------------------------------
(***************************************************************************)
(* Evaluating an open signal: _evaluate_signal over its candles            *)
(***************************************************************************)

\* Candles that opened after triggered_at and are closed at the tick.
CandleTimes(sig, fired_at) ==
    {t \in (sig.rej + LtfOf(sig) + 1)..(fired_at - LtfOf(sig)) :
        t % LtfOf(sig) = 0}

AsTrade(sig, status) == [NewTrade(sig.rej) EXCEPT !.status = status]

(***************************************************************************)
(* The walks a tick can make of a signal, over all the candles the market  *)
(* can show: before is the status in which the walk reaches its last       *)
(* candle, after the trade that candle leaves.  The walk ends where the    *)
(* trade closes, or with the newest candle; TP1 may have been hit at any   *)
(* candle before.                                                          *)
(***************************************************************************)
Walks(sig, fired_at) ==
    LET times == CandleTimes(sig, fired_at)
        ends == {t \in times :
                    \A u \in times : u < t => ~PastExpiry(sig.rej, u)}
        before(t) == {sig.status} \cup {"TP1_HIT" : u \in {u \in times : u < t}}
        steps(t) == {[before |-> st,
                      after |-> StepSignalState(AsTrade(sig, st), c, MoveSlToBe, t)] :
                        st \in before(t), c \in Candle}
    IN  UNION {{w \in steps(t) : IsOpen(w.after) => \A u \in times : u <= t} :
                  t \in ends}

\* emit_tp1 somewhere in the walk.
HitsTp1(sig, walk) ==
    /\ sig.status = "TRIGGERED"
    /\ "TP1_HIT" \in {walk.before, walk.after.status}

\* Mutant: the TP1 of a signal is not persisted.
RowsWithoutTp1(sig, walk, ok) == open_rows

\* The open table after the walk's TP1, if any, was persisted.
RowsAfterTp1(sig, walk, ok) ==
    IF HitsTp1(sig, walk) /\ ok
    THEN UpsertOpen(open_rows, [sig EXCEPT !.status = "TP1_HIT"])
    ELSE open_rows

\* Mutant: the group is left after its first signal.
ResumeEarly(todo) == [at |-> "free", todo |-> todo]

\* Go on with the signals left, or give the loop back.
Resume(todo) ==
    [at |-> IF todo = {} THEN "free" ELSE "evaluate", todo |-> todo]

\* No closed candle yet, or the walk leaves the signal open.
KeepOpen(s, sig) ==
    /\ up /\ loop.at = "evaluate" /\ sig \in loop.todo /\ sig.zone.sym = s
    /\ \/ /\ CandleTimes(sig, tick[s].fired_at) = {}
          /\ UNCHANGED <<watchlist, open_rows>>
       \/ \E walk \in Walks(sig, tick[s].fired_at), ok \in MayFail("upsert") :
             /\ IsOpen(walk.after)
             /\ watchlist' = (watchlist \ {sig})
                               \cup {[sig EXCEPT !.status = walk.after.status]}
             /\ open_rows' = RowsAfterTp1(sig, walk, ok)
    /\ loop' = Resume(loop.todo \ {sig})
    /\ UNCHANGED <<now, up, tick, dedup, history, session_day, paused_until,
                   closed_rows, session_json, ghosts>>

\* _close_signal up to delete_open; record_outcome follows.
CloseSignal(s, sig) ==
    /\ up /\ loop.at = "evaluate" /\ sig \in loop.todo /\ sig.zone.sym = s
    /\ \E walk \in Walks(sig, tick[s].fired_at),
          saved \in MayFail("upsert"), deleted \in MayFail("delete") :
          /\ ~IsOpen(walk.after)
          /\ LET rows == RowsAfterTp1(sig, walk, saved)
             IN  open_rows' = IF deleted THEN DeleteOpen(rows, sig) ELSE rows
          /\ loop' = [at |-> "record", todo |-> loop.todo \ {sig},
                      rec |-> [sig |-> Setup(sig),
                               outcome |-> walk.after.outcome,
                               closed_at |-> walk.after.closed_at]]
    /\ watchlist' = {g \in watchlist : SignalId(g) # SignalId(sig)}
    /\ UNCHANGED <<now, up, tick, dedup, history, session_day, paused_until,
                   closed_rows, session_json, ghosts>>

\* record_outcome up to insert_closed; the session JSON follows.
RecordOutcome ==
    /\ up /\ loop.at = "record"
    /\ LET rec == loop.rec
       IN  /\ dedup' = ReleaseDirection(dedup, rec.sig.zone)
           /\ history' = Append(history, rec)
           /\ \E ok \in MayFail("insert") :
                 closed_rows' = IF ok THEN InsertClosed(closed_rows, rec, session_day)
                                ELSE closed_rows
           /\ ledger' = Append(ledger, [rec |-> rec, day |-> session_day])
           /\ loop' = [at |-> "append", todo |-> loop.todo, rec |-> rec]
    /\ UNCHANGED <<now, up, tick, watchlist, session_day, paused_until, open_rows,
                   session_json, announced>>

\* append_record and the streak, the rest of record_outcome; then the close event.
AppendRecord ==
    /\ up /\ loop.at = "append"
    /\ \E ok \in MayFail("json") :
          session_json' = IF ok THEN [session_json EXCEPT
                                        ![session_day] = Append(@, loop.rec)]
                          ELSE session_json
    /\ paused_until' = CheckStreak(history, now)
    /\ loop' = Resume(loop.todo)
    /\ UNCHANGED <<now, up, tick, watchlist, dedup, history, session_day, open_rows,
                   closed_rows, ghosts>>

-----------------------------------------------------------------------------
(***************************************************************************)
(* Scanning a pair: _analyze_pair after its fetches                        *)
(***************************************************************************)

\* The open time of the newest closed LTF candle: pair_fired_at.
PairFiredAt(pair, fired_at) == (fired_at \div Ltf[pair]) * Ltf[pair] - Ltf[pair]

\* Setups that can reach the session gate: the rejection candle is closed,
\* and the wall clock is not more than MaxEmitLag past its close.
Candidates(s, p, fired_at) ==
    {sig \in [zone : {z \in Zones : z.sym = s /\ z.pair = p}, rej : 0..MaxTime] :
        /\ sig.rej % Ltf[p] = 0
        /\ sig.rej <= PairFiredAt(p, fired_at)
        /\ now - (sig.rej + Ltf[p]) <= MaxEmitLag}

\* The pair's coroutine is done; the tick ends with its last pair.
PairDone(s, p) ==
    tick' = [tick EXCEPT ![s].pairs = @ \ {p},
                         ![s].phase = IF tick[s].pairs = {p} THEN "idle" ELSE "scan"]

\* _maybe_rollover
MaybeRollover(ts) ==
    /\ session_day' = Day(ts)
    /\ IF Day(ts) = session_day
       THEN UNCHANGED <<history, paused_until>>
       ELSE /\ history' \in LoadSession(Day(ts))
            /\ paused_until' = CheckStreak(history', now)

\* SessionCoordinator.should_emit after the rollover.
ShouldEmit(sig, ts) ==
    /\ ~Paused(paused_until', ts)
    /\ ~IsDirectionOpen(dedup, sig.zone)
    /\ RulesAllow(dedup, sig, ts)

\* No setup reaches the gate: no data, a neutral trend, no entry, or too late.
ScanQuiet(s, p) ==
    /\ up /\ loop.at = "free"
    /\ tick[s].phase = "scan" /\ p \in tick[s].pairs
    /\ PairDone(s, p)
    /\ UNCHANGED <<now, up, loop, memory, store, ghosts>>

\* Setups reach the gate, and it, or the decision engine, blocks them all.
ScanBlocked(s, p) ==
    /\ up /\ loop.at = "free"
    /\ tick[s].phase = "scan" /\ p \in tick[s].pairs
    /\ Candidates(s, p, tick[s].fired_at) # {}
    /\ MaybeRollover(PairFiredAt(p, tick[s].fired_at))
    /\ PairDone(s, p)
    /\ UNCHANGED <<now, up, loop, watchlist, dedup, store, ghosts>>

\* A setup passes: it is registered, watched and persisted.
ScanEmits(s, p, sig) ==
    LET ts == PairFiredAt(p, tick[s].fired_at)
        signal == [zone |-> sig.zone, rej |-> sig.rej, status |-> "TRIGGERED"]
    IN  /\ up /\ loop.at = "free"
        /\ tick[s].phase = "scan" /\ p \in tick[s].pairs
        /\ sig \in Candidates(s, p, tick[s].fired_at)
        /\ MaybeRollover(ts)
        /\ ShouldEmit(sig, ts)
        /\ \A g \in watchlist : SignalId(g) # SignalId(sig)
        /\ dedup' = Register(dedup, {sig})
        /\ watchlist' = watchlist \cup {signal}
        /\ \E ok \in MayFail("upsert") :
              open_rows' = IF ok THEN UpsertOpen(open_rows, signal) ELSE open_rows
        /\ loop' = [at |-> "announce", todo |-> {}, sig |-> sig]
        /\ PairDone(s, p)
        /\ UNCHANGED <<now, up, closed_rows, session_json, ghosts>>

\* SIGNAL_TRIGGERED goes to the listeners.
Announce ==
    /\ up /\ loop.at = "announce"
    /\ announced' = announced \cup {loop.sig}
    /\ loop' = FreeLoop
    /\ UNCHANGED <<now, up, tick, memory, store, ledger>>

-----------------------------------------------------------------------------
(***************************************************************************)
(* The process dies and comes back                                         *)
(***************************************************************************)
Crash ==
    /\ up /\ loop.at \in CrashPoints
    /\ up' = FALSE
    /\ tick' = [s \in Symbols |-> IdleTick]
    /\ loop' = FreeLoop
    /\ watchlist' = {}
    /\ dedup' = EmptyDedup
    /\ history' = <<>>
    /\ session_day' = Day(now)
    /\ paused_until' = NoPause
    /\ UNCHANGED <<now, store, ghosts>>

\* initialize: the rows that are not past their expiry.
Restorable(rows) == {r \in rows : ~PastExpiry(r.rej, now)}

(***************************************************************************)
(* The constructor of SessionCoordinator loads the session and replays the *)
(* closed signals; SignalService.initialize restores the open ones and     *)
(* registers them.  No tick runs before that is done.                      *)
(***************************************************************************)
Restart ==
    /\ ~up
    /\ up' = TRUE
    /\ session_day' = Day(now)
    /\ history' \in LoadSession(Day(now))
    /\ paused_until' = CheckStreak(history', now)
    /\ \E replayed \in MayFail("load_dedup"), loaded \in MayFail("load_open") :
          LET closed == IF replayed THEN {row.rec.sig : row \in closed_rows} ELSE {}
              open == IF loaded THEN Restorable(open_rows) ELSE {}
          IN  /\ watchlist' = open
              /\ dedup' = Register(Replay(closed), {Setup(g) : g \in open})
    /\ UNCHANGED <<now, tick, loop, store, ghosts>>

Next ==
    \/ Advance
    \/ \E s \in Symbols :
          \/ BeginTick(s)
          \/ \E i \in Intervals : FetchGroup(s, i) \/ FetchGroupFails(s, i)
          \/ FinishWatch(s)
          \/ \E sig \in loop.todo : KeepOpen(s, sig) \/ CloseSignal(s, sig)
          \/ \E p \in Pairs :
                \/ ScanQuiet(s, p)
                \/ ScanBlocked(s, p)
                \/ \E sig \in Candidates(s, p, tick[s].fired_at) : ScanEmits(s, p, sig)
    \/ RecordOutcome
    \/ AppendRecord
    \/ Announce
    \/ Crash
    \/ Restart

Spec == Init /\ [][Next]_vars

-----------------------------------------------------------------------------
(***************************************************************************)
(* Properties                                                              *)
(***************************************************************************)

\* Every variable holds a value of the code's type.
TypeOK ==
    /\ now \in 0..MaxTime
    /\ up \in BOOLEAN
    /\ tick \in [Symbols -> [phase : {"idle", "watch", "scan"},
                             fired_at : -1..MaxTime,
                             groups : SUBSET Intervals, pairs : SUBSET Pairs]]
    /\ loop \in LoopState
    /\ watchlist \subseteq OpenSignal
    /\ dedup \in DedupState
    /\ history \in Seq(ClosedRecord)
    /\ session_day \in 0..MaxTime
    /\ paused_until \in Nat \cup {NoPause}
    /\ open_rows \subseteq OpenSignal
    /\ closed_rows \subseteq ClosedRow
    /\ session_json \in [0..MaxTime -> Seq(ClosedRecord)]
    /\ announced \subseteq Signal
    /\ ledger \in Seq(ClosedRow)

(***************************************************************************)
(* Rule B: no two open signals share a direction lock, whatever the        *)
(* interleaving of pairs and ticks and wherever the process dies.          *)
(***************************************************************************)
OneOpenPerDirection ==
    \A a, b \in watchlist : DirKey(a.zone) = DirKey(b.zone) => a = b

(***************************************************************************)
(* The direction locks are those of the watched signals and, inside        *)
(* _close_signal, of the one being closed: a lock that outlived its signal *)
(* would silence the direction, a missing one would allow a second signal. *)
(***************************************************************************)
LocksMatchWatchlist ==
    dedup.open_dir =
        Locks(watchlist)
          \cup (IF loop.at = "record" THEN {DirKey(loop.rec.sig.zone)} ELSE {})

(***************************************************************************)
(* What makes the two invariants above inductive: of the rows a restart    *)
(* would bring back no two share a direction, each of them is watched      *)
(* while the process runs, the signal being closed has left the watchlist  *)
(* with its direction, and a stopped process holds nothing.                *)
(***************************************************************************)
RowsOneOpen ==
    \A a, b \in open_rows :
        /\ ~PastExpiry(a.rej, now) /\ ~PastExpiry(b.rej, now)
        /\ DirKey(a.zone) = DirKey(b.zone)
        => a = b

RowsAreWatched ==
    up => \A r \in open_rows : \/ PastExpiry(r.rej, now)
                              \/ \E g \in watchlist : SignalId(g) = SignalId(r)

ClosingIsGone ==
    loop.at = "record" =>
        \A g \in watchlist : DirKey(g.zone) # DirKey(loop.rec.sig.zone)

TodoIsWatched == loop.todo \subseteq watchlist

DownIsEmpty == ~up => watchlist = {} /\ loop = FreeLoop

PositionsInv ==
    /\ OneOpenPerDirection
    /\ LocksMatchWatchlist
    /\ RowsOneOpen
    /\ RowsAreWatched
    /\ ClosingIsGone
    /\ TodoIsWatched
    /\ DownIsEmpty

(***************************************************************************)
(* Every watched signal has its row in open_signals, in the status it has  *)
(* reached, and a row nobody watches is one initialize refused to restore: *)
(* what a restart brings back is what was watched.                         *)
(***************************************************************************)
StoreTracksWatchlist ==
    up => /\ watchlist \subseteq open_rows
          /\ \A r \in open_rows \ watchlist : PastExpiry(r.rej, now)

(***************************************************************************)
(* A signal sent to subscribers is on record until the end: open, closed,  *)
(* or between the two writes of _close_signal.                             *)
(***************************************************************************)
AnnouncedIsOnRecord ==
    \A sig \in announced :
        \/ \E r \in open_rows : Setup(r) = sig
        \/ \E row \in closed_rows : row.rec.sig = sig
        \/ loop.at = "record" /\ loop.rec.sig = sig

\* The signals sent out for a zone.
Emissions(z) == {sig \in announced : sig.zone = z}

\* Setups whose row initialize passed over: nothing closes them any more.
Abandoned == {Setup(r) : r \in open_rows \ watchlist}

(***************************************************************************)
(* Rule A: across rollovers and restarts a zone gives at most              *)
(* MaxSignalCount signals, not counting those that expired while the       *)
(* process was down.                                                       *)
(***************************************************************************)
ZoneLimit ==
    up => \A z \in Zones :
             Cardinality(Emissions(z) \ Abandoned) <= MaxSignalCount

(***************************************************************************)
(* Rule A as coordinator.py states it: max_signal_count applies to the     *)
(* zone lifetime.                                                          *)
(***************************************************************************)
ZoneLifetimeLimit ==
    \A z \in Zones : Cardinality(Emissions(z)) <= MaxSignalCount

(***************************************************************************)
(* Rule E: a rejection candle is announced once, even if the process dies  *)
(* right after it and rescans the same candle.                             *)
(***************************************************************************)
RejectionFiresOnce ==
    [][loop.at = "announce" /\ loop'.at = "free" /\ up'
         => RejKey(loop.sig) \notin Keys(announced)]_vars

Emitting == loop.at = "free" /\ loop'.at = "announce"

SessionRecords(day) == {i \in DOMAIN ledger : ledger[i].day = day}

(***************************************************************************)
(* The losses of a day that every copy a restart may read can show: where  *)
(* SQLite can fail to be read, those that have reached the JSON file too.  *)
(***************************************************************************)
DurableLosses(day) ==
    {i \in SessionRecords(day) :
        /\ ledger[i].rec.outcome = "LOSS"
        /\ "load_session" \in StoreFaults => ledger[i].rec \in Range(session_json[day])}

(***************************************************************************)
(* The circuit breaker within a session: once the losses that trip it are  *)
(* durable and the session has no win, nothing is emitted until the pause  *)
(* of its losses is over, whichever copy a rollover or a restart reads and *)
(* even if the process dies between the two writes of record_outcome.      *)
(***************************************************************************)
SessionPauseHolds ==
    [][Emitting =>
         LET session == SessionRecords(session_day')
             losses == {i \in session : ledger[i].rec.outcome = "LOSS"}
         IN  ~ /\ Cardinality(DurableLosses(session_day')) >= MaxConsecutiveLosses
               /\ \A i \in session : ledger[i].rec.outcome \notin WinOutcomes
               /\ \A i \in losses :
                     now < ledger[i].rec.closed_at + PauseLength]_vars

(***************************************************************************)
(* The circuit breaker as dedup.py states it: after the losses that trip   *)
(* it, nothing is emitted for PauseLength.                                 *)
(***************************************************************************)
PauseLastsItsHours ==
    [][Emitting =>
         LET records == [i \in DOMAIN ledger |-> ledger[i].rec]
         IN  ~ /\ ConsecutiveLosses(records) >= MaxConsecutiveLosses
               /\ now < LastLoss(records).closed_at + PauseLength]_vars
==============================================================================
