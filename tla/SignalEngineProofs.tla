------------------------- MODULE SignalEngineProofs --------------------------
(***************************************************************************)
(* Theorems of SignalEngine, for every number of symbols, pairs and zones, *)
(* every expiry, day and pause length, and every horizon.                  *)
(***************************************************************************)
EXTENDS SignalEngine, FiniteSetTheorems, WellFoundedInduction, TLAPS

-----------------------------------------------------------------------------
(***************************************************************************)
(* Arithmetic of candle times                                              *)
(***************************************************************************)

\* Rounding a time down to its candle does not move it forward.
LEMMA FloorBelow ==
    ASSUME NEW t \in Int, NEW len \in Nat \ {0}
    PROVE  /\ t \div len \in Int
           /\ (t \div len) * len \in Int
           /\ (t \div len) * len <= t
  OBVIOUS

\* The day of a time is a natural number, no greater than the time.
LEMMA DayBelow ==
    ASSUME NEW t \in Nat
    PROVE  Day(t) \in Nat /\ Day(t) <= t
  <1>1. DayLength \in Nat \ {0}
    BY SessionAssumption
  <1>2. /\ t \div DayLength \in Int
        /\ t \div DayLength >= 0
        /\ t \div DayLength <= t
    BY <1>1
  <1>3. QED
    BY <1>2 DEF Day

\* The newest closed candle of a pair opened before the tick.
LEMMA PairFiredAtBelow ==
    ASSUME NEW p \in Pairs, NEW f \in Int
    PROVE  PairFiredAt(p, f) \in Int /\ PairFiredAt(p, f) <= f
  <1>1. Ltf[p] \in Nat \ {0}
    BY DedupAssumption
  <1>2. /\ (f \div Ltf[p]) * Ltf[p] \in Int
        /\ (f \div Ltf[p]) * Ltf[p] <= f
    BY <1>1, FloorBelow
  <1>3. QED
    BY <1>1, <1>2 DEF PairFiredAt

-----------------------------------------------------------------------------
(***************************************************************************)
(* The lifecycle step                                                      *)
(***************************************************************************)

\* A step that closes an open trade gives it an outcome and the candle time.
LEMMA StepCloses ==
    ASSUME NEW rej \in Nat, NEW st \in OpenStatus, NEW c \in Candle,
           NEW be \in BOOLEAN, NEW t \in Nat,
           NEW after,
           after = StepSignalState([NewTrade(rej) EXCEPT !.status = st], c, be, t),
           ~IsOpen(after)
    PROVE  after.outcome \in SignalOutcome /\ after.closed_at = t
  <1> DEFINE start == [created_at |-> rej, status |-> st, outcome |-> "none",
                       realized_rr |-> "none", closed_at |-> -1]
  <1>1. [NewTrade(rej) EXCEPT !.status = st] = start
    BY DEF NewTrade
  <1>2. st = "TRIGGERED" \/ st = "TP1_HIT"
    BY DEF OpenStatus
  <1>3. start.status = st /\ start.created_at = rej
    OBVIOUS
  <1>4. CASE PastExpiry(rej, t)
    <2>1. after = Expire(start, be, t)
      BY <1>1, <1>3, <1>4 DEF StepSignalState
    <2>2. QED
      BY <1>2, <1>3, <2>1 DEF Expire, Settle, SignalOutcome
  <1>5. CASE ~PastExpiry(rej, t) /\ st = "TRIGGERED"
    <2>1. after = StepTriggered(start, c, t)
      BY <1>1, <1>3, <1>5 DEF StepSignalState
    <2>2. IsOpen(start) /\ IsOpen([start EXCEPT !.status = "TP1_HIT"])
      BY DEF IsOpen, OpenStatus
    <2>3. QED
      BY <1>3, <2>1, <2>2 DEF StepTriggered, Settle, SignalOutcome
  <1>6. CASE ~PastExpiry(rej, t) /\ st = "TP1_HIT"
    <2>1. after = StepTp1Hit(start, c, be, t)
      BY <1>1, <1>3, <1>6 DEF StepSignalState
    <2>2. IsOpen(start)
      BY DEF IsOpen, OpenStatus
    <2>3. QED
      BY <1>3, <2>1, <2>2 DEF StepTp1Hit, Settle, SignalOutcome
  <1>7. QED
    BY <1>2, <1>4, <1>5, <1>6

-----------------------------------------------------------------------------
(***************************************************************************)
(* Finite sets                                                             *)
(***************************************************************************)

\* What is read off the rows of a finite table is finite.
LEMMA FiniteRowImages ==
    ASSUME NEW rows, IsFiniteSet(rows)
    PROVE  /\ IsFiniteSet({row.rec.sig : row \in rows})
           /\ IsFiniteSet({row.rec : row \in rows})
           /\ IsFiniteSet({Setup(row) : row \in rows})
  <1>1. IsFiniteSet({row.rec.sig : row \in rows})
    <2> DEFINE T == {row.rec.sig : row \in rows}
               f == [row \in rows |-> row.rec.sig]
    <2>1. f \in Surjection(rows, T)
      BY DEF Surjection
    <2>2. QED
      BY <2>1, FS_Surjection
  <1>2. IsFiniteSet({row.rec : row \in rows})
    <2> DEFINE T == {row.rec : row \in rows}
               f == [row \in rows |-> row.rec]
    <2>1. f \in Surjection(rows, T)
      BY DEF Surjection
    <2>2. QED
      BY <2>1, FS_Surjection
  <1>3. IsFiniteSet({Setup(row) : row \in rows})
    <2> DEFINE T == {Setup(row) : row \in rows}
               f == [row \in rows |-> Setup(row)]
    <2>1. f \in Surjection(rows, T)
      BY DEF Surjection
    <2>2. QED
      BY <2>1, FS_Surjection
  <1>4. QED
    BY <1>1, <1>2, <1>3

\* A zone is counted by a natural number.
LEMMA CountInType ==
    ASSUME NEW S, IsFiniteSet(S), NEW z
    PROVE  CountIn(S, z) \in Nat
  <1>1. IsFiniteSet({sig \in S : sig.zone = z})
    BY FS_Subset
  <1>2. QED
    BY <1>1, FS_CardinalityType DEF CountIn

\* A set of positions in a sequence has a last one.
LEMMA LastExists ==
    ASSUME NEW n \in Nat, NEW S \in SUBSET (1..n), S # {}
    PROVE  \E i \in S : \A j \in S : j <= i
  <1> DEFINE T == {n - i : i \in S}
  <1>1. T \subseteq Nat /\ T # {}
    <2>1. \A i \in S : n - i \in Nat
      OBVIOUS
    <2>2. QED
      BY <2>1
  <1>2. PICK x \in T : \A y \in T : ~(<<y, x>> \in OpToRel(<, Nat))
    BY <1>1, WFMin, NatLessThanWellFounded
  <1>3. \A y \in T : ~(y < x)
    BY <1>1, <1>2 DEF OpToRel
  <1>4. PICK i \in S : x = n - i
    OBVIOUS
  <1>5. \A j \in S : n - j \in T
    OBVIOUS
  <1>6. \A j \in S : j <= i
    BY <1>3, <1>4, <1>5
  <1>7. QED
    BY <1>6

-----------------------------------------------------------------------------
(***************************************************************************)
(* The session                                                             *)
(***************************************************************************)

\* _check_streak sets a time or clears the pause.
LEMMA CheckStreakType ==
    ASSUME NEW h \in Seq(ClosedRecord), NEW t \in Nat
    PROVE  CheckStreak(h, t) \in Nat \cup {NoPause}
  <1> DEFINE S == StreakRecords(h)
  <1>1. SUFFICES ASSUME ConsecutiveLosses(h) >= MaxConsecutiveLosses
                 PROVE  LastLoss(h).closed_at + PauseLength \in Nat
    BY DEF CheckStreak
  <1>2. S \in SUBSET (1..Len(h)) /\ Len(h) \in Nat
    BY DEF StreakRecords
  <1>3. S # {}
    <2>1. Cardinality({}) = 0
      BY FS_EmptySet
    <2>2. Cardinality(S) >= MaxConsecutiveLosses
      BY <1>1 DEF ConsecutiveLosses
    <2>3. ~(0 >= MaxConsecutiveLosses)
      BY SessionAssumption
    <2>4. QED
      BY <2>1, <2>2, <2>3
  <1>4. \E i \in S : \A j \in S : j <= i
    BY <1>2, <1>3, LastExists
  <1> DEFINE i == CHOOSE i \in S : \A j \in S : j <= i
  <1>5. i \in S
    BY <1>4
  <1>6. LastLoss(h) = h[i]
    BY DEF LastLoss
  <1>7. h[i] \in ClosedRecord
    BY <1>2, <1>5
  <1>8. QED
    BY <1>6, <1>7, SessionAssumption DEF ClosedRecord

\* The records of a finite table come back as a sequence.
LEMMA OrderedByCloseType ==
    ASSUME NEW records \in SUBSET ClosedRecord, IsFiniteSet(records)
    PROVE  OrderedByClose(records) \subseteq Seq(ClosedRecord)
  <1>1. Cardinality(records) \in Nat
    BY FS_CardinalityType
  <1>2. \A h \in [1..Cardinality(records) -> records] : h \in Seq(ClosedRecord)
    BY <1>1
  <1>3. QED
    BY <1>2 DEF OrderedByClose

\* What _load_session can find.
LEMMA LoadSessionType ==
    ASSUME closed_rows \subseteq ClosedRow, IsFiniteSet(closed_rows),
           session_json \in [0..MaxTime -> Seq(ClosedRecord)],
           NEW day \in 0..MaxTime
    PROVE  LoadSession(day) \subseteq Seq(ClosedRecord)
  <1> DEFINE kept == {r \in closed_rows : r.day = day}
  <1>1. IsFiniteSet(kept)
    BY FS_Subset
  <1>2. IsFiniteSet(DayRecords(closed_rows, day))
    BY <1>1, FiniteRowImages DEF DayRecords
  <1>3. DayRecords(closed_rows, day) \subseteq ClosedRecord
    BY DEF DayRecords, ClosedRow
  <1>4. OrderedByClose(DayRecords(closed_rows, day)) \subseteq Seq(ClosedRecord)
    BY <1>2, <1>3, OrderedByCloseType
  <1>5. session_json[day] \in Seq(ClosedRecord)
    OBVIOUS
  <1>6. QED
    BY <1>4, <1>5 DEF LoadSession

-----------------------------------------------------------------------------
(***************************************************************************)
(* The dedup state                                                         *)
(***************************************************************************)

\* The parts of a zone.
LEMMA ZoneParts ==
    ASSUME NEW z \in Zones
    PROVE  /\ z.sym \in Symbols /\ z.pair \in Pairs /\ z.dir \in Direction
           /\ DirKey(z) \in Symbols \X Direction \X (Pairs \cup {""})
  <1>1. z.sym \in Symbols /\ z.pair \in Pairs /\ z.dir \in Direction
    BY DedupAssumption
  <1>2. QED
    BY <1>1 DEF DirKey

\* An open signal comes from a setup.
LEMMA SetupType ==
    ASSUME NEW sig \in OpenSignal
    PROVE  /\ Setup(sig) \in Signal /\ Setup(sig).zone = sig.zone
           /\ sig.zone \in Zones /\ sig.rej \in Nat /\ sig.status \in OpenStatus
           /\ LtfOf(sig) \in Intervals /\ LtfOf(sig) \in Nat \ {0}
  <1>1. sig.zone \in Zones /\ sig.rej \in Nat /\ sig.status \in OpenStatus
    BY DEF OpenSignal
  <1>2. sig.zone.pair \in Pairs
    BY <1>1, ZoneParts
  <1>3. LtfOf(sig) \in Intervals /\ LtfOf(sig) \in Nat \ {0}
    BY <1>2, DedupAssumption DEF LtfOf, Intervals
  <1>4. QED
    BY <1>1, <1>3 DEF Setup, Signal

LEMMA KeysType ==
    ASSUME NEW S \in SUBSET Signal
    PROVE  /\ Keys(S) \subseteq Symbols \X Pairs \X Nat
           /\ Locks(S) \subseteq Symbols \X Direction \X (Pairs \cup {""})
  <1>1. \A sig \in S : sig.zone \in Zones /\ sig.rej \in Nat
    BY DEF Signal
  <1>2. \A sig \in S : RejKey(sig) \in Symbols \X Pairs \X Nat
    BY <1>1, ZoneParts DEF RejKey
  <1>3. \A sig \in S : DirKey(sig.zone) \in Symbols \X Direction \X (Pairs \cup {""})
    BY <1>1, ZoneParts
  <1>4. QED
    BY <1>2, <1>3 DEF Keys, Locks

LEMMA RegisterType ==
    ASSUME NEW d \in DedupState, NEW S \in SUBSET Signal, IsFiniteSet(S)
    PROVE  Register(d, S) \in DedupState
  <1>1. \A z \in Zones : CountIn(S, z) \in Nat
    BY CountInType
  <1>2. \A z \in Zones : d.zone_signal_counts[z] \in Nat
    BY DEF DedupState
  <1>3. \A z \in Zones : d.zone_signal_counts[z] + CountIn(S, z) \in Nat
    BY <1>1, <1>2
  <1>4. [z \in Zones |-> d.zone_signal_counts[z] + CountIn(S, z)] \in [Zones -> Nat]
    BY <1>3
  <1>5. QED
    BY <1>4, KeysType DEF Register, DedupState

LEMMA ReplayType ==
    ASSUME NEW S \in SUBSET Signal, IsFiniteSet(S)
    PROVE  Replay(S) \in DedupState
  <1>1. [z \in Zones |-> CountIn(S, z)] \in [Zones -> Nat]
    BY CountInType
  <1>2. QED
    BY <1>1, KeysType DEF Replay, DedupState

-----------------------------------------------------------------------------
(***************************************************************************)
(* A walk of the lifecycle                                                 *)
(***************************************************************************)

\* What a walk leaves: an open status, or an outcome and a time.
LEMMA WalkType ==
    ASSUME NEW sig \in OpenSignal, NEW f \in Int, NEW walk \in Walks(sig, f)
    PROVE  /\ IsOpen(walk.after) => walk.after.status \in OpenStatus
           /\ ~IsOpen(walk.after) => /\ walk.after.outcome \in SignalOutcome
                                     /\ walk.after.closed_at \in Nat
  <1> DEFINE times == CandleTimes(sig, f)
  <1>1. times \subseteq Nat
    BY SetupType DEF CandleTimes
  <1>2. PICK t \in times, st \in {sig.status, "TP1_HIT"}, c \in Candle :
            walk = [before |-> st,
                    after |-> StepSignalState(AsTrade(sig, st), c, MoveSlToBe, t)]
    BY DEF Walks
  <1>3. st \in OpenStatus /\ sig.rej \in Nat /\ t \in Nat
    BY <1>1, SetupType DEF OpenStatus
  <1>4. walk.after = StepSignalState([NewTrade(sig.rej) EXCEPT !.status = st],
                                     c, MoveSlToBe, t)
    BY <1>2 DEF AsTrade
  <1>5. ~IsOpen(walk.after) => /\ walk.after.outcome \in SignalOutcome
                               /\ walk.after.closed_at = t
    BY <1>3, <1>4, StepCloses, EngineAssumption
  <1>6. QED
    BY <1>3, <1>5 DEF IsOpen

-----------------------------------------------------------------------------
(***************************************************************************)
(* Type correctness                                                        *)
(***************************************************************************)

\* The tables hold finitely many rows: counts and orders are defined.
TypeInv == TypeOK /\ IsFiniteSet(open_rows) /\ IsFiniteSet(closed_rows)

LEMMA UpsertType ==
    ASSUME NEW rows \in SUBSET OpenSignal, IsFiniteSet(rows), NEW sig \in OpenSignal
    PROVE  /\ UpsertOpen(rows, sig) \subseteq OpenSignal
           /\ IsFiniteSet(UpsertOpen(rows, sig))
           /\ DeleteOpen(rows, sig) \subseteq OpenSignal
           /\ IsFiniteSet(DeleteOpen(rows, sig))
  <1> DEFINE rest == {r \in rows : SignalId(r) # SignalId(sig)}
  <1>1. IsFiniteSet(rest)
    BY FS_Subset
  <1>2. IsFiniteSet(rest \cup {sig})
    BY <1>1, FS_AddElement
  <1>3. QED
    BY <1>1, <1>2 DEF UpsertOpen, DeleteOpen

\* The open table after a walk, saved or not.
LEMMA RowsAfterTp1Type ==
    ASSUME open_rows \subseteq OpenSignal, IsFiniteSet(open_rows),
           NEW sig \in OpenSignal, NEW walk, NEW ok
    PROVE  /\ RowsAfterTp1(sig, walk, ok) \subseteq OpenSignal
           /\ IsFiniteSet(RowsAfterTp1(sig, walk, ok))
  <1>1. [sig EXCEPT !.status = "TP1_HIT"] \in OpenSignal
    BY DEF OpenSignal, OpenStatus
  <1>2. QED
    BY <1>1, UpsertType DEF RowsAfterTp1

\* A tick that starts to analyze.
LEMMA AnalyzeFromType ==
    ASSUME NEW f \in -1..MaxTime
    PROVE  AnalyzeFrom(f) \in [phase : {"idle", "watch", "scan"},
                               fired_at : -1..MaxTime,
                               groups : SUBSET Intervals, pairs : SUBSET Pairs]
  BY DEF AnalyzeFrom

\* What _maybe_rollover leaves.
LEMMA RolloverType ==
    ASSUME TypeInv, NEW ts \in 0..MaxTime, MaybeRollover(ts)
    PROVE  /\ session_day' \in 0..MaxTime
           /\ history' \in Seq(ClosedRecord)
           /\ paused_until' \in Nat \cup {NoPause}
  <1>1. Day(ts) \in 0..MaxTime
    BY DayBelow, EngineAssumption
  <1>2. session_day' \in 0..MaxTime
    BY <1>1 DEF MaybeRollover
  <1>3. CASE Day(ts) = session_day
    BY <1>2, <1>3 DEF MaybeRollover, TypeInv, TypeOK
  <1>4. CASE Day(ts) # session_day
    <2>1. history' \in LoadSession(Day(ts)) /\ paused_until' = CheckStreak(history', now)
      BY <1>4 DEF MaybeRollover
    <2>2. LoadSession(Day(ts)) \subseteq Seq(ClosedRecord)
      BY <1>1, LoadSessionType DEF TypeInv, TypeOK
    <2>3. now \in Nat
      BY EngineAssumption DEF TypeInv, TypeOK
    <2>4. QED
      BY <1>2, <2>1, <2>2, <2>3, CheckStreakType
  <1>5. QED
    BY <1>3, <1>4

\* A candidate is a setup of the past.
LEMMA CandidateType ==
    ASSUME NEW s \in Symbols, NEW p \in Pairs, NEW f \in -1..MaxTime,
           NEW sig \in Candidates(s, p, f)
    PROVE  /\ sig \in Signal /\ sig.rej \in 0..MaxTime
           /\ PairFiredAt(p, f) \in 0..MaxTime
  <1>1. /\ sig.zone \in Zones /\ sig.rej \in 0..MaxTime
        /\ sig = [zone |-> sig.zone, rej |-> sig.rej]
        /\ sig.rej <= PairFiredAt(p, f)
    BY DEF Candidates
  <1>2. sig \in Signal
    BY <1>1, EngineAssumption DEF Signal
  <1>3. PairFiredAt(p, f) \in Int /\ PairFiredAt(p, f) <= f
    BY PairFiredAtBelow
  <1>4. QED
    BY <1>1, <1>2, <1>3, EngineAssumption

LEMMA TypeInit == Init => TypeInv
  <1> SUFFICES ASSUME Init PROVE TypeInv
    OBVIOUS
  <1>1. Day(0) \in 0..MaxTime
    BY DayBelow, EngineAssumption
  <1>2. EmptyDedup \in DedupState
    BY DEF EmptyDedup, DedupState
  <1>3. tick \in [Symbols -> [phase : {"idle", "watch", "scan"},
                             fired_at : -1..MaxTime,
                             groups : SUBSET Intervals, pairs : SUBSET Pairs]]
    BY EngineAssumption DEF Init, IdleTick
  <1>4. loop \in LoopState
    BY DEF Init, FreeLoop, LoopState
  <1>5. session_json \in [0..MaxTime -> Seq(ClosedRecord)]
    BY DEF Init
  <1>6. history \in Seq(ClosedRecord) /\ ledger \in Seq(ClosedRow)
    BY DEF Init
  <1>7. now \in 0..MaxTime
    BY EngineAssumption DEF Init
  <1>8. IsFiniteSet(open_rows) /\ IsFiniteSet(closed_rows)
    BY FS_EmptySet DEF Init
  <1>9. QED
    BY <1>1, <1>2, <1>3, <1>4, <1>5, <1>6, <1>7, <1>8 DEF Init, TypeInv, TypeOK

LEMMA TypeStep == TypeInv /\ [Next]_vars => TypeInv'
  <1> SUFFICES ASSUME TypeInv, [Next]_vars PROVE TypeInv'
    OBVIOUS
  <1> USE DEF memory, store, ghosts
  <1>1. CASE Advance
    BY <1>1, EngineAssumption DEF Advance, TypeInv, TypeOK
  <1>2. ASSUME NEW s \in Symbols, BeginTick(s) PROVE TypeInv'
    <2> DEFINE groups == {LtfOf(sig) : sig \in {g \in watchlist : g.zone.sym = s}}
    <2>1. groups \subseteq Intervals
      BY SetupType DEF TypeInv, TypeOK
    <2>2. now \in -1..MaxTime
      BY EngineAssumption DEF TypeInv, TypeOK
    <2>3. AnalyzeFrom(now) \in [phase : {"idle", "watch", "scan"},
                               fired_at : -1..MaxTime,
                               groups : SUBSET Intervals, pairs : SUBSET Pairs]
      BY <2>2, AnalyzeFromType
    <2>4. tick' \in [Symbols -> [phase : {"idle", "watch", "scan"},
                                fired_at : -1..MaxTime,
                                groups : SUBSET Intervals, pairs : SUBSET Pairs]]
      BY <1>2, <2>1, <2>2, <2>3 DEF BeginTick, TypeInv, TypeOK
    <2>5. QED
      BY <1>2, <2>4 DEF BeginTick, TypeInv, TypeOK
  <1>3. ASSUME NEW s \in Symbols, NEW i \in Intervals, FetchGroup(s, i)
        PROVE  TypeInv'
    <2>1. tick' \in [Symbols -> [phase : {"idle", "watch", "scan"},
                                fired_at : -1..MaxTime,
                                groups : SUBSET Intervals, pairs : SUBSET Pairs]]
      BY <1>3 DEF FetchGroup, TypeInv, TypeOK
    <2>2. loop' \in LoopState
      BY <1>3 DEF FetchGroup, TypeInv, TypeOK, LoopState
    <2>3. QED
      BY <1>3, <2>1, <2>2 DEF FetchGroup, TypeInv, TypeOK
  <1>4. ASSUME NEW s \in Symbols, NEW i \in Intervals, FetchGroupFails(s, i)
        PROVE  TypeInv'
    <2>1. tick' \in [Symbols -> [phase : {"idle", "watch", "scan"},
                                fired_at : -1..MaxTime,
                                groups : SUBSET Intervals, pairs : SUBSET Pairs]]
      BY <1>4 DEF FetchGroupFails, TypeInv, TypeOK
    <2>2. QED
      BY <1>4, <2>1 DEF FetchGroupFails, TypeInv, TypeOK
  <1>5. ASSUME NEW s \in Symbols, FinishWatch(s) PROVE TypeInv'
    <2>1. tick[s].fired_at \in -1..MaxTime
      BY DEF TypeInv, TypeOK
    <2>2. tick' \in [Symbols -> [phase : {"idle", "watch", "scan"},
                                fired_at : -1..MaxTime,
                                groups : SUBSET Intervals, pairs : SUBSET Pairs]]
      BY <1>5, <2>1, AnalyzeFromType DEF FinishWatch, TypeInv, TypeOK
    <2>3. QED
      BY <1>5, <2>2 DEF FinishWatch, TypeInv, TypeOK
  <1>6. ASSUME NEW s \in Symbols, NEW sig \in loop.todo, KeepOpen(s, sig)
        PROVE  TypeInv'
    <2>1. loop.todo \subseteq OpenSignal
      BY DEF TypeInv, TypeOK, LoopState
    <2>2. loop' \in LoopState
      BY <1>6, <2>1 DEF KeepOpen, Resume, LoopState
    <2>3. sig \in OpenSignal /\ tick[s].fired_at \in Int
      BY <2>1, EngineAssumption DEF TypeInv, TypeOK
    <2>4. watchlist' \subseteq OpenSignal /\ open_rows' \subseteq OpenSignal
            /\ IsFiniteSet(open_rows')
      <3>1. CASE UNCHANGED <<watchlist, open_rows>>
        BY <3>1 DEF TypeInv, TypeOK
      <3>2. ASSUME NEW walk \in Walks(sig, tick[s].fired_at), NEW ok,
                   IsOpen(walk.after),
                   watchlist' = (watchlist \ {sig})
                                  \cup {[sig EXCEPT !.status = walk.after.status]},
                   open_rows' = RowsAfterTp1(sig, walk, ok)
            PROVE  watchlist' \subseteq OpenSignal /\ open_rows' \subseteq OpenSignal
                     /\ IsFiniteSet(open_rows')
        <4>1. walk.after.status \in OpenStatus
          BY <2>3, <3>2, WalkType
        <4>2. [sig EXCEPT !.status = walk.after.status] \in OpenSignal
          BY <2>3, <4>1 DEF OpenSignal
        <4>3. QED
          BY <2>3, <3>2, <4>2, RowsAfterTp1Type DEF TypeInv, TypeOK
      <3>3. QED
        BY <1>6, <3>1, <3>2 DEF KeepOpen
    <2>5. QED
      BY <1>6, <2>2, <2>4 DEF KeepOpen, TypeInv, TypeOK
  <1>7. ASSUME NEW s \in Symbols, NEW sig \in loop.todo, CloseSignal(s, sig)
        PROVE  TypeInv'
    <2>1. loop.todo \subseteq OpenSignal
      BY DEF TypeInv, TypeOK, LoopState
    <2>2. sig \in OpenSignal /\ tick[s].fired_at \in Int
      BY <2>1, EngineAssumption DEF TypeInv, TypeOK
    <2>3. PICK walk \in Walks(sig, tick[s].fired_at),
               saved \in MayFail("upsert"), deleted \in MayFail("delete") :
            /\ ~IsOpen(walk.after)
            /\ open_rows' = IF deleted
                            THEN DeleteOpen(RowsAfterTp1(sig, walk, saved), sig)
                            ELSE RowsAfterTp1(sig, walk, saved)
            /\ loop' = [at |-> "record", todo |-> loop.todo \ {sig},
                        rec |-> [sig |-> Setup(sig),
                                 outcome |-> walk.after.outcome,
                                 closed_at |-> walk.after.closed_at]]
      BY <1>7 DEF CloseSignal
    <2>4. walk.after.outcome \in SignalOutcome /\ walk.after.closed_at \in Nat
      BY <2>2, <2>3, WalkType
    <2>5. loop' \in LoopState
      BY <2>1, <2>2, <2>3, <2>4, SetupType DEF LoopState, ClosedRecord
    <2>6. open_rows' \subseteq OpenSignal /\ IsFiniteSet(open_rows')
      <3>1. /\ RowsAfterTp1(sig, walk, saved) \subseteq OpenSignal
            /\ IsFiniteSet(RowsAfterTp1(sig, walk, saved))
        BY <2>2, RowsAfterTp1Type DEF TypeInv, TypeOK
      <3>2. QED
        BY <2>2, <2>3, <3>1, UpsertType
    <2>7. watchlist' \subseteq OpenSignal
      BY <1>7 DEF CloseSignal, TypeInv, TypeOK
    <2>8. QED
      BY <1>7, <2>5, <2>6, <2>7 DEF CloseSignal, TypeInv, TypeOK
  <1>8. ASSUME NEW s \in Symbols, NEW p \in Pairs, PairDone(s, p)
        PROVE  tick' \in [Symbols -> [phase : {"idle", "watch", "scan"},
                                     fired_at : -1..MaxTime,
                                     groups : SUBSET Intervals, pairs : SUBSET Pairs]]
    BY <1>8 DEF PairDone, TypeInv, TypeOK
  <1>9. ASSUME NEW s \in Symbols, NEW p \in Pairs, ScanQuiet(s, p) PROVE TypeInv'
    BY <1>8, <1>9 DEF ScanQuiet, TypeInv, TypeOK
  <1>10. ASSUME NEW s \in Symbols, NEW p \in Pairs, ScanBlocked(s, p) PROVE TypeInv'
    <2>1. tick[s].fired_at \in -1..MaxTime
      BY DEF TypeInv, TypeOK
    <2>2. PICK sig : sig \in Candidates(s, p, tick[s].fired_at)
      BY <1>10 DEF ScanBlocked
    <2>3. PairFiredAt(p, tick[s].fired_at) \in 0..MaxTime
      BY <2>1, <2>2, CandidateType
    <2>4. MaybeRollover(PairFiredAt(p, tick[s].fired_at))
      BY <1>10 DEF ScanBlocked
    <2>5. /\ session_day' \in 0..MaxTime
          /\ history' \in Seq(ClosedRecord)
          /\ paused_until' \in Nat \cup {NoPause}
      BY <2>3, <2>4, RolloverType
    <2>6. QED
      BY <1>8, <1>10, <2>5 DEF ScanBlocked, TypeInv, TypeOK
  <1>11. ASSUME NEW s \in Symbols, NEW p \in Pairs,
                NEW sig \in Candidates(s, p, tick[s].fired_at), ScanEmits(s, p, sig)
         PROVE  TypeInv'
    <2> DEFINE signal == [zone |-> sig.zone, rej |-> sig.rej, status |-> "TRIGGERED"]
    <2>1. tick[s].fired_at \in -1..MaxTime
      BY DEF TypeInv, TypeOK
    <2>2. sig \in Signal /\ PairFiredAt(p, tick[s].fired_at) \in 0..MaxTime
      BY <2>1, CandidateType
    <2>3. /\ session_day' \in 0..MaxTime
          /\ history' \in Seq(ClosedRecord)
          /\ paused_until' \in Nat \cup {NoPause}
      <3>1. MaybeRollover(PairFiredAt(p, tick[s].fired_at))
        BY <1>11 DEF ScanEmits
      <3>2. QED
        BY <2>2, <3>1, RolloverType
    <2>4. signal \in OpenSignal
      BY <2>2 DEF Signal, OpenSignal, OpenStatus
    <2>5. dedup' \in DedupState
      <3>1. IsFiniteSet({sig})
        BY FS_Singleton
      <3>2. QED
        BY <1>11, <2>2, <3>1, RegisterType DEF ScanEmits, TypeInv, TypeOK
    <2>6. open_rows' \subseteq OpenSignal /\ IsFiniteSet(open_rows')
      <3>1. open_rows' = UpsertOpen(open_rows, signal) \/ open_rows' = open_rows
        BY <1>11 DEF ScanEmits
      <3>2. QED
        BY <2>4, <3>1, UpsertType DEF TypeInv, TypeOK
    <2>7. loop' \in LoopState
      BY <1>11, <2>2 DEF ScanEmits, LoopState
    <2>8. watchlist' \subseteq OpenSignal
      BY <1>11, <2>4 DEF ScanEmits, TypeInv, TypeOK
    <2>9. PairDone(s, p) /\ UNCHANGED <<now, up, closed_rows, session_json, ghosts>>
      BY <1>11 DEF ScanEmits
    <2>10. QED
      BY <1>8, <2>3, <2>5, <2>6, <2>7, <2>8, <2>9 DEF TypeInv, TypeOK
  <1>12. CASE RecordOutcome
    <2> DEFINE rec == loop.rec
    <2>1. rec \in ClosedRecord /\ loop.todo \subseteq OpenSignal
      BY <1>12 DEF RecordOutcome, TypeInv, TypeOK, LoopState
    <2>2. history' \in Seq(ClosedRecord)
      BY <1>12, <2>1 DEF RecordOutcome, TypeInv, TypeOK
    <2>3. dedup' \in DedupState
      BY <1>12 DEF RecordOutcome, ReleaseDirection, DedupState, TypeInv, TypeOK
    <2>4. session_day \in 0..MaxTime /\ session_day \in Nat
      BY EngineAssumption DEF TypeInv, TypeOK
    <2>5. [rec |-> rec, day |-> session_day] \in ClosedRow
      BY <2>1, <2>4 DEF ClosedRow
    <2>6. closed_rows' \subseteq ClosedRow /\ IsFiniteSet(closed_rows')
      <3>1. closed_rows' = closed_rows
              \/ closed_rows' = closed_rows \cup {[rec |-> rec, day |-> session_day]}
        BY <1>12 DEF RecordOutcome, InsertClosed
      <3>2. closed_rows \subseteq ClosedRow /\ IsFiniteSet(closed_rows)
        BY DEF TypeInv, TypeOK
      <3>3. IsFiniteSet(closed_rows \cup {[rec |-> rec, day |-> session_day]})
        BY <3>2, FS_AddElement
      <3>4. QED
        BY <2>5, <3>1, <3>2, <3>3
    <2>7. ledger' \in Seq(ClosedRow)
      BY <1>12, <2>5 DEF RecordOutcome, TypeInv, TypeOK
    <2>8. loop' \in LoopState
      BY <1>12, <2>1 DEF RecordOutcome, LoopState
    <2>9. UNCHANGED <<now, up, tick, watchlist, session_day, paused_until, open_rows,
                      session_json, announced>>
      BY <1>12 DEF RecordOutcome
    <2>10. QED
      BY <2>2, <2>3, <2>6, <2>7, <2>8, <2>9 DEF TypeInv, TypeOK
  <1>13. CASE AppendRecord
    <2>1. loop.rec \in ClosedRecord /\ loop.todo \subseteq OpenSignal
      BY <1>13 DEF AppendRecord, TypeInv, TypeOK, LoopState
    <2>2. paused_until' \in Nat \cup {NoPause}
      <3>1. now \in Nat /\ history \in Seq(ClosedRecord)
        BY EngineAssumption DEF TypeInv, TypeOK
      <3>2. QED
        BY <1>13, <3>1, CheckStreakType DEF AppendRecord
    <2>3. session_json' \in [0..MaxTime -> Seq(ClosedRecord)]
      <3>1. session_json' = session_json
              \/ session_json' = [session_json EXCEPT ![session_day] =
                                    Append(session_json[session_day], loop.rec)]
        BY <1>13 DEF AppendRecord
      <3>2. session_json[session_day] \in Seq(ClosedRecord)
        BY DEF TypeInv, TypeOK
      <3>3. Append(session_json[session_day], loop.rec) \in Seq(ClosedRecord)
        BY <2>1, <3>2
      <3>4. QED
        BY <3>1, <3>3 DEF TypeInv, TypeOK
    <2>4. loop' \in LoopState
      BY <1>13, <2>1 DEF AppendRecord, Resume, LoopState
    <2>5. UNCHANGED <<now, up, tick, watchlist, dedup, history, session_day, open_rows,
                      closed_rows, announced, ledger>>
      BY <1>13 DEF AppendRecord, ghosts
    <2>6. QED
      BY <2>2, <2>3, <2>4, <2>5 DEF TypeInv, TypeOK
  <1>14. CASE Announce
    <2>1. loop.sig \in Signal
      BY <1>14 DEF Announce, TypeInv, TypeOK, LoopState
    <2>2. loop' \in LoopState
      BY <1>14 DEF Announce, FreeLoop, LoopState
    <2>3. QED
      BY <1>14, <2>1, <2>2 DEF Announce, TypeInv, TypeOK
  <1>15. Day(now) \in 0..MaxTime
    <2>1. now \in 0..MaxTime /\ now \in Nat
      BY EngineAssumption DEF TypeInv, TypeOK
    <2>2. Day(now) \in Nat /\ Day(now) <= now
      BY <2>1, DayBelow
    <2>3. QED
      BY <2>1, <2>2, EngineAssumption
  <1>16. CASE Crash
    <2>1. EmptyDedup \in DedupState
      BY DEF EmptyDedup, DedupState
    <2>2. tick' \in [Symbols -> [phase : {"idle", "watch", "scan"},
                                fired_at : -1..MaxTime,
                                groups : SUBSET Intervals, pairs : SUBSET Pairs]]
      BY <1>16, EngineAssumption DEF Crash, IdleTick
    <2>3. loop' \in LoopState
      BY <1>16 DEF Crash, FreeLoop, LoopState
    <2>4. history' \in Seq(ClosedRecord)
      BY <1>16 DEF Crash
    <2>5. QED
      BY <1>15, <1>16, <2>1, <2>2, <2>3, <2>4 DEF Crash, TypeInv, TypeOK
  <1>17. CASE Restart
    <2>1. history' \in Seq(ClosedRecord)
      <3>1. LoadSession(Day(now)) \subseteq Seq(ClosedRecord)
        BY <1>15, LoadSessionType DEF TypeInv, TypeOK
      <3>2. QED
        BY <1>17, <3>1 DEF Restart
    <2>2. paused_until' \in Nat \cup {NoPause}
      <3>1. now \in Nat
        BY EngineAssumption DEF TypeInv, TypeOK
      <3>2. QED
        BY <1>17, <2>1, <3>1, CheckStreakType DEF Restart
    <2>3. PICK replayed \in MayFail("load_dedup"), loaded \in MayFail("load_open") :
            LET closed == IF replayed THEN {row.rec.sig : row \in closed_rows} ELSE {}
                open == IF loaded THEN Restorable(open_rows) ELSE {}
            IN  /\ watchlist' = open
                /\ dedup' = Register(Replay(closed), {Setup(g) : g \in open})
      BY <1>17 DEF Restart
    <2> DEFINE closed == IF replayed THEN {row.rec.sig : row \in closed_rows} ELSE {}
               open == IF loaded THEN Restorable(open_rows) ELSE {}
    <2>4. open \subseteq open_rows
      BY DEF Restorable
    <2>5. open \subseteq OpenSignal /\ IsFiniteSet(open)
      BY <2>4, FS_Subset DEF TypeInv, TypeOK
    <2>6. closed \subseteq Signal /\ IsFiniteSet(closed)
      <3>1. {row.rec.sig : row \in closed_rows} \subseteq Signal
        BY DEF TypeInv, TypeOK, ClosedRow, ClosedRecord
      <3>2. IsFiniteSet({row.rec.sig : row \in closed_rows})
        BY FiniteRowImages DEF TypeInv
      <3>3. QED
        BY <3>1, <3>2, FS_EmptySet
    <2>7. Replay(closed) \in DedupState
      BY <2>6, ReplayType
    <2>8. {Setup(g) : g \in open} \subseteq Signal
      BY <2>5, SetupType
    <2>9. IsFiniteSet({Setup(g) : g \in open})
      BY <2>5, FiniteRowImages
    <2>10. dedup' \in DedupState
      BY <2>3, <2>7, <2>8, <2>9, RegisterType
    <2>11. watchlist' \subseteq OpenSignal
      BY <2>3, <2>5
    <2>12. up' = TRUE /\ session_day' = Day(now)
             /\ UNCHANGED <<now, tick, loop, store, ghosts>>
      BY <1>17 DEF Restart
    <2>13. QED
      BY <1>15, <2>1, <2>2, <2>10, <2>11, <2>12 DEF TypeInv, TypeOK
  <1>18. CASE UNCHANGED vars
    BY <1>18 DEF vars, TypeInv, TypeOK
  <1>19. QED
    BY <1>1, <1>2, <1>3, <1>4, <1>5, <1>6, <1>7, <1>9, <1>10, <1>11, <1>12, <1>13,
       <1>14, <1>16, <1>17, <1>18 DEF Next

(***************************************************************************)
(* The engine keeps its types, whatever the interleaving of the ticks,     *)
(* wherever it crashes and whichever store operations fail.                *)
(***************************************************************************)
THEOREM TypeCorrect == Spec => []TypeOK
  <1>1. TypeInv => TypeOK
    BY DEF TypeInv
  <1>2. Spec => []TypeInv
    BY TypeInit, TypeStep, PTL DEF Spec
  <1>3. QED
    BY <1>1, <1>2, PTL

-----------------------------------------------------------------------------
(***************************************************************************)
(* One open position per direction                                         *)
(***************************************************************************)

(***************************************************************************)
(* The two store operations the lock depends on: a row that delete_open    *)
(* left behind, or that initialize could not read, is a position the       *)
(* restarted process has no lock for.  Every other operation may fail.     *)
(***************************************************************************)
RowsReliable == "delete" \notin StoreFaults /\ "load_open" \notin StoreFaults

\* Signals with one id share their direction lock.
LEMMA SameIdSameLock ==
    ASSUME NEW a, NEW b, SignalId(a) = SignalId(b)
    PROVE  DirKey(a.zone) = DirKey(b.zone)
  BY DEF SignalId, DirKey

\* A signal keeps its id and its lock when its status changes.
LEMMA StatusKeepsId ==
    ASSUME NEW sig \in OpenSignal, NEW st
    PROVE  /\ SignalId([sig EXCEPT !.status = st]) = SignalId(sig)
           /\ [sig EXCEPT !.status = st].zone = sig.zone
           /\ [sig EXCEPT !.status = st].rej = sig.rej
  BY DEF SignalId, OpenSignal

LEMMA PositionsInit == Init => PositionsInv
  BY DEF Init, PositionsInv, OneOpenPerDirection, LocksMatchWatchlist, RowsOneOpen,
         RowsAreWatched, ClosingIsGone, TodoIsWatched, DownIsEmpty, FreeLoop,
         EmptyDedup, Locks

\* A row saved for a watched signal disturbs no other row.
LEMMA UpsertKeepsRows ==
    ASSUME TypeInv, PositionsInv, up,
           NEW sig \in watchlist, NEW st \in OpenStatus
    PROVE  LET rows == UpsertOpen(open_rows, [sig EXCEPT !.status = st])
           IN  /\ \A a, b \in rows :
                     /\ ~PastExpiry(a.rej, now) /\ ~PastExpiry(b.rej, now)
                     /\ DirKey(a.zone) = DirKey(b.zone)
                     => a = b
               /\ \A r \in rows : \/ PastExpiry(r.rej, now)
                                  \/ \E g \in watchlist : SignalId(g) = SignalId(r)
  <1> DEFINE new == [sig EXCEPT !.status = st]
             rows == UpsertOpen(open_rows, new)
  <1>1. sig \in OpenSignal
    BY DEF TypeInv, TypeOK
  <1>2. SignalId(new) = SignalId(sig) /\ new.zone = sig.zone
    BY <1>1, StatusKeepsId
  <1>3. \A r \in rows : r = new \/ (r \in open_rows /\ SignalId(r) # SignalId(sig))
    BY <1>2 DEF UpsertOpen
  <1>4. ASSUME NEW r \in open_rows, SignalId(r) # SignalId(sig),
               ~PastExpiry(r.rej, now)
        PROVE  DirKey(r.zone) # DirKey(new.zone)
    <2>1. PICK g \in watchlist : SignalId(g) = SignalId(r)
      BY <1>4 DEF PositionsInv, RowsAreWatched
    <2>2. DirKey(g.zone) = DirKey(r.zone)
      BY <2>1, SameIdSameLock
    <2>3. g # sig
      BY <1>4, <2>1
    <2>4. DirKey(g.zone) # DirKey(sig.zone)
      BY <2>3 DEF PositionsInv, OneOpenPerDirection
    <2>5. QED
      BY <1>2, <2>2, <2>4
  <1>5. ASSUME NEW a \in rows, NEW b \in rows,
               ~PastExpiry(a.rej, now), ~PastExpiry(b.rej, now),
               DirKey(a.zone) = DirKey(b.zone)
        PROVE  a = b
    <2>1. CASE a \in open_rows /\ b \in open_rows
      BY <1>5, <2>1 DEF PositionsInv, RowsOneOpen
    <2>2. CASE a = new /\ b # new
      BY <1>3, <1>4, <1>5, <2>2
    <2>3. CASE a # new /\ b = new
      BY <1>3, <1>4, <1>5, <2>3
    <2>4. QED
      BY <1>3, <2>1, <2>2, <2>3
  <1>6. ASSUME NEW r \in rows, ~PastExpiry(r.rej, now)
        PROVE  \E g \in watchlist : SignalId(g) = SignalId(r)
    BY <1>2, <1>3, <1>6 DEF PositionsInv, RowsAreWatched
  <1>7. QED
    BY <1>5, <1>6

\* Steps that touch none of the positions.
LEMMA PositionsStutter ==
    ASSUME PositionsInv, UNCHANGED <<now, up, loop, watchlist, dedup, open_rows>>
    PROVE  PositionsInv'
  BY DEF PositionsInv, OneOpenPerDirection, LocksMatchWatchlist, RowsOneOpen,
         RowsAreWatched, ClosingIsGone, TodoIsWatched, DownIsEmpty

LEMMA PositionsAdvance == TypeInv /\ PositionsInv /\ Advance => PositionsInv'
  <1> SUFFICES ASSUME TypeInv, PositionsInv, Advance PROVE PositionsInv'
    OBVIOUS
  <1>1. /\ now' = now + 1
        /\ UNCHANGED <<up, loop, watchlist, dedup, open_rows>>
    BY DEF Advance, memory, store
  <1>2. \A r \in open_rows : PastExpiry(r.rej, now) => PastExpiry(r.rej, now')
    <2>1. \A r \in open_rows : r.rej \in Nat
      BY SetupType DEF TypeInv, TypeOK
    <2>2. now \in Nat
      BY EngineAssumption DEF TypeInv, TypeOK
    <2>3. QED
      BY <1>1, <2>1, <2>2, SignalExpiryAssumption DEF PastExpiry
  <1>3. RowsOneOpen'
    BY <1>1, <1>2 DEF PositionsInv, RowsOneOpen
  <1>4. RowsAreWatched'
    BY <1>1, <1>2 DEF PositionsInv, RowsAreWatched
  <1>5. QED
    BY <1>1, <1>3, <1>4 DEF PositionsInv, OneOpenPerDirection, LocksMatchWatchlist,
                            ClosingIsGone, TodoIsWatched, DownIsEmpty

LEMMA PositionsFetch ==
    ASSUME PositionsInv, NEW s, NEW i, FetchGroup(s, i)
    PROVE  PositionsInv'
  <1>1. /\ up /\ loop.at = "free" /\ loop'.at = "evaluate"
        /\ loop'.todo \subseteq watchlist
        /\ UNCHANGED <<now, up, watchlist, dedup, open_rows>>
    BY DEF FetchGroup, memory, store
  <1>2. QED
    BY <1>1 DEF PositionsInv, OneOpenPerDirection, LocksMatchWatchlist, RowsOneOpen,
                RowsAreWatched, ClosingIsGone, TodoIsWatched, DownIsEmpty

LEMMA PositionsKeepOpen ==
    ASSUME TypeInv, PositionsInv, NEW s \in Symbols, NEW sig \in loop.todo,
           KeepOpen(s, sig)
    PROVE  PositionsInv'
  <1>1. /\ up /\ loop.at = "evaluate" /\ loop' = Resume(loop.todo \ {sig})
        /\ loop'.at # "record" /\ loop'.todo = loop.todo \ {sig}
        /\ UNCHANGED <<now, up, tick, dedup>>
    BY DEF KeepOpen, Resume
  <1>2. sig \in watchlist /\ sig \in OpenSignal /\ tick[s].fired_at \in Int
    BY EngineAssumption DEF PositionsInv, TodoIsWatched, TypeInv, TypeOK
  <1>3. CASE UNCHANGED <<watchlist, open_rows>>
    BY <1>1, <1>3 DEF PositionsInv, OneOpenPerDirection, LocksMatchWatchlist,
              RowsOneOpen, RowsAreWatched, ClosingIsGone, TodoIsWatched, DownIsEmpty
  <1>4. ASSUME NEW walk \in Walks(sig, tick[s].fired_at), NEW ok,
               IsOpen(walk.after),
               watchlist' = (watchlist \ {sig})
                              \cup {[sig EXCEPT !.status = walk.after.status]},
               open_rows' = RowsAfterTp1(sig, walk, ok)
        PROVE  PositionsInv'
    <2> DEFINE new == [sig EXCEPT !.status = walk.after.status]
    <2>1. SignalId(new) = SignalId(sig) /\ new.zone = sig.zone
      BY <1>2, StatusKeepsId
    <2>2. OneOpenPerDirection'
      BY <1>2, <1>4, <2>1 DEF PositionsInv, OneOpenPerDirection
    <2>3. Locks(watchlist') = Locks(watchlist)
      BY <1>2, <1>4, <2>1 DEF Locks
    <2>4. LocksMatchWatchlist'
      BY <1>1, <2>3 DEF PositionsInv, LocksMatchWatchlist
    <2>5. /\ \A a, b \in open_rows' :
                /\ ~PastExpiry(a.rej, now) /\ ~PastExpiry(b.rej, now)
                /\ DirKey(a.zone) = DirKey(b.zone)
                => a = b
          /\ \A r \in open_rows' : \/ PastExpiry(r.rej, now)
                                   \/ \E g \in watchlist : SignalId(g) = SignalId(r)
      <3>1. CASE open_rows' = open_rows
        BY <1>1, <3>1 DEF PositionsInv, RowsOneOpen, RowsAreWatched
      <3>2. CASE open_rows' = UpsertOpen(open_rows, [sig EXCEPT !.status = "TP1_HIT"])
        <4>1. "TP1_HIT" \in OpenStatus
          BY DEF OpenStatus
        <4>2. QED
          BY <1>1, <1>2, <3>2, <4>1, UpsertKeepsRows
      <3>3. QED
        BY <1>4, <3>1, <3>2 DEF RowsAfterTp1
    <2>6. RowsOneOpen'
      BY <1>1, <2>5 DEF RowsOneOpen
    <2>7. RowsAreWatched'
      BY <1>1, <1>4, <2>1, <2>5 DEF RowsAreWatched
    <2>8. TodoIsWatched'
      BY <1>1, <1>4 DEF PositionsInv, TodoIsWatched
    <2>9. QED
      BY <1>1, <2>2, <2>4, <2>6, <2>7, <2>8
         DEF PositionsInv, ClosingIsGone, DownIsEmpty
  <1>5. QED
    BY <1>3, <1>4 DEF KeepOpen

LEMMA PositionsClose ==
    ASSUME RowsReliable, TypeInv, PositionsInv, NEW s \in Symbols,
           NEW sig \in loop.todo, CloseSignal(s, sig)
    PROVE  PositionsInv'
  <1>1. /\ up /\ loop.at = "evaluate"
        /\ watchlist' = {g \in watchlist : SignalId(g) # SignalId(sig)}
        /\ UNCHANGED <<now, up, dedup>>
    BY DEF CloseSignal
  <1>2. PICK walk, saved :
          /\ open_rows' = DeleteOpen(RowsAfterTp1(sig, walk, saved), sig)
          /\ loop'.at = "record" /\ loop'.todo = loop.todo \ {sig}
          /\ loop'.rec.sig = Setup(sig)
    <2>1. MayFail("delete") = {TRUE}
      BY DEF RowsReliable, MayFail
    <2>2. PICK walk \in Walks(sig, tick[s].fired_at),
               saved \in MayFail("upsert"), deleted \in MayFail("delete") :
            /\ open_rows' = IF deleted
                            THEN DeleteOpen(RowsAfterTp1(sig, walk, saved), sig)
                            ELSE RowsAfterTp1(sig, walk, saved)
            /\ loop' = [at |-> "record", todo |-> loop.todo \ {sig},
                        rec |-> [sig |-> Setup(sig),
                                 outcome |-> walk.after.outcome,
                                 closed_at |-> walk.after.closed_at]]
      BY DEF CloseSignal
    <2>3. deleted = TRUE
      BY <2>1
    <2>4. QED
      BY <2>2, <2>3
  <1>3. sig \in watchlist /\ sig \in OpenSignal
    BY DEF PositionsInv, TodoIsWatched, TypeInv, TypeOK
  <1>4. loop'.rec.sig.zone = sig.zone
    BY <1>2 DEF Setup
  <1>5. \A g \in watchlist : SignalId(g) = SignalId(sig) => g = sig
    BY <1>3, SameIdSameLock DEF PositionsInv, OneOpenPerDirection
  <1>6. open_rows' \subseteq {r \in open_rows : SignalId(r) # SignalId(sig)}
    <2>1. SignalId([sig EXCEPT !.status = "TP1_HIT"]) = SignalId(sig)
      BY <1>3, StatusKeepsId
    <2>2. QED
      BY <1>2, <2>1 DEF DeleteOpen, RowsAfterTp1, UpsertOpen
  <1>7. OneOpenPerDirection'
    BY <1>1 DEF PositionsInv, OneOpenPerDirection
  <1>8. ClosingIsGone'
    BY <1>1, <1>3, <1>4 DEF PositionsInv, OneOpenPerDirection, ClosingIsGone
  <1>9. LocksMatchWatchlist'
    <2>1. Locks(watchlist) = Locks(watchlist') \cup {DirKey(sig.zone)}
      BY <1>1, <1>3, <1>5 DEF Locks
    <2>2. QED
      BY <1>1, <1>2, <1>4, <2>1 DEF PositionsInv, LocksMatchWatchlist
  <1>10. RowsOneOpen'
    BY <1>1, <1>6 DEF PositionsInv, RowsOneOpen
  <1>11. RowsAreWatched'
    BY <1>1, <1>6 DEF PositionsInv, RowsAreWatched
  <1>12. TodoIsWatched'
    BY <1>1, <1>2, <1>5 DEF PositionsInv, TodoIsWatched
  <1>13. QED
    BY <1>1, <1>7, <1>8, <1>9, <1>10, <1>11, <1>12 DEF PositionsInv, DownIsEmpty

LEMMA PositionsRecord ==
    ASSUME TypeInv, PositionsInv, RecordOutcome
    PROVE  PositionsInv'
  <1> DEFINE key == DirKey(loop.rec.sig.zone)
  <1>1. /\ up /\ loop.at = "record"
        /\ loop'.at # "record" /\ loop'.todo = loop.todo
        /\ dedup' = ReleaseDirection(dedup, loop.rec.sig.zone)
        /\ UNCHANGED <<now, up, watchlist, open_rows>>
    BY DEF RecordOutcome
  <1>2. dedup'.open_dir = dedup.open_dir \ {key}
    BY <1>1 DEF ReleaseDirection, TypeInv, TypeOK, DedupState
  <1>3. key \notin Locks(watchlist)
    BY <1>1 DEF PositionsInv, ClosingIsGone, Locks
  <1>4. dedup.open_dir = Locks(watchlist) \cup {key}
    BY <1>1 DEF PositionsInv, LocksMatchWatchlist
  <1>5. LocksMatchWatchlist'
    BY <1>1, <1>2, <1>3, <1>4 DEF LocksMatchWatchlist
  <1>6. QED
    BY <1>1, <1>5 DEF PositionsInv, OneOpenPerDirection, RowsOneOpen,
                      RowsAreWatched, ClosingIsGone, TodoIsWatched, DownIsEmpty

LEMMA PositionsAppend ==
    ASSUME TypeInv, PositionsInv, AppendRecord
    PROVE  PositionsInv'
  <1>1. /\ up /\ loop.at # "record" /\ loop'.at # "record" /\ loop'.todo = loop.todo
        /\ UNCHANGED <<now, up, watchlist, dedup, open_rows>>
    BY DEF AppendRecord, Resume
  <1>2. QED
    BY <1>1 DEF PositionsInv, OneOpenPerDirection, LocksMatchWatchlist, RowsOneOpen,
                RowsAreWatched, ClosingIsGone, TodoIsWatched, DownIsEmpty

LEMMA PositionsEmit ==
    ASSUME TypeInv, PositionsInv, NEW s \in Symbols, NEW p \in Pairs,
           NEW sig \in Candidates(s, p, tick[s].fired_at), ScanEmits(s, p, sig)
    PROVE  PositionsInv'
  <1> DEFINE new == [zone |-> sig.zone, rej |-> sig.rej, status |-> "TRIGGERED"]
  <1>1. /\ up /\ loop.at = "free"
        /\ DirKey(sig.zone) \notin dedup.open_dir
        /\ dedup' = Register(dedup, {sig})
        /\ watchlist' = watchlist \cup {new}
        /\ open_rows' = UpsertOpen(open_rows, new) \/ open_rows' = open_rows
        /\ loop'.at = "announce" /\ loop'.todo = {}
        /\ UNCHANGED <<now, up>>
    BY DEF ScanEmits, ShouldEmit, IsDirectionOpen
  <1>2. dedup.open_dir = Locks(watchlist)
    BY <1>1 DEF PositionsInv, LocksMatchWatchlist
  <1>3. \A g \in watchlist : DirKey(g.zone) # DirKey(new.zone)
    BY <1>1, <1>2 DEF Locks
  <1>4. OneOpenPerDirection'
    BY <1>1, <1>3 DEF PositionsInv, OneOpenPerDirection
  <1>5. LocksMatchWatchlist'
    <2>1. Locks(watchlist') = Locks(watchlist) \cup {DirKey(sig.zone)}
      BY <1>1 DEF Locks
    <2>2. dedup'.open_dir = dedup.open_dir \cup {DirKey(sig.zone)}
      BY <1>1 DEF Register, Locks
    <2>3. QED
      BY <1>1, <1>2, <2>1, <2>2 DEF LocksMatchWatchlist
  <1>6. \A r \in open_rows : ~PastExpiry(r.rej, now) => DirKey(r.zone) # DirKey(new.zone)
    <2> SUFFICES ASSUME NEW r \in open_rows, ~PastExpiry(r.rej, now)
                 PROVE  DirKey(r.zone) # DirKey(new.zone)
      OBVIOUS
    <2>1. PICK g \in watchlist : SignalId(g) = SignalId(r)
      BY <1>1 DEF PositionsInv, RowsAreWatched
    <2>2. DirKey(g.zone) = DirKey(r.zone)
      BY <2>1, SameIdSameLock
    <2>3. QED
      BY <1>3, <2>2
  <1>7. \A r \in open_rows' : r = new \/ r \in open_rows
    BY <1>1 DEF UpsertOpen
  <1>8. RowsOneOpen'
    BY <1>1, <1>6, <1>7 DEF PositionsInv, RowsOneOpen
  <1>9. RowsAreWatched'
    BY <1>1, <1>7 DEF PositionsInv, RowsAreWatched
  <1>10. QED
    BY <1>1, <1>4, <1>5, <1>8, <1>9
       DEF PositionsInv, ClosingIsGone, TodoIsWatched, DownIsEmpty

LEMMA PositionsAnnounce ==
    ASSUME PositionsInv, Announce
    PROVE  PositionsInv'
  <1>1. /\ up /\ loop.at = "announce" /\ loop'.at = "free" /\ loop'.todo = {}
        /\ UNCHANGED <<now, up, watchlist, dedup, open_rows>>
    BY DEF Announce, FreeLoop, memory, store
  <1>2. QED
    BY <1>1 DEF PositionsInv, OneOpenPerDirection, LocksMatchWatchlist, RowsOneOpen,
                RowsAreWatched, ClosingIsGone, TodoIsWatched, DownIsEmpty

LEMMA PositionsCrash ==
    ASSUME PositionsInv, Crash
    PROVE  PositionsInv'
  <1>1. /\ up' = FALSE /\ loop' = FreeLoop /\ watchlist' = {} /\ dedup' = EmptyDedup
        /\ UNCHANGED <<now, open_rows>>
    BY DEF Crash, store
  <1>2. loop'.at = "free" /\ loop'.todo = {} /\ dedup'.open_dir = {}
    BY <1>1 DEF FreeLoop, EmptyDedup
  <1>3. QED
    BY <1>1, <1>2 DEF PositionsInv, OneOpenPerDirection, LocksMatchWatchlist,
                RowsOneOpen, RowsAreWatched, ClosingIsGone, TodoIsWatched,
                DownIsEmpty, Locks

LEMMA PositionsRestart ==
    ASSUME RowsReliable, PositionsInv, Restart
    PROVE  PositionsInv'
  <1>1. /\ ~up /\ up' = TRUE
        /\ UNCHANGED <<now, loop, open_rows>>
    BY DEF Restart, store
  <1>2. loop.at = "free" /\ loop.todo = {}
    BY <1>1 DEF PositionsInv, DownIsEmpty, FreeLoop
  <1>3. PICK closed : /\ watchlist' = Restorable(open_rows)
                      /\ dedup' = Register(Replay(closed),
                                           {Setup(g) : g \in Restorable(open_rows)})
    <2>1. MayFail("load_open") = {TRUE}
      BY DEF RowsReliable, MayFail
    <2>2. PICK replayed \in MayFail("load_dedup"), loaded \in MayFail("load_open") :
            LET closed == IF replayed THEN {row.rec.sig : row \in closed_rows} ELSE {}
                open == IF loaded THEN Restorable(open_rows) ELSE {}
            IN  /\ watchlist' = open
                /\ dedup' = Register(Replay(closed), {Setup(g) : g \in open})
      BY DEF Restart
    <2>3. loaded = TRUE
      BY <2>1
    <2>4. QED
      BY <2>2, <2>3
  <1>4. dedup'.open_dir = Locks(watchlist')
    <2> DEFINE open == Restorable(open_rows)
               setups == {Setup(g) : g \in open}
    <2>1. dedup'.open_dir = Locks(setups)
      BY <1>3 DEF Register, Replay
    <2>2. \A g : Setup(g).zone = g.zone
      BY DEF Setup
    <2>3. Locks(setups) \subseteq Locks(open)
      BY <2>2 DEF Locks
    <2>4. Locks(open) \subseteq Locks(setups)
      <3> SUFFICES ASSUME NEW g \in open PROVE DirKey(g.zone) \in Locks(setups)
        BY DEF Locks
      <3>1. Setup(g) \in setups /\ DirKey(Setup(g).zone) = DirKey(g.zone)
        BY <2>2
      <3>2. QED
        BY <3>1 DEF Locks
    <2>5. Locks(setups) = Locks(open)
      BY <2>3, <2>4
    <2>6. watchlist' = open
      BY <1>3
    <2> HIDE DEF open, setups
    <2>7. QED
      BY <2>1, <2>5, <2>6
  <1>5. OneOpenPerDirection'
    BY <1>1, <1>3 DEF PositionsInv, RowsOneOpen, OneOpenPerDirection, Restorable
  <1>6. LocksMatchWatchlist'
    BY <1>1, <1>2, <1>4 DEF LocksMatchWatchlist
  <1>7. RowsAreWatched'
    BY <1>1, <1>3 DEF RowsAreWatched, Restorable
  <1>8. RowsOneOpen'
    BY <1>1 DEF PositionsInv, RowsOneOpen
  <1>9. QED
    BY <1>1, <1>2, <1>5, <1>6, <1>7, <1>8
       DEF PositionsInv, ClosingIsGone, TodoIsWatched, DownIsEmpty

LEMMA PositionsStep ==
    RowsReliable /\ TypeInv /\ PositionsInv /\ [Next]_vars => PositionsInv'
  <1> SUFFICES ASSUME RowsReliable, TypeInv, PositionsInv, [Next]_vars
               PROVE  PositionsInv'
    OBVIOUS
  <1>1. CASE Advance
    BY <1>1, PositionsAdvance
  <1>2. ASSUME NEW s \in Symbols, BeginTick(s) \/ FinishWatch(s) PROVE PositionsInv'
    <2>1. UNCHANGED <<now, up, loop, watchlist, dedup, open_rows>>
      BY <1>2 DEF BeginTick, FinishWatch, memory, store
    <2>2. QED
      BY <2>1, PositionsStutter
  <1>3. ASSUME NEW s \in Symbols, NEW i \in Intervals,
               FetchGroup(s, i) \/ FetchGroupFails(s, i)
        PROVE  PositionsInv'
    <2>1. CASE FetchGroup(s, i)
      BY <2>1, PositionsFetch
    <2>2. CASE FetchGroupFails(s, i)
      <3>1. UNCHANGED <<now, up, loop, watchlist, dedup, open_rows>>
        BY <2>2 DEF FetchGroupFails, memory, store
      <3>2. QED
        BY <3>1, PositionsStutter
    <2>3. QED
      BY <1>3, <2>1, <2>2
  <1>4. ASSUME NEW s \in Symbols, NEW sig \in loop.todo,
               KeepOpen(s, sig) \/ CloseSignal(s, sig)
        PROVE  PositionsInv'
    BY <1>4, PositionsKeepOpen, PositionsClose
  <1>5. ASSUME NEW s \in Symbols, NEW p \in Pairs, ScanQuiet(s, p) \/ ScanBlocked(s, p)
        PROVE  PositionsInv'
    <2>1. UNCHANGED <<now, up, loop, watchlist, dedup, open_rows>>
      BY <1>5 DEF ScanQuiet, ScanBlocked, memory, store
    <2>2. QED
      BY <2>1, PositionsStutter
  <1>6. ASSUME NEW s \in Symbols, NEW p \in Pairs,
               NEW sig \in Candidates(s, p, tick[s].fired_at), ScanEmits(s, p, sig)
        PROVE  PositionsInv'
    BY <1>6, PositionsEmit
  <1>7. CASE RecordOutcome \/ AppendRecord
    BY <1>7, PositionsRecord, PositionsAppend
  <1>8. CASE Announce
    BY <1>8, PositionsAnnounce
  <1>9. CASE Crash
    BY <1>9, PositionsCrash
  <1>10. CASE Restart
    BY <1>10, PositionsRestart
  <1>11. CASE UNCHANGED vars
    BY <1>11, PositionsStutter DEF vars, memory, store
  <1>12. QED
    BY <1>1, <1>2, <1>3, <1>4, <1>5, <1>6, <1>7, <1>8, <1>9, <1>10, <1>11 DEF Next

(***************************************************************************)
(* Rule B for every configuration: with the two store operations it rests  *)
(* on reliable, no two watched signals ever share a direction lock.        *)
(***************************************************************************)
THEOREM OnePositionPerDirection ==
    RowsReliable => (Spec => []OneOpenPerDirection)
  <1> SUFFICES ASSUME RowsReliable PROVE Spec => []OneOpenPerDirection
    OBVIOUS
  <1>1. TypeInv /\ PositionsInv /\ [Next]_vars => (TypeInv /\ PositionsInv)'
    BY TypeStep, PositionsStep
  <1>2. Init => TypeInv /\ PositionsInv
    BY TypeInit, PositionsInit
  <1>3. PositionsInv => OneOpenPerDirection
    BY DEF PositionsInv
  <1>4. QED
    BY <1>1, <1>2, <1>3, PTL DEF Spec

(***************************************************************************)
(* The direction locks are at all times those of the watched signals and   *)
(* of the one being closed: none outlives its signal, none is missing.     *)
(***************************************************************************)
THEOREM LocksAreThoseOfTheWatchlist ==
    RowsReliable => (Spec => []LocksMatchWatchlist)
  <1> SUFFICES ASSUME RowsReliable PROVE Spec => []LocksMatchWatchlist
    OBVIOUS
  <1>1. TypeInv /\ PositionsInv /\ [Next]_vars => (TypeInv /\ PositionsInv)'
    BY TypeStep, PositionsStep
  <1>2. Init => TypeInv /\ PositionsInv
    BY TypeInit, PositionsInit
  <1>3. PositionsInv => LocksMatchWatchlist
    BY DEF PositionsInv
  <1>4. QED
    BY <1>1, <1>2, <1>3, PTL DEF Spec

-----------------------------------------------------------------------------
(***************************************************************************)
(* What the tables remember: the rows of the watched signals, the          *)
(* rejections and zones that were used, and the session whose losses pause *)
(* the engine.  Each theorem names the store operations it needs; the      *)
(* other ones may fail at any call.                                        *)
(***************************************************************************)

-----------------------------------------------------------------------------
(***************************************************************************)
(* What the steps on an open signal do to the tables                       *)
(***************************************************************************)

\* A step that leaves a trade open moves it from TRIGGERED to TP1_HIT or not
\* at all.
LEMMA StepStaysOpen ==
    ASSUME NEW rej \in Nat, NEW st \in OpenStatus, NEW c \in Candle,
           NEW be \in BOOLEAN, NEW t \in Nat,
           NEW after,
           after = StepSignalState([NewTrade(rej) EXCEPT !.status = st], c, be, t),
           IsOpen(after)
    PROVE  after.status = st \/ after.status = "TP1_HIT"
  <1> DEFINE start == [created_at |-> rej, status |-> st, outcome |-> "none",
                       realized_rr |-> "none", closed_at |-> -1]
  <1>1. [NewTrade(rej) EXCEPT !.status = st] = start
    BY DEF NewTrade
  <1>2. st = "TRIGGERED" \/ st = "TP1_HIT"
    BY DEF OpenStatus
  <1>3. start.status = st /\ start.created_at = rej
    OBVIOUS
  <1>4. CASE PastExpiry(rej, t)
    <2>1. after = Expire(start, be, t)
      BY <1>1, <1>3, <1>4 DEF StepSignalState
    <2>2. after.status = "EXPIRED"
      BY <1>2, <1>3, <2>1 DEF Expire, Settle
    <2>3. QED
      BY <2>2 DEF IsOpen, OpenStatus
  <1>5. CASE ~PastExpiry(rej, t) /\ st = "TRIGGERED"
    BY <1>5 DEF IsOpen, OpenStatus
  <1>6. CASE ~PastExpiry(rej, t) /\ st = "TP1_HIT"
    <2>1. after = StepTp1Hit(start, c, be, t)
      BY <1>1, <1>3, <1>6 DEF StepSignalState
    <2>2. QED
      BY <1>3, <2>1 DEF StepTp1Hit, Settle, IsOpen, OpenStatus
  <1>7. QED
    BY <1>2, <1>4, <1>5, <1>6

\* A walk that leaves the signal open ends in TP1_HIT exactly when it hit TP1
\* or the signal had hit it before, and starts after the rejection candle.
LEMMA WalkStaysOpen ==
    ASSUME NEW sig \in OpenSignal, NEW f \in Int, NEW walk \in Walks(sig, f),
           IsOpen(walk.after)
    PROVE  walk.after.status = IF HitsTp1(sig, walk) THEN "TP1_HIT" ELSE sig.status
  <1> DEFINE times == CandleTimes(sig, f)
  <1>1. times \subseteq Nat
    BY SetupType DEF CandleTimes
  <1>2. PICK t \in times, st \in {sig.status, "TP1_HIT"}, c \in Candle :
            walk = [before |-> st,
                    after |-> StepSignalState(AsTrade(sig, st), c, MoveSlToBe, t)]
    BY DEF Walks
  <1>3. st \in OpenStatus /\ sig.rej \in Nat /\ t \in Nat /\ sig.status \in OpenStatus
    BY <1>1, SetupType DEF OpenStatus
  <1>4. walk.after = StepSignalState([NewTrade(sig.rej) EXCEPT !.status = st],
                                     c, MoveSlToBe, t)
    BY <1>2 DEF AsTrade
  <1>5. walk.after.status = st \/ walk.after.status = "TP1_HIT"
    BY <1>3, <1>4, StepStaysOpen, EngineAssumption
  <1>6. walk.before = st
    BY <1>2
  <1>7. sig.status = "TRIGGERED" \/ sig.status = "TP1_HIT"
    BY <1>3 DEF OpenStatus
  <1>8. QED
    BY <1>5, <1>6, <1>7 DEF HitsTp1

\* A walk visits a candle that opened after the rejection candle had closed and
\* that is closed at the tick.
LEMMA WalkHasCandle ==
    ASSUME NEW sig, NEW f, NEW walk \in Walks(sig, f)
    PROVE  \E t : t \in CandleTimes(sig, f)
  BY DEF Walks

(***************************************************************************)
(* KeepOpen leaves watchlist and table alone, or moves the signal to       *)
(* TP1_HIT in both.                                                        *)
(***************************************************************************)
LEMMA KeepOpenEffect ==
    ASSUME "upsert" \notin StoreFaults, TypeInv, NEW s \in Symbols,
           NEW sig \in watchlist, KeepOpen(s, sig)
    PROVE  \/ UNCHANGED <<watchlist, open_rows>>
           \/ /\ watchlist' = (watchlist \ {sig})
                                \cup {[sig EXCEPT !.status = "TP1_HIT"]}
              /\ open_rows' = UpsertOpen(open_rows, [sig EXCEPT !.status = "TP1_HIT"])
  <1>1. sig \in OpenSignal /\ tick[s].fired_at \in Int
    BY EngineAssumption DEF TypeInv, TypeOK
  <1>2. MayFail("upsert") = {TRUE}
    BY DEF MayFail
  <1>3. SUFFICES ASSUME NEW walk \in Walks(sig, tick[s].fired_at), IsOpen(walk.after),
                        watchlist' = (watchlist \ {sig})
                          \cup {[sig EXCEPT !.status = walk.after.status]},
                        open_rows' = RowsAfterTp1(sig, walk, TRUE)
                 PROVE  \/ UNCHANGED <<watchlist, open_rows>>
                        \/ /\ watchlist' = (watchlist \ {sig})
                                \cup {[sig EXCEPT !.status = "TP1_HIT"]}
                           /\ open_rows' =
                                UpsertOpen(open_rows, [sig EXCEPT !.status = "TP1_HIT"])
    BY <1>2 DEF KeepOpen
  <1>4. walk.after.status = IF HitsTp1(sig, walk) THEN "TP1_HIT" ELSE sig.status
    BY <1>1, <1>3, WalkStaysOpen
  <1>5. CASE HitsTp1(sig, walk)
    BY <1>3, <1>4, <1>5 DEF RowsAfterTp1
  <1>6. CASE ~HitsTp1(sig, walk)
    <2>1. [sig EXCEPT !.status = sig.status] = sig
      BY <1>1 DEF OpenSignal
    <2>2. QED
      BY <1>3, <1>4, <1>6, <2>1 DEF RowsAfterTp1
  <1>7. QED
    BY <1>5, <1>6

\* CloseSignal takes the signal's id out of the watchlist and out of the table.
LEMMA CloseSignalEffect ==
    ASSUME "delete" \notin StoreFaults, NEW s, NEW sig \in OpenSignal,
           CloseSignal(s, sig)
    PROVE  /\ up /\ loop.at = "evaluate" /\ loop'.at = "record"
           /\ loop'.rec.sig = Setup(sig)
           /\ loop'.todo = loop.todo \ {sig}
           /\ watchlist' = {g \in watchlist : SignalId(g) # SignalId(sig)}
           /\ open_rows' = {r \in open_rows : SignalId(r) # SignalId(sig)}
           /\ UNCHANGED <<now, up, tick, dedup, history, session_day, paused_until,
                          closed_rows, session_json, announced, ledger>>
  <1>1. MayFail("delete") = {TRUE}
    BY DEF MayFail
  <1>2. PICK walk \in Walks(sig, tick[s].fired_at), saved \in MayFail("upsert") :
            /\ open_rows' = DeleteOpen(RowsAfterTp1(sig, walk, saved), sig)
            /\ loop' = [at |-> "record", todo |-> loop.todo \ {sig},
                        rec |-> [sig |-> Setup(sig),
                                 outcome |-> walk.after.outcome,
                                 closed_at |-> walk.after.closed_at]]
    BY <1>1 DEF CloseSignal
  <1>3. SignalId([sig EXCEPT !.status = "TP1_HIT"]) = SignalId(sig)
    BY StatusKeepsId
  <1>4. open_rows' = {r \in open_rows : SignalId(r) # SignalId(sig)}
    BY <1>2, <1>3 DEF DeleteOpen, RowsAfterTp1, UpsertOpen
  <1>5. loop'.at = "record" /\ loop'.rec.sig = Setup(sig) /\ loop'.todo = loop.todo \ {sig}
    BY <1>2
  <1>6. QED
    BY <1>4, <1>5 DEF CloseSignal, ghosts

\* ScanEmits watches the setup, saves it and remembers its rejection.
LEMMA ScanEmitsEffect ==
    ASSUME "upsert" \notin StoreFaults, NEW s, NEW p, NEW sig, ScanEmits(s, p, sig)
    PROVE  LET new == [zone |-> sig.zone, rej |-> sig.rej, status |-> "TRIGGERED"]
           IN  /\ up /\ loop.at = "free" /\ loop'.at = "announce"
               /\ loop'.todo = {} /\ loop'.sig = sig
               /\ sig \in Candidates(s, p, tick[s].fired_at)
               /\ \A g \in watchlist : SignalId(g) # SignalId(sig)
               /\ RejKey(sig) \notin dedup.seen_rej
               /\ dedup.zone_signal_counts[sig.zone] < MaxSignalCount
               /\ dedup' = Register(dedup, {sig})
               /\ watchlist' = watchlist \cup {new}
               /\ open_rows' = UpsertOpen(open_rows, new)
               /\ UNCHANGED <<now, up, closed_rows, session_json, announced, ledger>>
  <1>1. MayFail("upsert") = {TRUE}
    BY DEF MayFail
  <1>2. QED
    BY <1>1 DEF ScanEmits, ShouldEmit, RulesAllow, ghosts

-----------------------------------------------------------------------------
(***************************************************************************)
(* The open table and the watchlist                                        *)
(***************************************************************************)

\* The operations on open_signals succeed.
OpenTableReliable ==
    "upsert" \notin StoreFaults /\ "delete" \notin StoreFaults
      /\ "load_open" \notin StoreFaults

\* An id names one row.
RowIdsUnique == \A a, b \in open_rows : SignalId(a) = SignalId(b) => a = b

RowsInv == StoreTracksWatchlist /\ RowIdsUnique

\* An id names one watched signal.
LEMMA WatchedIdsUnique ==
    ASSUME PositionsInv
    PROVE  \A a, b \in watchlist : SignalId(a) = SignalId(b) => a = b
  BY SameIdSameLock DEF PositionsInv, OneOpenPerDirection

\* Time only lets rows expire.
LEMMA ExpiryIsForGood ==
    ASSUME TypeInv, now' = now + 1, NEW rej \in Nat, PastExpiry(rej, now)
    PROVE  PastExpiry(rej, now')
  <1>1. now \in Nat
    BY EngineAssumption DEF TypeInv, TypeOK
  <1>2. QED
    BY <1>1, SignalExpiryAssumption DEF PastExpiry

\* A restart brings back the rows that are not past their expiry.
LEMMA RestartEffect ==
    ASSUME "load_open" \notin StoreFaults, Restart
    PROVE  /\ ~up /\ up' = TRUE /\ session_day' = Day(now)
           /\ watchlist' = Restorable(open_rows)
           /\ history' \in LoadSession(Day(now))
           /\ paused_until' = CheckStreak(history', now)
           /\ \E closed : /\ "load_dedup" \notin StoreFaults
                               => closed = {row.rec.sig : row \in closed_rows}
                          /\ dedup' = Register(Replay(closed),
                                        {Setup(g) : g \in Restorable(open_rows)})
           /\ UNCHANGED <<now, tick, loop, open_rows, closed_rows, session_json,
                          announced, ledger>>
  <1>1. MayFail("load_open") = {TRUE}
    BY DEF MayFail
  <1>2. PICK replayed \in MayFail("load_dedup"), loaded \in MayFail("load_open") :
          LET closed == IF replayed THEN {row.rec.sig : row \in closed_rows} ELSE {}
              open == IF loaded THEN Restorable(open_rows) ELSE {}
          IN  /\ watchlist' = open
              /\ dedup' = Register(Replay(closed), {Setup(g) : g \in open})
    BY DEF Restart
  <1>3. loaded = TRUE
    BY <1>1
  <1>4. "load_dedup" \notin StoreFaults => replayed = TRUE
    BY DEF MayFail
  <1> DEFINE closed == IF replayed THEN {row.rec.sig : row \in closed_rows} ELSE {}
  <1>5. /\ watchlist' = Restorable(open_rows)
        /\ dedup' = Register(Replay(closed), {Setup(g) : g \in Restorable(open_rows)})
    BY <1>2, <1>3
  <1>6. "load_dedup" \notin StoreFaults => closed = {row.rec.sig : row \in closed_rows}
    BY <1>4
  <1> HIDE DEF closed
  <1>7. /\ ~up /\ up' = TRUE /\ session_day' = Day(now)
        /\ history' \in LoadSession(Day(now))
        /\ paused_until' = CheckStreak(history', now)
        /\ UNCHANGED <<now, tick, loop, open_rows, closed_rows, session_json,
                       announced, ledger>>
    BY DEF Restart, store, ghosts
  <1>8. QED
    BY <1>5, <1>6, <1>7

LEMMA RowsStutter ==
    ASSUME RowsInv, UNCHANGED <<now, up, watchlist, open_rows>>
    PROVE  RowsInv'
  BY DEF RowsInv, StoreTracksWatchlist, RowIdsUnique

LEMMA RowsKeepOpen ==
    ASSUME OpenTableReliable, TypeInv, PositionsInv, RowsInv,
           NEW s \in Symbols, NEW sig \in loop.todo, KeepOpen(s, sig)
    PROVE  RowsInv'
  <1> DEFINE new == [sig EXCEPT !.status = "TP1_HIT"]
  <1>1. up /\ UNCHANGED <<now, up>>
    BY DEF KeepOpen
  <1>2. sig \in watchlist /\ sig \in OpenSignal
    BY DEF PositionsInv, TodoIsWatched, TypeInv, TypeOK
  <1>3. CASE UNCHANGED <<watchlist, open_rows>>
    BY <1>1, <1>3, RowsStutter
  <1>4. CASE /\ watchlist' = (watchlist \ {sig}) \cup {new}
             /\ open_rows' = UpsertOpen(open_rows, new)
    <2>1. SignalId(new) = SignalId(sig)
      BY <1>2, StatusKeepsId
    <2> HIDE DEF new
    <2>2. open_rows' = {r \in open_rows : SignalId(r) # SignalId(sig)} \cup {new}
      BY <1>4, <2>1 DEF UpsertOpen
    <2>3. RowIdsUnique'
      BY <2>1, <2>2 DEF RowsInv, RowIdsUnique
    <2>4. \A g \in watchlist : g # sig => SignalId(g) # SignalId(sig)
      BY <1>2, WatchedIdsUnique
    <2>5. StoreTracksWatchlist'
      BY <1>1, <1>2, <1>4, <2>2, <2>4 DEF RowsInv, StoreTracksWatchlist
    <2>6. QED
      BY <2>3, <2>5 DEF RowsInv
  <1>5. QED
    BY <1>2, <1>3, <1>4, KeepOpenEffect DEF OpenTableReliable

LEMMA RowsStep ==
    OpenTableReliable /\ TypeInv /\ PositionsInv /\ RowsInv /\ [Next]_vars => RowsInv'
  <1> SUFFICES ASSUME OpenTableReliable, TypeInv, PositionsInv, RowsInv, [Next]_vars
               PROVE  RowsInv'
    OBVIOUS
  <1>1. CASE Advance
    <2>1. now' = now + 1 /\ UNCHANGED <<up, watchlist, open_rows>>
      BY <1>1 DEF Advance, memory, store
    <2>2. \A r \in open_rows : r.rej \in Nat
      BY SetupType DEF TypeInv, TypeOK
    <2>3. \A r \in open_rows : PastExpiry(r.rej, now) => PastExpiry(r.rej, now')
      BY <2>1, <2>2, ExpiryIsForGood
    <2>4. QED
      BY <2>1, <2>3 DEF RowsInv, StoreTracksWatchlist, RowIdsUnique
  <1>2. ASSUME NEW s \in Symbols, NEW i \in Intervals,
               BeginTick(s) \/ FinishWatch(s) \/ FetchGroup(s, i) \/ FetchGroupFails(s, i)
        PROVE  RowsInv'
    BY <1>2, RowsStutter DEF BeginTick, FinishWatch, FetchGroup, FetchGroupFails,
                             memory, store
  <1>3. ASSUME NEW s \in Symbols, BeginTick(s) \/ FinishWatch(s) PROVE RowsInv'
    BY <1>3, RowsStutter DEF BeginTick, FinishWatch, memory, store
  <1>4. ASSUME NEW s \in Symbols, NEW sig \in loop.todo, KeepOpen(s, sig)
        PROVE  RowsInv'
    BY <1>4, RowsKeepOpen
  <1>5. ASSUME NEW s \in Symbols, NEW sig \in loop.todo, CloseSignal(s, sig)
        PROVE  RowsInv'
    <2>1. sig \in watchlist /\ sig \in OpenSignal
      BY DEF PositionsInv, TodoIsWatched, TypeInv, TypeOK
    <2>2. /\ watchlist' = {g \in watchlist : SignalId(g) # SignalId(sig)}
          /\ open_rows' = {r \in open_rows : SignalId(r) # SignalId(sig)}
          /\ UNCHANGED <<now, up>>
      BY <1>5, <2>1, CloseSignalEffect DEF OpenTableReliable
    <2>3. QED
      BY <2>2 DEF RowsInv, StoreTracksWatchlist, RowIdsUnique
  <1>6. ASSUME NEW s \in Symbols, NEW p \in Pairs, ScanQuiet(s, p) \/ ScanBlocked(s, p)
        PROVE  RowsInv'
    BY <1>6, RowsStutter DEF ScanQuiet, ScanBlocked, memory, store
  <1>7. ASSUME NEW s \in Symbols, NEW p \in Pairs, NEW sig, ScanEmits(s, p, sig)
        PROVE  RowsInv'
    <2> DEFINE new == [zone |-> sig.zone, rej |-> sig.rej, status |-> "TRIGGERED"]
    <2>1. /\ up /\ \A g \in watchlist : SignalId(g) # SignalId(sig)
          /\ watchlist' = watchlist \cup {new}
          /\ open_rows' = UpsertOpen(open_rows, new)
          /\ UNCHANGED <<now, up>>
      BY <1>7, ScanEmitsEffect DEF OpenTableReliable
    <2>2. SignalId(new) = SignalId(sig)
      BY DEF SignalId
    <2> HIDE DEF new
    <2>3. open_rows' = {r \in open_rows : SignalId(r) # SignalId(sig)} \cup {new}
      BY <2>1, <2>2 DEF UpsertOpen
    <2>4. QED
      BY <2>1, <2>2, <2>3 DEF RowsInv, StoreTracksWatchlist, RowIdsUnique
  <1>8. CASE RecordOutcome \/ AppendRecord
    BY <1>8, RowsStutter DEF RecordOutcome, AppendRecord
  <1>9. CASE Announce
    BY <1>9, RowsStutter DEF Announce, memory, store
  <1>10. CASE Crash
    BY <1>10 DEF Crash, store, RowsInv, StoreTracksWatchlist, RowIdsUnique
  <1>11. CASE Restart
    <2>1. /\ up' = TRUE /\ watchlist' = Restorable(open_rows)
          /\ UNCHANGED <<now, open_rows>>
      BY <1>11, RestartEffect DEF OpenTableReliable
    <2>2. QED
      BY <2>1 DEF Restorable, RowsInv, StoreTracksWatchlist, RowIdsUnique
  <1>12. CASE UNCHANGED vars
    BY <1>12, RowsStutter DEF vars, memory, store
  <1>13. QED
    BY <1>1, <1>2, <1>3, <1>4, <1>5, <1>6, <1>7, <1>8, <1>9, <1>10, <1>11, <1>12
       DEF Next

LEMMA RowsInit == Init => RowsInv
  BY DEF Init, RowsInv, StoreTracksWatchlist, RowIdsUnique

(***************************************************************************)
(* With the operations on open_signals reliable, every watched signal has  *)
(* its row in the status it has reached, and a row nobody watches is past  *)
(* its expiry: a restart brings back what was watched.                     *)
(***************************************************************************)
THEOREM RowsAreTheWatchlist ==
    OpenTableReliable => (Spec => []StoreTracksWatchlist)
  <1> SUFFICES ASSUME OpenTableReliable PROVE Spec => []StoreTracksWatchlist
    OBVIOUS
  <1>1. RowsReliable
    BY DEF OpenTableReliable, RowsReliable
  <1>2. Init => TypeInv /\ PositionsInv /\ RowsInv
    BY TypeInit, PositionsInit, RowsInit
  <1>3. TypeInv /\ PositionsInv /\ RowsInv /\ [Next]_vars
          => (TypeInv /\ PositionsInv /\ RowsInv)'
    BY <1>1, TypeStep, PositionsStep, RowsStep
  <1>4. RowsInv => StoreTracksWatchlist
    BY DEF RowsInv
  <1>5. QED
    BY <1>2, <1>3, <1>4, PTL DEF Spec

-----------------------------------------------------------------------------
(***************************************************************************)
(* A rejection fires once                                                  *)
(***************************************************************************)

(***************************************************************************)
(* The lag within which a setup may still be emitted ends before a signal  *)
(* expires, and before the first candle that could close it has closed.    *)
(* The defaults are 90 seconds of lag and 120 hours of life.               *)
(***************************************************************************)
LagBeforeExpiry == \A p \in Pairs : Ltf[p] + MaxEmitLag <= SignalExpiry
LagBeforeClose == \A p \in Pairs : MaxEmitLag < 2 * Ltf[p]

LagIsShort == LagBeforeExpiry /\ LagBeforeClose

\* A setup not too old to be emitted.
IsFresh(sig) == now - (sig.rej + LtfOf(sig)) <= MaxEmitLag

\* The signals sent out, and the one about to be.
Sent == announced \cup (IF loop.at = "announce" THEN {loop.sig} ELSE {})

\* The row of a fresh signal is there for a restart to find.
FreshIsOpen == \A sig \in Sent : IsFresh(sig) => RejKey(sig) \in Keys(open_rows)

\* Rule E knows the rejection of a fresh signal.
FreshIsSeen ==
    up => \A sig \in Sent : IsFresh(sig) => RejKey(sig) \in dedup.seen_rej

PendingIsNew == loop.at = "announce" => RejKey(loop.sig) \notin Keys(announced)

\* Rejection candles open on the grid of their LTF.
Aligned ==
    \A g \in watchlist \cup open_rows \cup loop.todo : g.rej % LtfOf(g) = 0

TicksArePast == \A s \in Symbols : tick[s].fired_at <= now

FreshInv == FreshIsOpen /\ FreshIsSeen /\ PendingIsNew /\ Aligned /\ TicksArePast

\* A time on a grid is a multiple of its step.
LEMMA GridMultiple ==
    ASSUME NEW n \in Nat \ {0}, NEW a \in Nat, a % n = 0
    PROVE  \E k \in Nat : a = n * k
  <1>1. a \div n \in Nat /\ a = n * (a \div n) + (a % n)
    OBVIOUS
  <1>2. a = n * (a \div n)
    BY <1>1
  <1>3. WITNESS a \div n \in Nat
  <1>4. QED
    BY <1>2

\* Two times on a grid are a grid step apart.
LEMMA GridStep ==
    ASSUME NEW n \in Nat \ {0}, NEW a \in Nat, NEW b \in Nat,
           a % n = 0, b % n = 0, b < a
    PROVE  b + n <= a
  <1>1. PICK k \in Nat : a = n * k
    BY GridMultiple
  <1>2. PICK m \in Nat : b = n * m
    BY GridMultiple
  <1>3. m < k
    BY <1>1, <1>2
  <1>4. k >= m + 1 /\ n * k >= n * (m + 1)
    BY <1>3
  <1>5. n * (m + 1) = n * m + n
    OBVIOUS
  <1>6. QED
    BY <1>1, <1>2, <1>4, <1>5

\* A rejection names the candle and the pair.
LEMMA SameRejection ==
    ASSUME NEW a, NEW b, RejKey(a) = RejKey(b)
    PROVE  a.rej = b.rej /\ LtfOf(a) = LtfOf(b) /\ (IsFresh(a) <=> IsFresh(b))
  BY DEF RejKey, LtfOf, IsFresh

LEMMA SameIdSameRejection ==
    ASSUME NEW a, NEW b, SignalId(a) = SignalId(b)
    PROVE  RejKey(a) = RejKey(b)
  BY DEF RejKey, SignalId

\* Saving a signal loses no rejection.
LEMMA UpsertKeepsKeys ==
    ASSUME NEW rows, NEW sig
    PROVE  /\ Keys(rows) \subseteq Keys(UpsertOpen(rows, sig))
           /\ RejKey(sig) \in Keys(UpsertOpen(rows, sig))
  <1>1. \A r \in rows : r \in UpsertOpen(rows, sig) \/ RejKey(r) = RejKey(sig)
    BY SameIdSameRejection DEF UpsertOpen
  <1>2. sig \in UpsertOpen(rows, sig)
    BY DEF UpsertOpen
  <1>3. QED
    BY <1>1, <1>2 DEF Keys

\* What can be closed is fresh no more.
LEMMA ClosedIsNotFresh ==
    ASSUME LagIsShort, TypeInv, FreshInv, NEW s \in Symbols,
           NEW sig \in OpenSignal, sig.rej % LtfOf(sig) = 0,
           NEW t, t \in CandleTimes(sig, tick[s].fired_at)
    PROVE  ~IsFresh(sig)
  <1> DEFINE len == LtfOf(sig)
  <1>1. len \in Nat \ {0} /\ sig.rej \in Nat /\ sig.zone.pair \in Pairs
    BY SetupType, ZoneParts
  <1>2. MaxEmitLag < 2 * len /\ MaxEmitLag \in Nat
    BY <1>1, EngineAssumption DEF LagIsShort, LagBeforeClose, LtfOf
  <1>3. tick[s].fired_at \in Int /\ tick[s].fired_at <= now /\ now \in Nat
    BY EngineAssumption DEF TypeInv, TypeOK, FreshInv, TicksArePast
  <1> HIDE DEF len
  <1>4. t \in Nat /\ t % len = 0 /\ sig.rej + len < t /\ t <= tick[s].fired_at - len
    BY <1>1, <1>3 DEF CandleTimes, len
  <1>5. (sig.rej + len) % len = 0
    <2>1. sig.rej % len = 0
      BY DEF len
    <2>2. PICK k \in Nat : sig.rej = len * k
      BY <1>1, <2>1, GridMultiple
    <2>3. sig.rej + len = len * (k + 1)
      BY <1>1, <2>2
    <2>4. QED
      BY <1>1, <2>3
  <1>6. sig.rej + len + len <= t
    BY <1>1, <1>4, <1>5, GridStep
  <1>7. QED
    BY <1>1, <1>2, <1>3, <1>4, <1>6 DEF IsFresh, len

LEMMA SentType ==
    ASSUME TypeInv
    PROVE  Sent \subseteq Signal
  BY DEF Sent, TypeInv, TypeOK, LoopState

\* A signal does not become fresh again.
LEMMA FreshWas ==
    ASSUME TypeInv, now' = now \/ now' = now + 1, NEW sig \in Signal, IsFresh(sig)'
    PROVE  IsFresh(sig)
  <1>1. sig.rej \in Nat /\ sig.zone.pair \in Pairs
    BY ZoneParts DEF Signal
  <1>2. LtfOf(sig) \in Nat /\ now \in Nat
    BY <1>1, DedupAssumption, EngineAssumption DEF LtfOf, TypeInv, TypeOK
  <1>3. (now' - (sig.rej + LtfOf(sig)) <= MaxEmitLag) = IsFresh(sig)'
    BY DEF IsFresh, LtfOf
  <1>4. QED
    BY <1>1, <1>2, <1>3, EngineAssumption DEF IsFresh

\* Steps that send nothing, lose no row's rejection and forget none.
LEMMA FreshKept ==
    ASSUME TypeInv, FreshInv, now' = now \/ now' = now + 1, Sent' \subseteq Sent,
           \A sig \in Sent : IsFresh(sig) /\ RejKey(sig) \in Keys(open_rows)
                               => RejKey(sig) \in Keys(open_rows'),
           up' => up /\ dedup.seen_rej \subseteq dedup'.seen_rej
    PROVE  FreshIsOpen' /\ FreshIsSeen'
  <1>1. ASSUME NEW sig \in Sent', IsFresh(sig)'
        PROVE  /\ RejKey(sig)' \in Keys(open_rows)'
               /\ up' => RejKey(sig)' \in dedup'.seen_rej
    <2>1. sig \in Sent /\ sig \in Signal
      BY SentType
    <2>2. IsFresh(sig)
      BY <1>1, <2>1, FreshWas
    <2>3. RejKey(sig) \in Keys(open_rows) /\ (up => RejKey(sig) \in dedup.seen_rej)
      BY <2>1, <2>2 DEF FreshInv, FreshIsOpen, FreshIsSeen
    <2>4. RejKey(sig) \in Keys(open_rows') /\ (up' => RejKey(sig) \in dedup'.seen_rej)
      BY <2>1, <2>2, <2>3
    <2>5. QED
      BY <2>4 DEF RejKey, Keys
  <1>2. QED
    BY <1>1 DEF FreshIsOpen, FreshIsSeen

\* The steps of the ticks that are not about a signal.
LEMMA FreshTick ==
    ASSUME TypeInv, FreshInv,
           now' = now \/ now' = now + 1,
           loop'.at # "announce" \/ loop' = loop,
           loop'.todo \subseteq watchlist \cup loop.todo,
           TicksArePast',
           UNCHANGED <<up, watchlist, dedup, open_rows, announced>>
    PROVE  FreshInv'
  <1>1. Sent' \subseteq Sent
    BY DEF Sent
  <1>2. FreshIsOpen' /\ FreshIsSeen'
    BY <1>1, FreshKept
  <1>3. PendingIsNew'
    BY DEF FreshInv, PendingIsNew, RejKey, Keys
  <1>4. Aligned'
    BY DEF FreshInv, Aligned, LtfOf
  <1>5. QED
    BY <1>2, <1>3, <1>4 DEF FreshInv

LEMMA FreshKeepOpen ==
    ASSUME TypeInv, FreshInv, NEW s \in Symbols, NEW sig \in loop.todo, KeepOpen(s, sig)
    PROVE  FreshInv'
  <1>1. /\ up /\ loop.at = "evaluate"
        /\ loop'.at # "announce" /\ loop'.todo = loop.todo \ {sig}
        /\ UNCHANGED <<now, up, tick, dedup, announced>>
    BY DEF KeepOpen, Resume, ghosts
  <1>2. sig \in OpenSignal
    BY DEF TypeInv, TypeOK, LoopState
  <1>3. \A st : RejKey([sig EXCEPT !.status = st]) = RejKey(sig)
    BY <1>2, StatusKeepsId, SameIdSameRejection
  <1>4. \A st : /\ [sig EXCEPT !.status = st].rej = sig.rej
                /\ LtfOf([sig EXCEPT !.status = st]) = LtfOf(sig)
    BY <1>2, StatusKeepsId DEF LtfOf
  <1>5. open_rows' = open_rows
          \/ open_rows' = UpsertOpen(open_rows, [sig EXCEPT !.status = "TP1_HIT"])
    BY DEF KeepOpen, RowsAfterTp1
  <1>6. Keys(open_rows) \subseteq Keys(open_rows')
    BY <1>5, UpsertKeepsKeys
  <1>7. \E st : watchlist' \subseteq watchlist \cup {[sig EXCEPT !.status = st]}
    BY DEF KeepOpen
  <1>8. open_rows' \subseteq open_rows \cup {[sig EXCEPT !.status = "TP1_HIT"]}
    BY <1>5 DEF UpsertOpen
  <1>9. sig.rej % LtfOf(sig) = 0
    BY DEF FreshInv, Aligned
  <1>10. \A g \in watchlist' \cup open_rows' \cup loop'.todo : g.rej % LtfOf(g) = 0
    <2>1. PICK st : watchlist' \subseteq watchlist \cup {[sig EXCEPT !.status = st]}
      BY <1>7
    <2> DEFINE kept == [sig EXCEPT !.status = st]
               hit == [sig EXCEPT !.status = "TP1_HIT"]
    <2>2. kept.rej % LtfOf(kept) = 0 /\ hit.rej % LtfOf(hit) = 0
      BY <1>4, <1>9
    <2>3. \A g \in watchlist' \cup open_rows' \cup loop'.todo :
             g \in watchlist \cup open_rows \cup loop.todo \/ g = kept \/ g = hit
      BY <1>1, <1>8, <2>1
    <2> HIDE DEF kept, hit
    <2>4. QED
      BY <2>2, <2>3 DEF FreshInv, Aligned
  <1>11. Aligned'
    BY <1>10 DEF Aligned, LtfOf
  <1>12. Sent' \subseteq Sent
    BY <1>1 DEF Sent
  <1>13. FreshIsOpen' /\ FreshIsSeen'
    BY <1>1, <1>6, <1>12, FreshKept
  <1>14. QED
    BY <1>1, <1>11, <1>13 DEF FreshInv, PendingIsNew, TicksArePast

LEMMA FreshClose ==
    ASSUME LagIsShort, TypeInv, FreshInv, NEW s \in Symbols, NEW sig \in loop.todo,
           CloseSignal(s, sig)
    PROVE  FreshInv'
  <1>1. sig \in OpenSignal /\ sig.rej % LtfOf(sig) = 0
    BY DEF TypeInv, TypeOK, LoopState, FreshInv, Aligned
  <1>2. PICK walk \in Walks(sig, tick[s].fired_at),
             saved \in MayFail("upsert"), deleted \in MayFail("delete") :
            /\ open_rows' = IF deleted
                            THEN DeleteOpen(RowsAfterTp1(sig, walk, saved), sig)
                            ELSE RowsAfterTp1(sig, walk, saved)
            /\ loop'.at = "record" /\ loop'.todo = loop.todo \ {sig}
    BY DEF CloseSignal
  <1>3. /\ up /\ loop.at = "evaluate"
        /\ watchlist' \subseteq watchlist
        /\ UNCHANGED <<now, up, tick, dedup, announced>>
    BY DEF CloseSignal, ghosts
  <1>4. ~IsFresh(sig)
    BY <1>1, <1>2, WalkHasCandle, ClosedIsNotFresh
  <1> DEFINE hit == [sig EXCEPT !.status = "TP1_HIT"]
  <1>5. SignalId(hit) = SignalId(sig) /\ hit.rej = sig.rej /\ LtfOf(hit) = LtfOf(sig)
    BY <1>1, StatusKeepsId DEF LtfOf
  <1> HIDE DEF hit
  <1>6. /\ \A r \in open_rows : r \in open_rows' \/ SignalId(r) = SignalId(sig)
        /\ open_rows' \subseteq open_rows \cup {hit}
    BY <1>2, <1>5 DEF DeleteOpen, RowsAfterTp1, UpsertOpen, hit
  <1>7. ASSUME NEW a \in Sent, IsFresh(a), RejKey(a) \in Keys(open_rows)
        PROVE  RejKey(a) \in Keys(open_rows')
    <2>1. PICK r \in open_rows : RejKey(r) = RejKey(a)
      BY <1>7 DEF Keys
    <2>2. SignalId(r) # SignalId(sig)
      <3>1. IsFresh(r)
        BY <1>7, <2>1, SameRejection
      <3>2. QED
        BY <1>4, <3>1, SameIdSameRejection, SameRejection
    <2>3. r \in open_rows'
      BY <1>6, <2>2
    <2>4. QED
      BY <2>1, <2>3 DEF Keys
  <1>8. Sent' \subseteq Sent
    BY <1>2, <1>3 DEF Sent
  <1>9. FreshIsOpen' /\ FreshIsSeen'
    BY <1>3, <1>7, <1>8, FreshKept
  <1>10. \A g \in watchlist' \cup open_rows' \cup loop'.todo : g.rej % LtfOf(g) = 0
    BY <1>1, <1>2, <1>3, <1>5, <1>6 DEF FreshInv, Aligned
  <1>11. Aligned'
    BY <1>10 DEF Aligned, LtfOf
  <1>12. QED
    BY <1>2, <1>3, <1>9, <1>11 DEF FreshInv, PendingIsNew, TicksArePast

LEMMA FreshEmit ==
    ASSUME "upsert" \notin StoreFaults, TypeInv, FreshInv,
           NEW s \in Symbols, NEW p \in Pairs, NEW sig, ScanEmits(s, p, sig)
    PROVE  FreshInv'
  <1> DEFINE new == [zone |-> sig.zone, rej |-> sig.rej, status |-> "TRIGGERED"]
  <1>1. /\ up /\ loop.at = "free" /\ loop'.at = "announce"
        /\ loop'.todo = {} /\ loop'.sig = sig
        /\ sig \in Candidates(s, p, tick[s].fired_at)
        /\ RejKey(sig) \notin dedup.seen_rej
        /\ dedup' = Register(dedup, {sig})
        /\ watchlist' = watchlist \cup {new}
        /\ open_rows' = UpsertOpen(open_rows, new)
        /\ UNCHANGED <<now, up, announced>>
    BY ScanEmitsEffect
  <1>2. /\ sig.zone \in Zones /\ sig.zone.pair = p
        /\ sig.rej % Ltf[p] = 0
        /\ now - (sig.rej + Ltf[p]) <= MaxEmitLag
    BY <1>1 DEF Candidates
  <1>3. IsFresh(sig) /\ sig.rej % LtfOf(sig) = 0
    BY <1>2 DEF IsFresh, LtfOf
  <1>4. RejKey(new) = RejKey(sig) /\ new.rej = sig.rej /\ LtfOf(new) = LtfOf(sig)
    BY DEF RejKey, LtfOf
  <1> HIDE DEF new
  <1>5. Sent = announced /\ Sent' = announced \cup {sig}
    BY <1>1 DEF Sent
  <1>6. dedup'.seen_rej = dedup.seen_rej \cup {RejKey(sig)}
    BY <1>1 DEF Register, Keys
  <1>7. Keys(open_rows) \subseteq Keys(open_rows') /\ RejKey(sig) \in Keys(open_rows')
    BY <1>1, <1>4, UpsertKeepsKeys
  <1>8. \A a \in Sent' : IsFresh(a) => /\ RejKey(a) \in Keys(open_rows')
                                       /\ RejKey(a) \in dedup'.seen_rej
    BY <1>1, <1>5, <1>6, <1>7 DEF FreshInv, FreshIsOpen, FreshIsSeen
  <1>9. FreshIsOpen' /\ FreshIsSeen'
    BY <1>1, <1>8 DEF FreshIsOpen, FreshIsSeen, IsFresh, LtfOf, RejKey, Keys
  <1>10. \A a \in announced : RejKey(a) # RejKey(sig)
    <2> SUFFICES ASSUME NEW a \in announced, RejKey(a) = RejKey(sig) PROVE FALSE
      OBVIOUS
    <2>1. IsFresh(a)
      BY <1>3, SameRejection
    <2>2. RejKey(a) \in dedup.seen_rej
      BY <1>1, <1>5, <2>1 DEF FreshInv, FreshIsSeen
    <2>3. QED
      BY <1>1, <2>2
  <1>11. PendingIsNew'
    BY <1>1, <1>10 DEF PendingIsNew, Keys, RejKey
  <1>12. open_rows' \subseteq open_rows \cup {new}
    BY <1>1 DEF UpsertOpen
  <1>13. \A g \in watchlist' \cup open_rows' \cup loop'.todo : g.rej % LtfOf(g) = 0
    BY <1>1, <1>3, <1>4, <1>12 DEF FreshInv, Aligned
  <1>14. Aligned'
    BY <1>13 DEF Aligned, LtfOf
  <1>15. TicksArePast'
    <2>1. PairDone(s, p)
      BY DEF ScanEmits
    <2>2. \A u \in Symbols : tick'[u].fired_at = tick[u].fired_at
      BY <2>1 DEF PairDone, TypeInv, TypeOK
    <2>3. QED
      BY <1>1, <2>2 DEF FreshInv, TicksArePast
  <1>16. QED
    BY <1>9, <1>11, <1>14, <1>15 DEF FreshInv

LEMMA FreshRestart ==
    ASSUME "load_open" \notin StoreFaults, LagIsShort, TypeInv, FreshInv, Restart,
           DownIsEmpty
    PROVE  FreshInv'
  <1>1. /\ ~up /\ watchlist' = Restorable(open_rows)
        /\ UNCHANGED <<now, tick, loop, open_rows, announced>>
    BY RestartEffect
  <1>2. loop.at = "free" /\ loop.todo = {}
    BY <1>1 DEF DownIsEmpty, FreeLoop
  <1>3. \A r \in Restorable(open_rows) : RejKey(r) \in dedup'.seen_rej
    <2>1. PICK closed : dedup' = Register(Replay(closed),
                                    {Setup(g) : g \in Restorable(open_rows)})
      BY RestartEffect
    <2>2. \A r : RejKey(Setup(r)) = RejKey(r)
      BY DEF RejKey, Setup
    <2>3. Keys({Setup(g) : g \in Restorable(open_rows)}) \subseteq dedup'.seen_rej
      BY <2>1 DEF Register
    <2>4. QED
      BY <2>2, <2>3 DEF Keys
  <1>4. ASSUME NEW a \in Sent, IsFresh(a)
        PROVE  RejKey(a) \in Keys(open_rows) /\ RejKey(a) \in dedup'.seen_rej
    <2>1. RejKey(a) \in Keys(open_rows)
      BY <1>4 DEF FreshInv, FreshIsOpen
    <2>2. PICK r \in open_rows : RejKey(r) = RejKey(a)
      BY <2>1 DEF Keys
    <2>3. r \in OpenSignal /\ r.rej \in Nat /\ r.zone.pair \in Pairs
      BY SetupType, ZoneParts DEF TypeInv, TypeOK
    <2>4. IsFresh(r)
      BY <1>4, <2>2, SameRejection
    <2>5. LtfOf(r) \in Nat /\ LtfOf(r) + MaxEmitLag <= SignalExpiry /\ now \in Nat
      BY <2>3, DedupAssumption, EngineAssumption
         DEF LagIsShort, LagBeforeExpiry, LtfOf, TypeInv, TypeOK
    <2>6. ~PastExpiry(r.rej, now)
      BY <2>3, <2>4, <2>5, EngineAssumption, SignalExpiryAssumption
         DEF IsFresh, PastExpiry
    <2>7. QED
      BY <1>3, <2>1, <2>2, <2>6 DEF Restorable
  <1>5. Sent' = Sent
    BY <1>1 DEF Sent
  <1>6. FreshIsOpen' /\ FreshIsSeen'
    BY <1>1, <1>4, <1>5 DEF FreshIsOpen, FreshIsSeen, IsFresh, LtfOf, RejKey, Keys
  <1>7. Aligned'
    BY <1>1, <1>2 DEF FreshInv, Aligned, LtfOf, Restorable
  <1>8. QED
    BY <1>1, <1>2, <1>6, <1>7 DEF FreshInv, PendingIsNew, TicksArePast

\* A stopped process stays empty until it restarts.
LEMMA DownStep == DownIsEmpty /\ [Next]_vars => DownIsEmpty'
  <1> SUFFICES ASSUME DownIsEmpty, [Next]_vars PROVE DownIsEmpty'
    OBVIOUS
  <1>1. CASE Advance \/ UNCHANGED vars
    BY <1>1 DEF Advance, vars, memory, DownIsEmpty
  <1>2. ASSUME NEW s \in Symbols, BeginTick(s) \/ FinishWatch(s) PROVE DownIsEmpty'
    BY <1>2 DEF BeginTick, FinishWatch, DownIsEmpty
  <1>3. ASSUME NEW s \in Symbols, NEW i \in Intervals,
               FetchGroup(s, i) \/ FetchGroupFails(s, i)
        PROVE  DownIsEmpty'
    BY <1>3 DEF FetchGroup, FetchGroupFails, DownIsEmpty
  <1>4. ASSUME NEW s \in Symbols, NEW sig \in loop.todo,
               KeepOpen(s, sig) \/ CloseSignal(s, sig)
        PROVE  DownIsEmpty'
    <2>1. up /\ up' = up
      BY <1>4 DEF KeepOpen, CloseSignal
    <2>2. QED
      BY <2>1 DEF DownIsEmpty
  <1>5. ASSUME NEW s \in Symbols, NEW p \in Pairs, ScanQuiet(s, p) \/ ScanBlocked(s, p)
        PROVE  DownIsEmpty'
    BY <1>5 DEF ScanQuiet, ScanBlocked, DownIsEmpty
  <1>6. ASSUME NEW s \in Symbols, NEW p \in Pairs, NEW sig, ScanEmits(s, p, sig)
        PROVE  DownIsEmpty'
    <2>1. up /\ up' = up
      BY <1>6 DEF ScanEmits
    <2>2. QED
      BY <2>1 DEF DownIsEmpty
  <1>7. CASE RecordOutcome \/ AppendRecord \/ Announce
    <2>1. up /\ up' = up
      BY <1>7 DEF RecordOutcome, AppendRecord, Announce
    <2>2. QED
      BY <2>1 DEF DownIsEmpty
  <1>8. CASE Crash \/ Restart
    <2>1. up' = TRUE \/ (watchlist' = {} /\ loop' = FreeLoop)
      BY <1>8 DEF Crash, Restart
    <2>2. QED
      BY <2>1 DEF DownIsEmpty
  <1>9. QED
    BY <1>1, <1>2, <1>3, <1>4, <1>5, <1>6, <1>7, <1>8 DEF Next

\* A tick keeps the time it fired at.
LEMMA TicksStep ==
    ASSUME TypeInv, TicksArePast, [Next]_vars
    PROVE  TicksArePast'
  <1>1. now \in Int /\ \A s \in Symbols : tick[s].fired_at \in Int
    BY EngineAssumption DEF TypeInv, TypeOK
  <1>2. ASSUME UNCHANGED tick, now' = now \/ now' = now + 1 PROVE TicksArePast'
    BY <1>1, <1>2 DEF TicksArePast
  <1>3. ASSUME UNCHANGED now,
               \A u \in Symbols : tick'[u].fired_at \in {tick[u].fired_at, now}
        PROVE  TicksArePast'
    BY <1>1, <1>3 DEF TicksArePast
  <1>4. CASE Advance
    BY <1>2, <1>4 DEF Advance
  <1>5. ASSUME NEW s \in Symbols, BeginTick(s) \/ FinishWatch(s) PROVE TicksArePast'
    <2>1. \A f : AnalyzeFrom(f).fired_at = f
      BY DEF AnalyzeFrom
    <2>2. PICK new : tick' = [tick EXCEPT ![s] = new]
                       /\ new.fired_at \in {tick[s].fired_at, now}
      <3>1. CASE BeginTick(s)
        BY <2>1, <3>1 DEF BeginTick
      <3>2. CASE FinishWatch(s)
        BY <2>1, <3>2 DEF FinishWatch
      <3>3. QED
        BY <1>5, <3>1, <3>2
    <2>3. tick'[s] = new /\ \A u \in Symbols \ {s} : tick'[u] = tick[u]
      BY <2>2 DEF TypeInv, TypeOK
    <2>4. UNCHANGED now
      BY <1>5 DEF BeginTick, FinishWatch
    <2>5. \A u \in Symbols : tick'[u].fired_at \in {tick[u].fired_at, now}
      BY <2>2, <2>3
    <2>6. QED
      BY <1>3, <2>4, <2>5
  <1>6. ASSUME NEW s \in Symbols, NEW i \in Intervals,
               FetchGroup(s, i) \/ FetchGroupFails(s, i)
        PROVE  TicksArePast'
    <2>1. tick' = [tick EXCEPT ![s].groups = tick[s].groups \ {i}] /\ UNCHANGED now
      BY <1>6 DEF FetchGroup, FetchGroupFails
    <2>2. \A u \in Symbols : tick'[u].fired_at = tick[u].fired_at
      BY <2>1 DEF TypeInv, TypeOK
    <2>3. QED
      BY <1>3, <2>1, <2>2
  <1>7. ASSUME NEW s \in Symbols, NEW p \in Pairs, PairDone(s, p), UNCHANGED now
        PROVE  TicksArePast'
    <2>1. \A u \in Symbols : tick'[u].fired_at = tick[u].fired_at
      BY <1>7 DEF PairDone, TypeInv, TypeOK
    <2>2. QED
      BY <1>3, <1>7, <2>1
  <1>8. ASSUME NEW s \in Symbols, NEW p \in Pairs, ScanQuiet(s, p) \/ ScanBlocked(s, p)
        PROVE  TicksArePast'
    BY <1>7, <1>8 DEF ScanQuiet, ScanBlocked
  <1>9. ASSUME NEW s \in Symbols, NEW p \in Pairs, NEW sig, ScanEmits(s, p, sig)
        PROVE  TicksArePast'
    <2>1. PairDone(s, p) /\ UNCHANGED now
      BY <1>9 DEF ScanEmits
    <2>2. QED
      BY <1>7, <2>1
  <1>10. ASSUME NEW s \in Symbols, NEW sig \in loop.todo,
                KeepOpen(s, sig) \/ CloseSignal(s, sig)
         PROVE  TicksArePast'
    <2>1. UNCHANGED <<now, tick>>
      BY <1>10 DEF KeepOpen, CloseSignal
    <2>2. QED
      BY <1>2, <2>1
  <1>11. CASE RecordOutcome \/ AppendRecord \/ Announce \/ Restart
    <2>1. UNCHANGED <<now, tick>>
      BY <1>11 DEF RecordOutcome, AppendRecord, Announce, Restart
    <2>2. QED
      BY <1>2, <2>1
  <1>12. CASE Crash
    <2>1. UNCHANGED now /\ tick' = [s \in Symbols |-> IdleTick] /\ now >= 0
      BY <1>12, EngineAssumption DEF Crash, TypeInv, TypeOK
    <2>2. QED
      BY <1>1, <2>1 DEF TicksArePast, IdleTick
  <1>13. CASE UNCHANGED vars
    BY <1>2, <1>13 DEF vars
  <1>14. QED
    BY <1>4, <1>5, <1>6, <1>8, <1>9, <1>10, <1>11, <1>12, <1>13 DEF Next

LEMMA FreshStep ==
    ASSUME "upsert" \notin StoreFaults, "load_open" \notin StoreFaults, LagIsShort,
           TypeInv, DownIsEmpty, FreshInv, [Next]_vars
    PROVE  FreshInv'
  <1> USE DEF memory, store, ghosts
  <1>1. TicksArePast'
    BY TicksStep DEF FreshInv
  <1>2. CASE Advance
    BY <1>1, <1>2, FreshTick DEF Advance
  <1>3. ASSUME NEW s \in Symbols, BeginTick(s) \/ FinishWatch(s) PROVE FreshInv'
    BY <1>1, <1>3, FreshTick DEF BeginTick, FinishWatch
  <1>4. ASSUME NEW s \in Symbols, NEW i \in Intervals,
               FetchGroup(s, i) \/ FetchGroupFails(s, i)
        PROVE  FreshInv'
    <2>1. /\ UNCHANGED <<now, up, watchlist, dedup, open_rows, announced>>
          /\ loop'.at # "announce" \/ loop' = loop
          /\ loop'.todo \subseteq watchlist \cup loop.todo
      BY <1>4 DEF FetchGroup, FetchGroupFails
    <2>2. QED
      BY <1>1, <2>1, FreshTick
  <1>5. ASSUME NEW s \in Symbols, NEW sig \in loop.todo,
               KeepOpen(s, sig) \/ CloseSignal(s, sig)
        PROVE  FreshInv'
    BY <1>5, FreshKeepOpen, FreshClose
  <1>6. ASSUME NEW s \in Symbols, NEW p \in Pairs, ScanQuiet(s, p) \/ ScanBlocked(s, p)
        PROVE  FreshInv'
    BY <1>1, <1>6, FreshTick DEF ScanQuiet, ScanBlocked
  <1>7. ASSUME NEW s \in Symbols, NEW p \in Pairs, NEW sig, ScanEmits(s, p, sig)
        PROVE  FreshInv'
    BY <1>7, FreshEmit
  <1>8. CASE RecordOutcome
    <2>1. /\ UNCHANGED <<now, up, tick, watchlist, open_rows, announced>>
          /\ loop.at = "record" /\ loop'.at # "announce" /\ loop'.todo = loop.todo
          /\ dedup' = ReleaseDirection(dedup, loop.rec.sig.zone)
      BY <1>8 DEF RecordOutcome
    <2>2. dedup'.seen_rej = dedup.seen_rej
      BY <2>1 DEF ReleaseDirection, TypeInv, TypeOK, DedupState
    <2>3. Sent' \subseteq Sent
      BY <2>1 DEF Sent
    <2>4. FreshIsOpen' /\ FreshIsSeen'
      BY <2>1, <2>2, <2>3, FreshKept
    <2>5. QED
      BY <2>1, <2>4 DEF FreshInv, PendingIsNew, Aligned, LtfOf, TicksArePast
  <1>9. CASE AppendRecord
    <2>1. /\ UNCHANGED <<now, up, watchlist, dedup, open_rows, announced>>
          /\ loop'.at # "announce" /\ loop'.todo = loop.todo
      BY <1>9 DEF AppendRecord, Resume
    <2>2. QED
      BY <1>1, <2>1, FreshTick
  <1>10. CASE Announce
    <2>1. /\ loop.at = "announce" /\ announced' = announced \cup {loop.sig}
          /\ loop'.at = "free" /\ loop'.todo = {}
          /\ UNCHANGED <<now, up, tick, watchlist, dedup, open_rows>>
      BY <1>10 DEF Announce, FreeLoop, memory, store
    <2>2. Sent' \subseteq Sent
      BY <2>1 DEF Sent
    <2>3. FreshIsOpen' /\ FreshIsSeen'
      BY <2>1, <2>2, FreshKept
    <2>4. QED
      BY <2>1, <2>3 DEF FreshInv, PendingIsNew, Aligned, LtfOf, TicksArePast
  <1>11. CASE Crash
    <2>1. /\ ~up' /\ watchlist' = {} /\ loop'.at = "free" /\ loop'.todo = {}
          /\ tick' = [s \in Symbols |-> IdleTick]
          /\ UNCHANGED <<now, open_rows, announced>>
      BY <1>11 DEF Crash, FreeLoop, store, ghosts
    <2>2. Sent' \subseteq Sent
      BY <2>1 DEF Sent
    <2>3. FreshIsOpen' /\ FreshIsSeen'
      BY <2>1, <2>2, FreshKept
    <2>4. QED
      BY <1>1, <2>1, <2>3 DEF FreshInv, PendingIsNew, Aligned, LtfOf
  <1>12. CASE Restart
    BY <1>12, FreshRestart
  <1>13. CASE UNCHANGED vars
    BY <1>1, <1>13, FreshTick DEF vars
  <1>14. QED
    BY <1>2, <1>3, <1>4, <1>5, <1>6, <1>7, <1>8, <1>9, <1>10, <1>11, <1>12, <1>13
       DEF Next

LEMMA FreshInit == Init => FreshInv /\ DownIsEmpty
  BY DEF Init, FreeLoop, IdleTick, FreshInv, FreshIsOpen, FreshIsSeen, PendingIsNew,
         Aligned, TicksArePast, Sent, DownIsEmpty

(***************************************************************************)
(* Rule E for every configuration with a short lag: with save_open and     *)
(* load_open reliable, no rejection candle is announced twice, wherever    *)
(* the process dies and whatever else the store loses.                     *)
(***************************************************************************)
THEOREM NoRejectionFiresTwice ==
    "upsert" \notin StoreFaults /\ "load_open" \notin StoreFaults /\ LagIsShort
      => (Spec => RejectionFiresOnce)
  <1> SUFFICES ASSUME "upsert" \notin StoreFaults, "load_open" \notin StoreFaults,
                      LagIsShort
               PROVE  Spec => RejectionFiresOnce
    OBVIOUS
  <1>1. Init => TypeInv /\ DownIsEmpty /\ FreshInv
    BY TypeInit, FreshInit
  <1>2. TypeInv /\ DownIsEmpty /\ FreshInv /\ [Next]_vars
          => (TypeInv /\ DownIsEmpty /\ FreshInv)'
    BY TypeStep, DownStep, FreshStep
  <1>3. FreshInv => [loop.at = "announce" /\ loop'.at = "free" /\ up'
                       => RejKey(loop.sig) \notin Keys(announced)]_vars
    BY DEF FreshInv, PendingIsNew
  <1>4. QED
    BY <1>1, <1>2, <1>3, PTL DEF Spec, RejectionFiresOnce

-----------------------------------------------------------------------------
(***************************************************************************)
(* Where a setup is on record                                              *)
(***************************************************************************)

\* Only the JSON file and the reading of a session may fail.
StoreReliable ==
    /\ "upsert" \notin StoreFaults /\ "delete" \notin StoreFaults
    /\ "insert" \notin StoreFaults /\ "load_dedup" \notin StoreFaults
    /\ "load_open" \notin StoreFaults

Watched == {Setup(g) : g \in watchlist}
OpenSetups == {Setup(r) : r \in open_rows}
ClosedSetups == {row.rec.sig : row \in closed_rows}

\* The setup _close_signal has deleted and not yet recorded.
Recording == IF loop.at = "record" THEN {loop.rec.sig} ELSE {}

(***************************************************************************)
(* No id is in two places: open, closed, or on its way from one to the     *)
(* other.  Without it INSERT OR IGNORE would drop an outcome.              *)
(***************************************************************************)
IdsApart ==
    /\ \A a \in OpenSetups, b \in ClosedSetups \cup Recording : SignalId(a) # SignalId(b)
    /\ \A a \in ClosedSetups, b \in Recording : SignalId(a) # SignalId(b)

\* Rule E knows every rejection that is on record.
SeenIsRemembered ==
    up => Keys(Watched \cup ClosedSetups \cup Recording) \subseteq dedup.seen_rej

PlacesInv == IdsApart /\ SeenIsRemembered

\* A signal and its setup have one id.
LEMMA SetupKeepsId ==
    ASSUME NEW g
    PROVE  /\ SignalId(Setup(g)) = SignalId(g) /\ RejKey(Setup(g)) = RejKey(g)
           /\ Setup(g).zone = g.zone /\ Setup(g).rej = g.rej
  BY DEF SignalId, RejKey, Setup

\* A setup that may be emitted is not that of a row, watched or passed over.
LEMMA CandidateIsNew ==
    ASSUME LagBeforeExpiry, TypeInv, RowsInv, up, NEW s, NEW p \in Pairs,
           NEW sig \in Candidates(s, p, tick[s].fired_at),
           \A g \in watchlist : SignalId(g) # SignalId(sig)
    PROVE  \A r \in open_rows : SignalId(r) # SignalId(sig)
  <1> SUFFICES ASSUME NEW r \in open_rows, SignalId(r) = SignalId(sig) PROVE FALSE
    OBVIOUS
  <1>1. PastExpiry(r.rej, now)
    BY DEF RowsInv, StoreTracksWatchlist
  <1>2. r.rej = sig.rej /\ r.rej \in Nat
    BY SetupType DEF SignalId, TypeInv, TypeOK
  <1>3. now - (sig.rej + Ltf[p]) <= MaxEmitLag
    BY DEF Candidates
  <1>4. Ltf[p] + MaxEmitLag <= SignalExpiry /\ Ltf[p] \in Nat /\ now \in Nat
    BY DedupAssumption, EngineAssumption DEF LagBeforeExpiry, TypeInv, TypeOK
  <1>5. QED
    BY <1>1, <1>2, <1>3, <1>4, EngineAssumption, SignalExpiryAssumption DEF PastExpiry

\* KeepOpen moves no setup.
LEMMA KeepOpenPlaces ==
    ASSUME StoreReliable, TypeInv, PositionsInv, RowsInv,
           NEW s \in Symbols, NEW sig \in loop.todo, KeepOpen(s, sig)
    PROVE  /\ Watched' = Watched /\ OpenSetups' = OpenSetups
           /\ Recording = {} /\ Recording' = {}
           /\ UNCHANGED <<now, up, tick, dedup, history, session_day, paused_until,
                          closed_rows, session_json, announced, ledger>>
           /\ up /\ loop.at = "evaluate" /\ loop'.at \notin {"record", "announce"}
  <1> DEFINE new == [sig EXCEPT !.status = "TP1_HIT"]
  <1>1. /\ up /\ loop.at = "evaluate" /\ loop'.at \notin {"record", "announce"}
        /\ UNCHANGED <<now, up, tick, dedup, history, session_day, paused_until,
                       closed_rows, session_json, announced, ledger>>
    BY DEF KeepOpen, Resume, ghosts
  <1>2. Recording = {} /\ Recording' = {}
    BY <1>1 DEF Recording
  <1>3. sig \in watchlist /\ sig \in open_rows /\ sig \in OpenSignal
    BY <1>1 DEF PositionsInv, TodoIsWatched, RowsInv, StoreTracksWatchlist,
                TypeInv, TypeOK
  <1>4. Setup(new) = Setup(sig) /\ SignalId(new) = SignalId(sig)
    BY <1>3, StatusKeepsId DEF Setup
  <1>5. \/ UNCHANGED <<watchlist, open_rows>>
        \/ /\ watchlist' = (watchlist \ {sig}) \cup {new}
           /\ open_rows' = UpsertOpen(open_rows, new)
    BY <1>3, KeepOpenEffect DEF StoreReliable
  <1> HIDE DEF new
  <1>6. Watched' = Watched
    <2>1. Watched' = {Setup(g) : g \in watchlist'}
      BY DEF Watched, Setup
    <2>2. {Setup(g) : g \in watchlist'} = {Setup(g) : g \in watchlist}
      BY <1>3, <1>4, <1>5
    <2>3. QED
      BY <2>1, <2>2 DEF Watched
  <1>7. OpenSetups' = OpenSetups
    <2>1. OpenSetups' = {Setup(g) : g \in open_rows'}
      BY DEF OpenSetups, Setup
    <2>2. CASE open_rows' = open_rows
      BY <2>1, <2>2 DEF OpenSetups
    <2>3. CASE open_rows' = UpsertOpen(open_rows, new)
      <3>1. \A r \in open_rows : r = sig \/ SignalId(r) # SignalId(sig)
        BY <1>3 DEF RowsInv, RowIdsUnique
      <3>2. open_rows' = (open_rows \ {sig}) \cup {new}
        BY <1>4, <2>3, <3>1 DEF UpsertOpen
      <3>3. {Setup(g) : g \in open_rows'} = {Setup(g) : g \in open_rows}
        BY <1>3, <1>4, <3>2
      <3>4. QED
        BY <2>1, <3>3 DEF OpenSetups
    <2>4. QED
      BY <1>5, <2>2, <2>3
  <1>8. QED
    BY <1>1, <1>2, <1>6, <1>7

\* CloseSignal takes the setup off the table and the watchlist.
LEMMA CloseSignalPlaces ==
    ASSUME StoreReliable, TypeInv, PositionsInv, RowsInv,
           NEW s, NEW sig \in loop.todo, CloseSignal(s, sig)
    PROVE  /\ Setup(sig) \in Watched /\ Setup(sig) \in OpenSetups
           /\ Watched' = Watched \ {Setup(sig)}
           /\ OpenSetups' = OpenSetups \ {Setup(sig)}
           /\ \A a \in OpenSetups' : SignalId(a) # SignalId(Setup(sig))
           /\ Recording = {} /\ Recording' = {Setup(sig)}
           /\ loop.at = "evaluate" /\ loop'.at = "record"
           /\ up
           /\ UNCHANGED <<now, up, tick, dedup, history, session_day, paused_until,
                          closed_rows, session_json, announced, ledger>>
  <1>1. up /\ loop.at = "evaluate"
    BY DEF CloseSignal
  <1>2. sig \in watchlist /\ sig \in open_rows /\ sig \in OpenSignal
    BY <1>1 DEF PositionsInv, TodoIsWatched, RowsInv, StoreTracksWatchlist,
                TypeInv, TypeOK
  <1>3. /\ loop'.at = "record" /\ loop'.rec.sig = Setup(sig)
        /\ watchlist' = {g \in watchlist : SignalId(g) # SignalId(sig)}
        /\ open_rows' = {r \in open_rows : SignalId(r) # SignalId(sig)}
        /\ UNCHANGED <<now, up, tick, dedup, history, session_day, paused_until,
                       closed_rows, session_json, announced, ledger>>
    BY <1>2, CloseSignalEffect DEF StoreReliable
  <1>4. Recording = {} /\ Recording' = {Setup(sig)}
    BY <1>1, <1>3 DEF Recording
  <1>5. \A g \in watchlist : SignalId(g) = SignalId(sig) => g = sig
    BY <1>2, WatchedIdsUnique
  <1>6. \A r \in open_rows : SignalId(r) = SignalId(sig) => r = sig
    BY <1>2 DEF RowsInv, RowIdsUnique
  <1>7. Watched' = Watched \ {Setup(sig)}
    <2>1. Watched' = {Setup(g) : g \in watchlist'}
      BY DEF Watched, Setup
    <2>2. \A g \in watchlist : Setup(g) = Setup(sig) => g = sig
      BY <1>5, SetupKeepsId
    <2>3. watchlist' = watchlist \ {sig}
      BY <1>3, <1>5
    <2>4. QED
      BY <2>1, <2>2, <2>3 DEF Watched
  <1>8. OpenSetups' = OpenSetups \ {Setup(sig)}
    <2>1. OpenSetups' = {Setup(g) : g \in open_rows'}
      BY DEF OpenSetups, Setup
    <2>2. \A g \in open_rows : Setup(g) = Setup(sig) => g = sig
      BY <1>6, SetupKeepsId
    <2>3. open_rows' = open_rows \ {sig}
      BY <1>3, <1>6
    <2>4. QED
      BY <2>1, <2>2, <2>3 DEF OpenSetups
  <1>9. \A a \in OpenSetups' : SignalId(a) # SignalId(Setup(sig))
    <2>1. OpenSetups' = {Setup(g) : g \in open_rows'}
      BY DEF OpenSetups, Setup
    <2>2. QED
      BY <1>3, <2>1, SetupKeepsId
  <1>10. QED
    BY <1>1, <1>2, <1>3, <1>4, <1>7, <1>8, <1>9 DEF Watched, OpenSetups

\* RecordOutcome moves the setup to the closed table.
LEMMA RecordPlaces ==
    ASSUME StoreReliable, TypeInv, IdsApart, RecordOutcome
    PROVE  /\ closed_rows' = closed_rows \cup {[rec |-> loop.rec, day |-> session_day]}
           /\ loop.rec.sig \in Recording
           /\ ClosedSetups' = ClosedSetups \cup Recording
           /\ Recording = {loop.rec.sig} /\ Recording' = {}
           /\ Watched' = Watched /\ OpenSetups' = OpenSetups
           /\ dedup'.seen_rej = dedup.seen_rej
           /\ dedup'.zone_signal_counts = dedup.zone_signal_counts
           /\ loop'.at \notin {"record", "announce"}
           /\ up /\ UNCHANGED <<now, up, open_rows, watchlist, announced>>
  <1>1. /\ up /\ loop.at = "record"
        /\ loop'.at \notin {"record", "announce"}
        /\ dedup' = ReleaseDirection(dedup, loop.rec.sig.zone)
        /\ UNCHANGED <<now, up, watchlist, open_rows, announced>>
    BY DEF RecordOutcome
  <1>2. Recording = {loop.rec.sig} /\ Recording' = {}
    BY <1>1 DEF Recording
  <1>3. \A row \in closed_rows : SignalId(row.rec.sig) # SignalId(loop.rec.sig)
    BY <1>2 DEF IdsApart, ClosedSetups
  <1>4. closed_rows' = closed_rows \cup {[rec |-> loop.rec, day |-> session_day]}
    <2>1. MayFail("insert") = {TRUE}
      BY DEF StoreReliable, MayFail
    <2>2. closed_rows' = InsertClosed(closed_rows, loop.rec, session_day)
      BY <2>1 DEF RecordOutcome
    <2>3. QED
      BY <1>3, <2>2 DEF InsertClosed
  <1>5. ClosedSetups' = ClosedSetups \cup {loop.rec.sig}
    <2>1. ClosedSetups' = {row.rec.sig : row \in closed_rows'}
      BY DEF ClosedSetups
    <2> DEFINE new == [rec |-> loop.rec, day |-> session_day]
    <2>2. new.rec.sig = loop.rec.sig
      OBVIOUS
    <2>3. closed_rows' = closed_rows \cup {new}
      BY <1>4
    <2> HIDE DEF new
    <2>4. QED
      BY <2>1, <2>2, <2>3 DEF ClosedSetups
  <1>6. Watched' = Watched /\ OpenSetups' = OpenSetups
    BY <1>1 DEF Watched, OpenSetups, Setup
  <1>7. /\ dedup'.seen_rej = dedup.seen_rej
        /\ dedup'.zone_signal_counts = dedup.zone_signal_counts
    BY <1>1 DEF ReleaseDirection, TypeInv, TypeOK, DedupState
  <1>8. QED
    BY <1>1, <1>2, <1>4, <1>5, <1>6, <1>7

\* ScanEmits puts a setup that is nowhere on the watchlist and on the table.
LEMMA ScanEmitsPlaces ==
    ASSUME StoreReliable, LagBeforeExpiry, TypeInv, RowsInv, PlacesInv,
           NEW s, NEW p \in Pairs, NEW sig, ScanEmits(s, p, sig)
    PROVE  /\ sig \in Signal
           /\ \A a \in OpenSetups \cup ClosedSetups : SignalId(a) # SignalId(sig)
           /\ \A a \in Watched \cup ClosedSetups : a # sig
           /\ Watched' = Watched \cup {sig} /\ OpenSetups' = OpenSetups \cup {sig}
           /\ Recording = {} /\ Recording' = {}
           /\ dedup.zone_signal_counts[sig.zone] < MaxSignalCount
           /\ dedup' = Register(dedup, {sig})
           /\ loop.at = "free" /\ loop'.at = "announce" /\ loop'.sig = sig
           /\ up /\ UNCHANGED <<now, up, closed_rows, session_json, announced, ledger>>
  <1> DEFINE new == [zone |-> sig.zone, rej |-> sig.rej, status |-> "TRIGGERED"]
  <1>1. /\ up /\ loop.at = "free" /\ loop'.at = "announce" /\ loop'.sig = sig
        /\ sig \in Candidates(s, p, tick[s].fired_at)
        /\ \A g \in watchlist : SignalId(g) # SignalId(sig)
        /\ RejKey(sig) \notin dedup.seen_rej
        /\ dedup.zone_signal_counts[sig.zone] < MaxSignalCount
        /\ dedup' = Register(dedup, {sig})
        /\ watchlist' = watchlist \cup {new}
        /\ open_rows' = UpsertOpen(open_rows, new)
        /\ UNCHANGED <<now, up, closed_rows, session_json, announced, ledger>>
    BY ScanEmitsEffect DEF StoreReliable
  <1>2. sig = [zone |-> sig.zone, rej |-> sig.rej] /\ sig \in Signal
    BY <1>1, EngineAssumption DEF Candidates, Signal
  <1>3. Setup(new) = sig /\ SignalId(new) = SignalId(sig)
    BY <1>2 DEF Setup, SignalId
  <1> HIDE DEF new
  <1>4. \A r \in open_rows : SignalId(r) # SignalId(sig)
    BY <1>1, CandidateIsNew
  <1>5. open_rows' = open_rows \cup {new}
    BY <1>1, <1>3, <1>4 DEF UpsertOpen
  <1>6. Watched' = Watched \cup {sig} /\ OpenSetups' = OpenSetups \cup {sig}
    <2>1. Watched' = {Setup(g) : g \in watchlist'} /\ OpenSetups' = {Setup(g) : g \in open_rows'}
      BY DEF Watched, OpenSetups, Setup
    <2>2. QED
      BY <1>1, <1>3, <1>5, <2>1 DEF Watched, OpenSetups
  <1>7. \A a \in OpenSetups : SignalId(a) # SignalId(sig)
    BY <1>4, SetupKeepsId DEF OpenSetups
  <1>8. \A a \in Watched \cup ClosedSetups : RejKey(a) \in dedup.seen_rej
    BY <1>1 DEF PlacesInv, SeenIsRemembered, Keys
  <1>9. \A a \in Watched \cup ClosedSetups : SignalId(a) # SignalId(sig) /\ a # sig
    BY <1>1, <1>8, SameIdSameRejection
  <1>10. Recording = {} /\ Recording' = {}
    BY <1>1 DEF Recording
  <1>11. QED
    BY <1>1, <1>2, <1>6, <1>7, <1>9, <1>10

\* The steps that leave every signal where it is.
QuietStep ==
    /\ now' = now \/ now' = now + 1
    /\ \/ loop' = loop
       \/ loop.at \in {"free", "append"} /\ loop'.at \in {"free", "evaluate"}
    /\ UNCHANGED <<up, watchlist, dedup, open_rows, closed_rows, announced, ledger>>

LEMMA StepCases ==
    ASSUME [Next]_vars
    PROVE  \/ QuietStep
           \/ \E s \in Symbols, sig \in loop.todo : KeepOpen(s, sig)
           \/ \E s \in Symbols, sig \in loop.todo : CloseSignal(s, sig)
           \/ \E s \in Symbols, p \in Pairs : \E sig : ScanEmits(s, p, sig)
           \/ RecordOutcome \/ Announce \/ Crash \/ Restart
  <1> USE DEF memory, store, ghosts
  <1>1. CASE Advance
    BY <1>1 DEF Advance, QuietStep
  <1>2. ASSUME NEW s \in Symbols, BeginTick(s) \/ FinishWatch(s) PROVE QuietStep
    BY <1>2 DEF BeginTick, FinishWatch, QuietStep
  <1>3. ASSUME NEW s \in Symbols, NEW i \in Intervals,
               FetchGroup(s, i) \/ FetchGroupFails(s, i)
        PROVE  QuietStep
    BY <1>3 DEF FetchGroup, FetchGroupFails, QuietStep
  <1>4. ASSUME NEW s \in Symbols, NEW p \in Pairs, ScanQuiet(s, p) \/ ScanBlocked(s, p)
        PROVE  QuietStep
    BY <1>4 DEF ScanQuiet, ScanBlocked, QuietStep
  <1>5. CASE AppendRecord
    BY <1>5 DEF AppendRecord, Resume, QuietStep
  <1>6. CASE UNCHANGED vars
    BY <1>6 DEF vars, QuietStep
  <1>7. QED
    BY <1>1, <1>2, <1>3, <1>4, <1>5, <1>6 DEF Next

\* What is where depends on the tables, the watchlist and the loop.
LEMMA PlacesFrame ==
    ASSUME UNCHANGED <<watchlist, open_rows, closed_rows>>,
           loop' = loop \/ (loop.at # "record" /\ loop'.at # "record")
    PROVE  /\ Watched' = Watched /\ OpenSetups' = OpenSetups
           /\ ClosedSetups' = ClosedSetups /\ Recording' = Recording
  BY DEF Watched, OpenSetups, ClosedSetups, Recording, Setup

LEMMA RestartPlaces ==
    ASSUME StoreReliable, DownIsEmpty, Restart
    PROVE  /\ ~up /\ up' = TRUE
           /\ Watched' = {Setup(r) : r \in Restorable(open_rows)}
           /\ Watched' \subseteq OpenSetups
           /\ OpenSetups' = OpenSetups /\ ClosedSetups' = ClosedSetups
           /\ Recording = {} /\ Recording' = {}
           /\ loop.at = "free"
           /\ dedup' = Register(Replay(ClosedSetups), Watched')
           /\ UNCHANGED <<now, loop, announced, open_rows, closed_rows>>
  <1>1. /\ ~up /\ up' = TRUE
        /\ watchlist' = Restorable(open_rows)
        /\ UNCHANGED <<now, loop, open_rows, closed_rows, announced>>
    BY RestartEffect DEF StoreReliable
  <1>2. loop.at = "free"
    BY <1>1 DEF DownIsEmpty, FreeLoop
  <1>3. Watched' = {Setup(r) : r \in Restorable(open_rows)}
    <2>1. Watched' = {Setup(r) : r \in watchlist'}
      BY DEF Watched, Setup
    <2>2. QED
      BY <1>1, <2>1
  <1>4. dedup' = Register(Replay(ClosedSetups), Watched')
    <2>1. PICK closed : /\ closed = {row.rec.sig : row \in closed_rows}
                        /\ dedup' = Register(Replay(closed),
                                       {Setup(g) : g \in Restorable(open_rows)})
      BY RestartEffect DEF StoreReliable
    <2>2. closed = ClosedSetups
      BY <2>1 DEF ClosedSetups
    <2>3. QED
      BY <1>3, <2>1, <2>2
  <1>5. OpenSetups' = OpenSetups /\ ClosedSetups' = ClosedSetups
    BY <1>1 DEF OpenSetups, ClosedSetups, Setup
  <1>6. Recording = {} /\ Recording' = {}
    BY <1>1, <1>2 DEF Recording
  <1>7. Watched' \subseteq OpenSetups
    BY <1>3 DEF OpenSetups, Restorable
  <1>8. QED
    BY <1>1, <1>2, <1>3, <1>4, <1>5, <1>6, <1>7

LEMMA CrashPlaces ==
    ASSUME Crash
    PROVE  /\ up /\ ~up' /\ Watched' = {} /\ Recording' = {}
           /\ OpenSetups' = OpenSetups /\ ClosedSetups' = ClosedSetups
           /\ loop.at \in CrashPoints /\ loop'.at = "free"
           /\ UNCHANGED <<now, announced, open_rows, closed_rows>>
  BY DEF Crash, FreeLoop, store, ghosts, Watched, OpenSetups, ClosedSetups,
         Recording, Setup

LEMMA PlacesStep ==
    ASSUME StoreReliable, LagBeforeExpiry, TypeInv, PositionsInv, RowsInv, PlacesInv,
           [Next]_vars
    PROVE  PlacesInv'
  <1>1. CASE QuietStep
    <2>1. /\ Watched' = Watched /\ OpenSetups' = OpenSetups
          /\ ClosedSetups' = ClosedSetups /\ Recording' = Recording
          /\ UNCHANGED <<up, dedup>>
      BY <1>1, PlacesFrame DEF QuietStep
    <2>2. QED
      BY <2>1 DEF PlacesInv, IdsApart, SeenIsRemembered, SignalId, Keys, RejKey
  <1>2. ASSUME NEW s \in Symbols, NEW sig \in loop.todo, KeepOpen(s, sig)
        PROVE  PlacesInv'
    <2>1. /\ Watched' = Watched /\ OpenSetups' = OpenSetups
          /\ ClosedSetups' = ClosedSetups /\ Recording' = Recording
          /\ UNCHANGED <<up, dedup>>
      BY <1>2, KeepOpenPlaces DEF ClosedSetups
    <2>2. QED
      BY <2>1 DEF PlacesInv, IdsApart, SeenIsRemembered, SignalId, Keys, RejKey
  <1>3. ASSUME NEW s \in Symbols, NEW sig \in loop.todo, CloseSignal(s, sig)
        PROVE  PlacesInv'
    <2> DEFINE a == Setup(sig)
    <2>1. /\ a \in Watched /\ a \in OpenSetups
          /\ Watched' = Watched \ {a} /\ OpenSetups' = OpenSetups \ {a}
          /\ \A b \in OpenSetups' : SignalId(b) # SignalId(a)
          /\ ClosedSetups' = ClosedSetups
          /\ Recording = {} /\ Recording' = {a}
          /\ up /\ UNCHANGED <<up, dedup>>
      BY <1>3, CloseSignalPlaces DEF ClosedSetups
    <2> HIDE DEF a
    <2>2. \A c \in ClosedSetups : SignalId(c) # SignalId(a)
      BY <2>1 DEF PlacesInv, IdsApart
    <2>3. IdsApart'
      <3>1. /\ \A c \in OpenSetups', b \in ClosedSetups' \cup Recording' :
                   SignalId(c) # SignalId(b)
            /\ \A c \in ClosedSetups', b \in Recording' : SignalId(c) # SignalId(b)
        BY <2>1, <2>2 DEF PlacesInv, IdsApart
      <3>2. QED
        BY <3>1 DEF IdsApart, SignalId
    <2>4. SeenIsRemembered'
      BY <2>1 DEF PlacesInv, SeenIsRemembered, Keys, RejKey
    <2>5. QED
      BY <2>3, <2>4 DEF PlacesInv
  <1>4. ASSUME NEW s \in Symbols, NEW p \in Pairs, NEW sig, ScanEmits(s, p, sig)
        PROVE  PlacesInv'
    <2>1. /\ \A a \in OpenSetups \cup ClosedSetups : SignalId(a) # SignalId(sig)
          /\ Watched' = Watched \cup {sig} /\ OpenSetups' = OpenSetups \cup {sig}
          /\ ClosedSetups' = ClosedSetups
          /\ Recording = {} /\ Recording' = {}
          /\ dedup' = Register(dedup, {sig})
          /\ up /\ UNCHANGED up
      BY <1>4, ScanEmitsPlaces DEF ClosedSetups
    <2>2. IdsApart'
      <3>1. /\ \A c \in OpenSetups', b \in ClosedSetups' \cup Recording' :
                   SignalId(c) # SignalId(b)
            /\ \A c \in ClosedSetups', b \in Recording' : SignalId(c) # SignalId(b)
        BY <2>1 DEF PlacesInv, IdsApart
      <3>2. QED
        BY <3>1 DEF IdsApart, SignalId
    <2>3. dedup'.seen_rej = dedup.seen_rej \cup {RejKey(sig)}
      BY <2>1 DEF Register, Keys
    <2>4. SeenIsRemembered'
      <3>1. \A a \in Watched' \cup ClosedSetups' \cup Recording' :
               RejKey(a) \in dedup'.seen_rej
        BY <2>1, <2>3 DEF PlacesInv, SeenIsRemembered, Keys
      <3>2. QED
        BY <3>1 DEF SeenIsRemembered, Keys, RejKey
    <2>5. QED
      BY <2>2, <2>4 DEF PlacesInv
  <1>5. CASE RecordOutcome
    <2>1. /\ ClosedSetups' = ClosedSetups \cup Recording /\ Recording' = {}
          /\ Watched' = Watched /\ OpenSetups' = OpenSetups
          /\ dedup'.seen_rej = dedup.seen_rej /\ UNCHANGED up
      BY <1>5, RecordPlaces DEF PlacesInv
    <2>2. IdsApart'
      <3>1. /\ \A c \in OpenSetups', b \in ClosedSetups' \cup Recording' :
                   SignalId(c) # SignalId(b)
            /\ \A c \in ClosedSetups', b \in Recording' : SignalId(c) # SignalId(b)
        BY <2>1 DEF PlacesInv, IdsApart
      <3>2. QED
        BY <3>1 DEF IdsApart, SignalId
    <2>3. SeenIsRemembered'
      BY <2>1 DEF PlacesInv, SeenIsRemembered, Keys, RejKey
    <2>4. QED
      BY <2>2, <2>3 DEF PlacesInv
  <1>6. CASE Announce
    <2>1. /\ Watched' = Watched /\ OpenSetups' = OpenSetups
          /\ ClosedSetups' = ClosedSetups /\ Recording' = Recording
          /\ UNCHANGED <<up, dedup>>
      BY <1>6, PlacesFrame DEF Announce, FreeLoop, memory, store
    <2>2. QED
      BY <2>1 DEF PlacesInv, IdsApart, SeenIsRemembered, SignalId, Keys, RejKey
  <1>7. CASE Crash
    <2>1. /\ ~up' /\ Recording' = {} /\ OpenSetups' = OpenSetups
          /\ ClosedSetups' = ClosedSetups
      BY <1>7, CrashPlaces
    <2>2. QED
      BY <2>1 DEF PlacesInv, IdsApart, SeenIsRemembered, SignalId
  <1>8. CASE Restart
    <2>1. /\ OpenSetups' = OpenSetups /\ ClosedSetups' = ClosedSetups
          /\ Recording = {} /\ Recording' = {}
          /\ dedup' = Register(Replay(ClosedSetups), Watched')
      BY <1>8, RestartPlaces DEF PositionsInv
    <2>2. dedup'.seen_rej = Keys(ClosedSetups) \cup Keys(Watched')
      BY <2>1 DEF Register, Replay
    <2>3. \A a \in Watched' \cup ClosedSetups' \cup Recording' :
             RejKey(a) \in dedup'.seen_rej
      BY <2>1, <2>2 DEF Keys
    <2>4. SeenIsRemembered'
      BY <2>3 DEF SeenIsRemembered, Keys, RejKey
    <2>5. QED
      BY <2>1, <2>4 DEF PlacesInv, IdsApart, SignalId
  <1>9. QED
    BY <1>1, <1>2, <1>3, <1>4, <1>5, <1>6, <1>7, <1>8, StepCases

LEMMA PlacesInit == Init => PlacesInv
  BY DEF Init, FreeLoop, PlacesInv, IdsApart, SeenIsRemembered, Watched, OpenSetups,
         ClosedSetups, Recording, Keys

-----------------------------------------------------------------------------
(***************************************************************************)
(* What was announced is on record                                         *)
(***************************************************************************)

\* The setup about to be announced has been saved.
PendingIsOpen == loop.at = "announce" => loop.sig \in OpenSetups

OnRecordInv == announced \subseteq OpenSetups \cup ClosedSetups \cup Recording
                 /\ PendingIsOpen

\* The invariant of the run is that announced setups are in one of the places.
LEMMA OnRecordMeaning == OnRecordInv => AnnouncedIsOnRecord
  <1> SUFFICES ASSUME OnRecordInv, NEW sig \in announced
               PROVE  \/ \E r \in open_rows : Setup(r) = sig
                      \/ \E row \in closed_rows : row.rec.sig = sig
                      \/ loop.at = "record" /\ loop.rec.sig = sig
    BY DEF AnnouncedIsOnRecord
  <1>1. sig \in OpenSetups \/ sig \in ClosedSetups \/ sig \in Recording
    BY DEF OnRecordInv
  <1>2. QED
    BY <1>1 DEF OpenSetups, ClosedSetups, Recording

LEMMA OnRecordStep ==
    ASSUME StoreReliable, LagBeforeExpiry, "record" \notin CrashPoints,
           TypeInv, PositionsInv, RowsInv, PlacesInv, OnRecordInv, [Next]_vars
    PROVE  OnRecordInv'
  <1>1. CASE QuietStep
    <2>1. /\ OpenSetups' = OpenSetups /\ ClosedSetups' = ClosedSetups
          /\ Recording' = Recording /\ UNCHANGED announced
          /\ loop' = loop \/ loop'.at # "announce"
      BY <1>1, PlacesFrame DEF QuietStep
    <2>2. QED
      BY <2>1 DEF OnRecordInv, PendingIsOpen
  <1>2. ASSUME NEW s \in Symbols, NEW sig \in loop.todo, KeepOpen(s, sig)
        PROVE  OnRecordInv'
    <2>1. /\ OpenSetups' = OpenSetups /\ ClosedSetups' = ClosedSetups
          /\ Recording' = Recording /\ UNCHANGED announced /\ loop'.at # "announce"
      BY <1>2, KeepOpenPlaces DEF ClosedSetups
    <2>2. QED
      BY <2>1 DEF OnRecordInv, PendingIsOpen
  <1>3. ASSUME NEW s \in Symbols, NEW sig \in loop.todo, CloseSignal(s, sig)
        PROVE  OnRecordInv'
    <2>1. /\ OpenSetups' = OpenSetups \ {Setup(sig)} /\ ClosedSetups' = ClosedSetups
          /\ Recording = {} /\ Recording' = {Setup(sig)}
          /\ UNCHANGED announced /\ loop'.at = "record"
      BY <1>3, CloseSignalPlaces DEF ClosedSetups
    <2>2. QED
      BY <2>1 DEF OnRecordInv, PendingIsOpen
  <1>4. ASSUME NEW s \in Symbols, NEW p \in Pairs, NEW sig, ScanEmits(s, p, sig)
        PROVE  OnRecordInv'
    <2>1. /\ OpenSetups' = OpenSetups \cup {sig} /\ ClosedSetups' = ClosedSetups
          /\ Recording = {} /\ UNCHANGED announced /\ loop'.sig = sig
      BY <1>4, ScanEmitsPlaces DEF ClosedSetups
    <2>2. QED
      BY <2>1 DEF OnRecordInv, PendingIsOpen
  <1>5. CASE RecordOutcome
    <2>1. /\ OpenSetups' = OpenSetups /\ ClosedSetups' = ClosedSetups \cup Recording
          /\ UNCHANGED announced /\ loop'.at # "announce"
      BY <1>5, RecordPlaces DEF PlacesInv
    <2>2. QED
      BY <2>1 DEF OnRecordInv, PendingIsOpen
  <1>6. CASE Announce
    <2>1. /\ OpenSetups' = OpenSetups /\ ClosedSetups' = ClosedSetups
          /\ Recording' = Recording /\ loop.at = "announce" /\ loop'.at = "free"
          /\ announced' = announced \cup {loop.sig}
      BY <1>6, PlacesFrame DEF Announce, FreeLoop, memory, store
    <2>2. QED
      BY <2>1 DEF OnRecordInv, PendingIsOpen
  <1>7. CASE Crash
    <2>1. /\ OpenSetups' = OpenSetups /\ ClosedSetups' = ClosedSetups
          /\ loop.at # "record" /\ loop'.at = "free" /\ UNCHANGED announced
      BY <1>7, CrashPlaces
    <2>2. Recording = {}
      BY <2>1 DEF Recording
    <2>3. QED
      BY <2>1, <2>2 DEF OnRecordInv, PendingIsOpen
  <1>8. CASE Restart
    <2>1. /\ OpenSetups' = OpenSetups /\ ClosedSetups' = ClosedSetups
          /\ Recording' = Recording /\ UNCHANGED <<announced, loop>>
      BY <1>8, RestartPlaces DEF PositionsInv
    <2>2. QED
      BY <2>1 DEF OnRecordInv, PendingIsOpen
  <1>9. QED
    BY <1>1, <1>2, <1>3, <1>4, <1>5, <1>6, <1>7, <1>8, StepCases

LEMMA OnRecordInit == Init => OnRecordInv
  BY DEF Init, FreeLoop, OnRecordInv, PendingIsOpen

\* The invariants every theorem below rests on.
StoreInv == TypeInv /\ PositionsInv /\ RowsInv /\ PlacesInv

LEMMA StoreInit == Init => StoreInv
  BY TypeInit, PositionsInit, RowsInit, PlacesInit DEF StoreInv

LEMMA StoreStep ==
    ASSUME StoreReliable, LagBeforeExpiry, StoreInv, [Next]_vars
    PROVE  StoreInv'
  <1>1. RowsReliable /\ OpenTableReliable
    BY DEF StoreReliable, RowsReliable, OpenTableReliable
  <1>2. QED
    BY <1>1, TypeStep, PositionsStep, RowsStep, PlacesStep DEF StoreInv

(***************************************************************************)
(* No announced signal is lost: with the two tables reliable and no crash  *)
(* between the two writes of _close_signal, each one is on record as open, *)
(* as closed, or on its way from one table to the other.  The lag must end *)
(* before the expiry: a signal that could be emitted again after it        *)
(* expired would overwrite its own row.                                    *)
(***************************************************************************)
THEOREM NoAnnouncedSignalIsLost ==
    StoreReliable /\ LagBeforeExpiry /\ "record" \notin CrashPoints
      => (Spec => []AnnouncedIsOnRecord)
  <1> SUFFICES ASSUME StoreReliable, LagBeforeExpiry, "record" \notin CrashPoints
               PROVE  Spec => []AnnouncedIsOnRecord
    OBVIOUS
  <1>1. Init => StoreInv /\ OnRecordInv
    BY StoreInit, OnRecordInit
  <1>2. StoreInv /\ OnRecordInv /\ [Next]_vars => (StoreInv /\ OnRecordInv)'
    <2> SUFFICES ASSUME StoreInv, OnRecordInv, [Next]_vars
                 PROVE  (StoreInv /\ OnRecordInv)'
      OBVIOUS
    <2>1. StoreInv'
      BY StoreStep
    <2>2. OnRecordInv'
      BY OnRecordStep DEF StoreInv
    <2>3. QED
      BY <2>1, <2>2
  <1>3. QED
    BY <1>1, <1>2, OnRecordMeaning, PTL DEF Spec

-----------------------------------------------------------------------------
(***************************************************************************)
(* Rule A: the signals of a zone                                           *)
(***************************************************************************)

\* The open setups the process knows, or would know after a restart.
Held == IF up THEN Watched ELSE {Setup(r) : r \in Restorable(open_rows)}

\* The setups of a zone that count against its limit.
Tracked(z) == {sig \in Held \cup ClosedSetups \cup Recording : sig.zone = z}

CountsAreTrue ==
    \A z \in Zones :
        /\ Cardinality(Tracked(z)) <= MaxSignalCount
        /\ up => dedup.zone_signal_counts[z] = Cardinality(Tracked(z))

LEMMA TrackedFinite ==
    ASSUME TypeInv, RowsInv, NEW z
    PROVE  IsFiniteSet(Tracked(z)) /\ Cardinality(Tracked(z)) \in Nat
  <1>1. Held \subseteq OpenSetups
    BY DEF Held, Watched, OpenSetups, Restorable, RowsInv, StoreTracksWatchlist
  <1>2. IsFiniteSet(OpenSetups) /\ IsFiniteSet(ClosedSetups)
    BY FiniteRowImages DEF OpenSetups, ClosedSetups, TypeInv
  <1>3. IsFiniteSet(Recording)
    BY FS_EmptySet, FS_Singleton DEF Recording
  <1>4. IsFiniteSet(OpenSetups \cup ClosedSetups)
    BY <1>2, FS_Union
  <1>5. IsFiniteSet((OpenSetups \cup ClosedSetups) \cup Recording)
    BY <1>3, <1>4, FS_Union
  <1>6. Tracked(z) \subseteq (OpenSetups \cup ClosedSetups) \cup Recording
    BY <1>1 DEF Tracked
  <1>7. IsFiniteSet(Tracked(z))
    BY <1>5, <1>6, FS_Subset
  <1>8. QED
    BY <1>7, FS_CardinalityType

\* Steps that track no new setup.
LEMMA CountsKept ==
    ASSUME TypeInv, RowsInv, CountsAreTrue,
           (Held \cup ClosedSetups \cup Recording)' \subseteq
               Held \cup ClosedSetups \cup Recording,
           up' => /\ up
                  /\ (Held \cup ClosedSetups \cup Recording)' =
                         Held \cup ClosedSetups \cup Recording
                  /\ dedup'.zone_signal_counts = dedup.zone_signal_counts
    PROVE  CountsAreTrue'
  <1> SUFFICES ASSUME NEW z \in Zones
               PROVE  /\ Cardinality(Tracked(z)') <= MaxSignalCount
                      /\ up' => dedup'.zone_signal_counts[z] = Cardinality(Tracked(z)')
    BY DEF CountsAreTrue
  <1>1. Tracked(z)' = {sig \in (Held \cup ClosedSetups \cup Recording)' : sig.zone = z}
    BY DEF Tracked
  <1>2. Tracked(z)' \subseteq Tracked(z)
    BY <1>1 DEF Tracked
  <1>3. IsFiniteSet(Tracked(z)) /\ Cardinality(Tracked(z)) \in Nat
    BY TrackedFinite
  <1>4. /\ Cardinality(Tracked(z)') <= Cardinality(Tracked(z))
        /\ Cardinality(Tracked(z)') \in Nat
    BY <1>2, <1>3, FS_Subset, FS_CardinalityType
  <1>5. Cardinality(Tracked(z)) <= MaxSignalCount
    BY DEF CountsAreTrue
  <1>6. Cardinality(Tracked(z)') <= MaxSignalCount
    BY <1>3, <1>4, <1>5, DedupAssumption
  <1>7. up' => Tracked(z)' = Tracked(z)
    BY <1>1 DEF Tracked
  <1>8. QED
    BY <1>6, <1>7 DEF CountsAreTrue

LEMMA CountsEmit ==
    ASSUME StoreReliable, LagBeforeExpiry, TypeInv, RowsInv, PlacesInv, CountsAreTrue,
           NEW s, NEW p \in Pairs, NEW sig, ScanEmits(s, p, sig)
    PROVE  CountsAreTrue'
  <1>1. /\ sig \in Signal
        /\ \A a \in Watched \cup ClosedSetups : a # sig
        /\ Watched' = Watched \cup {sig} /\ ClosedSetups' = ClosedSetups
        /\ Recording = {} /\ Recording' = {}
        /\ dedup.zone_signal_counts[sig.zone] < MaxSignalCount
        /\ dedup' = Register(dedup, {sig})
        /\ up /\ UNCHANGED up
    BY ScanEmitsPlaces DEF ClosedSetups
  <1>2. Held = Watched /\ Held' = Watched'
    BY <1>1 DEF Held
  <1> SUFFICES ASSUME NEW z \in Zones
               PROVE  /\ Cardinality(Tracked(z)') <= MaxSignalCount
                      /\ up' => dedup'.zone_signal_counts[z] = Cardinality(Tracked(z)')
    BY DEF CountsAreTrue
  <1>3. Tracked(z)' = {a \in Watched' \cup ClosedSetups' \cup Recording' : a.zone = z}
    BY <1>2 DEF Tracked
  <1>4. Tracked(z) = {a \in Watched \cup ClosedSetups : a.zone = z}
    BY <1>1, <1>2 DEF Tracked
  <1>5. IsFiniteSet(Tracked(z)) /\ Cardinality(Tracked(z)) \in Nat
    BY TrackedFinite
  <1>6. /\ dedup.zone_signal_counts[z] = Cardinality(Tracked(z))
        /\ Cardinality(Tracked(z)) <= MaxSignalCount
    BY <1>1 DEF CountsAreTrue
  <1>7. dedup'.zone_signal_counts[z] = dedup.zone_signal_counts[z] + CountIn({sig}, z)
    BY <1>1 DEF Register
  <1>8. CASE sig.zone = z
    <2>1. Tracked(z)' = Tracked(z) \cup {sig} /\ sig \notin Tracked(z)
      BY <1>1, <1>3, <1>4, <1>8
    <2>2. Cardinality(Tracked(z)') = Cardinality(Tracked(z)) + 1
      BY <1>5, <2>1, FS_AddElement
    <2>3. CountIn({sig}, z) = 1
      <3>1. {a \in {sig} : a.zone = z} = {sig}
        BY <1>8
      <3>2. QED
        BY <3>1, FS_Singleton DEF CountIn
    <2>4. QED
      BY <1>1, <1>5, <1>6, <1>7, <1>8, <2>2, <2>3, DedupAssumption
  <1>9. CASE sig.zone # z
    <2>1. Tracked(z)' = Tracked(z)
      BY <1>1, <1>3, <1>4, <1>9
    <2>2. CountIn({sig}, z) = 0
      <3>1. {a \in {sig} : a.zone = z} = {}
        BY <1>9
      <3>2. QED
        BY <3>1, FS_EmptySet DEF CountIn
    <2>3. QED
      BY <1>5, <1>6, <1>7, <2>1, <2>2
  <1>10. QED
    BY <1>8, <1>9

LEMMA CountsRestart ==
    ASSUME StoreReliable, TypeInv, DownIsEmpty, RowsInv, PlacesInv, CountsAreTrue, Restart
    PROVE  CountsAreTrue'
  <1>1. /\ ~up /\ up'
        /\ Watched' = {Setup(r) : r \in Restorable(open_rows)}
        /\ Watched' \subseteq OpenSetups
        /\ ClosedSetups' = ClosedSetups
        /\ Recording = {} /\ Recording' = {}
        /\ dedup' = Register(Replay(ClosedSetups), Watched')
    BY RestartPlaces
  <1>2. Held = Watched' /\ Held' = Watched'
    BY <1>1 DEF Held
  <1> SUFFICES ASSUME NEW z \in Zones
               PROVE  /\ Cardinality(Tracked(z)') <= MaxSignalCount
                      /\ up' => dedup'.zone_signal_counts[z] = Cardinality(Tracked(z)')
    BY DEF CountsAreTrue
  <1> DEFINE C == {a \in ClosedSetups : a.zone = z}
             W == {a \in Watched' : a.zone = z}
  <1>3. Tracked(z)' = C \cup W /\ Tracked(z) = C \cup W
    BY <1>1, <1>2 DEF Tracked
  <1>4. C \cap W = {}
    BY <1>1 DEF PlacesInv, IdsApart
  <1>5. IsFiniteSet(C) /\ IsFiniteSet(W)
    <2>1. IsFiniteSet(Tracked(z)) /\ C \subseteq Tracked(z) /\ W \subseteq Tracked(z)
      BY <1>3, TrackedFinite
    <2>2. QED
      BY <2>1, FS_Subset
  <1>6. Cardinality(C \cup W) = Cardinality(C) + Cardinality(W)
    <2>1. Cardinality(C \cup W) = Cardinality(C) + Cardinality(W) - Cardinality(C \cap W)
      BY <1>5, FS_Union
    <2>2. Cardinality(C \cap W) = 0
      BY <1>4, FS_EmptySet
    <2>3. Cardinality(C) \in Nat /\ Cardinality(W) \in Nat
      BY <1>5, FS_CardinalityType
    <2>4. QED
      BY <2>1, <2>2, <2>3
  <1>7. dedup'.zone_signal_counts[z] = Cardinality(C) + Cardinality(W)
    <2>1. dedup'.zone_signal_counts[z] = CountIn(ClosedSetups, z) + CountIn(Watched', z)
      BY <1>1 DEF Register, Replay
    <2>2. QED
      BY <2>1 DEF CountIn
  <1> HIDE DEF C, W
  <1>8. Cardinality(Tracked(z)) <= MaxSignalCount
    BY DEF CountsAreTrue
  <1>9. QED
    BY <1>3, <1>6, <1>7, <1>8

LEMMA CountsStep ==
    ASSUME StoreReliable, LagBeforeExpiry, StoreInv, CountsAreTrue, [Next]_vars
    PROVE  CountsAreTrue'
  <1> USE DEF StoreInv
  <1>1. CASE QuietStep
    <2>1. /\ Watched' = Watched /\ ClosedSetups' = ClosedSetups
          /\ Recording' = Recording
          /\ UNCHANGED <<up, dedup, open_rows>> /\ (now' = now \/ now' = now + 1)
      BY <1>1, PlacesFrame DEF QuietStep
    <2>2. Restorable(open_rows)' \subseteq Restorable(open_rows)
      <3>1. \A r \in open_rows : r.rej \in Nat
        BY SetupType DEF TypeInv, TypeOK
      <3>2. \A r \in open_rows : PastExpiry(r.rej, now) => PastExpiry(r.rej, now')
        BY <2>1, <3>1, ExpiryIsForGood
      <3>3. QED
        BY <2>1, <3>2 DEF Restorable
    <2>3. Held' \subseteq Held /\ (up => Held' = Held)
      BY <2>1, <2>2 DEF Held, Setup
    <2>4. QED
      BY <2>1, <2>3, CountsKept
  <1>2. ASSUME NEW s \in Symbols, NEW sig \in loop.todo, KeepOpen(s, sig)
        PROVE  CountsAreTrue'
    <2>1. /\ Watched' = Watched /\ ClosedSetups' = ClosedSetups
          /\ Recording' = Recording /\ up /\ UNCHANGED <<up, dedup>>
      BY <1>2, KeepOpenPlaces DEF ClosedSetups
    <2>2. Held' = Held
      BY <2>1 DEF Held
    <2>3. QED
      BY <2>1, <2>2, CountsKept
  <1>3. ASSUME NEW s \in Symbols, NEW sig \in loop.todo, CloseSignal(s, sig)
        PROVE  CountsAreTrue'
    <2>1. /\ Setup(sig) \in Watched
          /\ Watched' = Watched \ {Setup(sig)} /\ ClosedSetups' = ClosedSetups
          /\ Recording = {} /\ Recording' = {Setup(sig)}
          /\ up /\ UNCHANGED <<up, dedup>>
      BY <1>3, CloseSignalPlaces DEF ClosedSetups
    <2>2. Held = Watched /\ Held' = Watched'
      BY <2>1 DEF Held
    <2>3. (Held \cup ClosedSetups \cup Recording)' = Held \cup ClosedSetups \cup Recording
      BY <2>1, <2>2
    <2>4. QED
      BY <2>1, <2>3, CountsKept
  <1>4. ASSUME NEW s \in Symbols, NEW p \in Pairs, NEW sig, ScanEmits(s, p, sig)
        PROVE  CountsAreTrue'
    BY <1>4, CountsEmit
  <1>5. CASE RecordOutcome
    <2>1. /\ Watched' = Watched /\ ClosedSetups' = ClosedSetups \cup Recording
          /\ Recording' = {} /\ up /\ UNCHANGED up
          /\ dedup'.zone_signal_counts = dedup.zone_signal_counts
      BY <1>5, RecordPlaces DEF PlacesInv
    <2>2. Held = Watched /\ Held' = Watched'
      BY <2>1 DEF Held
    <2>3. (Held \cup ClosedSetups \cup Recording)' = Held \cup ClosedSetups \cup Recording
      BY <2>1, <2>2
    <2>4. QED
      BY <2>1, <2>3, CountsKept
  <1>6. CASE Announce
    <2>1. /\ Watched' = Watched /\ ClosedSetups' = ClosedSetups
          /\ Recording' = Recording /\ up /\ UNCHANGED <<up, dedup>>
      BY <1>6, PlacesFrame DEF Announce, FreeLoop, memory, store
    <2>2. Held' = Held
      BY <2>1 DEF Held
    <2>3. QED
      BY <2>1, <2>2, CountsKept
  <1>7. CASE Crash
    <2>1. /\ up /\ ~up' /\ Recording' = {} /\ ClosedSetups' = ClosedSetups
          /\ UNCHANGED <<now, open_rows>>
      BY <1>7, CrashPlaces
    <2>2. Held = Watched /\ Held' = {Setup(r) : r \in Restorable(open_rows)}
      BY <2>1 DEF Held, Setup, Restorable
    <2>3. Restorable(open_rows) \subseteq watchlist
      BY <2>1 DEF Restorable, RowsInv, StoreTracksWatchlist
    <2>4. Held' \subseteq Held
      BY <2>2, <2>3 DEF Watched
    <2>5. QED
      BY <2>1, <2>4, CountsKept
  <1>8. CASE Restart
    BY <1>8, CountsRestart DEF PositionsInv
  <1>9. QED
    BY <1>1, <1>2, <1>3, <1>4, <1>5, <1>6, <1>7, <1>8, StepCases

LEMMA CountsInit == Init => CountsAreTrue
  <1> SUFFICES ASSUME Init PROVE CountsAreTrue
    OBVIOUS
  <1>1. \A z : Tracked(z) = {}
    BY DEF Init, FreeLoop, Tracked, Held, Watched, ClosedSetups, Recording
  <1>2. \A z \in Zones : dedup.zone_signal_counts[z] = 0
    BY DEF Init, EmptyDedup
  <1>3. \A z : Cardinality(Tracked(z)) = 0
    BY <1>1, FS_EmptySet
  <1>4. 0 <= MaxSignalCount
    BY DedupAssumption
  <1>5. QED
    BY <1>2, <1>3, <1>4 DEF CountsAreTrue

(***************************************************************************)
(* An announced setup that no restart passed over is tracked.              *)
(***************************************************************************)
LEMMA ZoneLimitHolds ==
    ASSUME TypeInv, RowsInv, OnRecordInv, CountsAreTrue
    PROVE  ZoneLimit
  <1> SUFFICES ASSUME up, NEW z \in Zones
               PROVE  Cardinality(Emissions(z) \ Abandoned) <= MaxSignalCount
    BY DEF ZoneLimit
  <1>1. OpenSetups \subseteq Watched \cup Abandoned
    BY DEF OpenSetups, Watched, Abandoned
  <1>2. Emissions(z) \ Abandoned \subseteq Tracked(z)
    BY <1>1 DEF Emissions, Tracked, Held, OnRecordInv
  <1>3. IsFiniteSet(Tracked(z)) /\ Cardinality(Tracked(z)) \in Nat
    BY TrackedFinite
  <1>4. /\ Cardinality(Emissions(z) \ Abandoned) <= Cardinality(Tracked(z))
        /\ Cardinality(Emissions(z) \ Abandoned) \in Nat
    BY <1>2, <1>3, FS_Subset, FS_CardinalityType
  <1>5. Cardinality(Tracked(z)) <= MaxSignalCount
    BY DEF CountsAreTrue
  <1>6. QED
    BY <1>3, <1>4, <1>5, DedupAssumption

(***************************************************************************)
(* Rule A for every configuration: across rollovers, crashes and restarts  *)
(* a zone announces at most MaxSignalCount signals that did not expire     *)
(* while the process was down.                                             *)
(***************************************************************************)
THEOREM NoZoneExceedsItsLimit ==
    StoreReliable /\ LagBeforeExpiry /\ "record" \notin CrashPoints
      => (Spec => []ZoneLimit)
  <1> SUFFICES ASSUME StoreReliable, LagBeforeExpiry, "record" \notin CrashPoints
               PROVE  Spec => []ZoneLimit
    OBVIOUS
  <1> DEFINE Inv == StoreInv /\ OnRecordInv /\ CountsAreTrue
  <1>1. Init => Inv
    BY StoreInit, OnRecordInit, CountsInit
  <1>2. Inv /\ [Next]_vars => Inv'
    <2> SUFFICES ASSUME StoreInv, OnRecordInv, CountsAreTrue, [Next]_vars
                 PROVE  Inv'
      OBVIOUS
    <2>1. StoreInv'
      BY StoreStep
    <2>2. OnRecordInv'
      BY OnRecordStep DEF StoreInv
    <2>3. CountsAreTrue'
      BY CountsStep
    <2>4. QED
      BY <2>1, <2>2, <2>3
  <1>3. Inv => ZoneLimit
    BY ZoneLimitHolds DEF StoreInv
  <1>4. QED
    BY <1>1, <1>2, <1>3, PTL DEF Spec

-----------------------------------------------------------------------------
(***************************************************************************)
(* The circuit breaker of a session                                        *)
(***************************************************************************)

\* The outcomes recorded for a day.
DayLedger(d) == {ledger[i].rec : i \in SessionRecords(d)}

\* The closed table holds the outcomes recorded, each recorded once.
LedgerIsClosed == Range(ledger) = closed_rows
LedgerIsOnce == \A i, j \in DOMAIN ledger : ledger[i].rec = ledger[j].rec => i = j

\* The JSON files hold no other outcome.
JsonIsSession == \A d \in 0..MaxTime : Range(session_json[d]) \subseteq DayLedger(d)

(***************************************************************************)
(* The history is of the session, and holds at least what is in the JSON   *)
(* file, and everything where SQLite can always be read.                   *)
(***************************************************************************)
HoldsSession(h, d) ==
    /\ Range(h) \subseteq DayLedger(d)
    /\ Range(session_json[d]) \subseteq Range(h)
    /\ "load_session" \notin StoreFaults => DayLedger(d) \subseteq Range(h)

HistoryIsSession == up => HoldsSession(history, session_day)

\* The outcome between its two writes is in the history.
AppendingIsKnown == loop.at = "append" => loop.rec \in Range(history)

\* A pause that is due has been set once the outcome is written.
PauseIsKept ==
    LET until == LastLoss(history).closed_at + PauseLength
    IN  /\ up /\ loop.at # "append"
        /\ ConsecutiveLosses(history) >= MaxConsecutiveLosses
        /\ now < until
        => paused_until = until

SessionInv ==
    /\ LedgerIsClosed /\ LedgerIsOnce /\ JsonIsSession
    /\ HistoryIsSession /\ AppendingIsKnown /\ PauseIsKept
    /\ TicksArePast

\* The records of a day, ordered by their close, are all there.
LEMMA OrderedIsAll ==
    ASSUME NEW records, IsFiniteSet(records), NEW h \in OrderedByClose(records)
    PROVE  Range(h) = records
  <1> DEFINE n == Cardinality(records)
  <1>1. n \in Nat
    BY FS_CardinalityType
  <1>2. /\ h \in [1..n -> records]
        /\ \A i, j \in 1..n : i < j => h[i] # h[j]
    BY DEF OrderedByClose
  <1>3. \A i, j \in 1..n : h[i] = h[j] => i = j
    BY <1>1, <1>2
  <1>4. h \in Injection(1..n, records)
    BY <1>2, <1>3 DEF Injection, IsInjective
  <1>5. Cardinality(1..n) = n
    BY <1>1, FS_Interval
  <1>6. h \in Surjection(1..n, records)
    BY <1>4, <1>5, FS_Injection
  <1>7. QED
    BY <1>2, <1>6 DEF Surjection, Range

\* Reading a day back gives its outcomes, those of the JSON file at the least.
LEMMA LoadSessionIsDay ==
    ASSUME TypeInv, LedgerIsClosed, JsonIsSession,
           NEW d \in 0..MaxTime, NEW h \in LoadSession(d)
    PROVE  HoldsSession(h, d)
  <1> DEFINE rows == DayRecords(closed_rows, d)
  <1>1. rows = DayLedger(d)
    BY DEF LedgerIsClosed, Range, DayRecords, DayLedger, SessionRecords
  <1>2. IsFiniteSet(rows)
    <2>1. IsFiniteSet({r \in closed_rows : r.day = d})
      BY FS_Subset DEF TypeInv
    <2>2. QED
      BY <2>1, FiniteRowImages DEF DayRecords
  <1>3. CASE rows # {} /\ h \in OrderedByClose(rows)
    BY <1>1, <1>2, <1>3, OrderedIsAll DEF JsonIsSession, HoldsSession
  <1>4. CASE h = session_json[d] /\ rows = {}
    BY <1>1, <1>4 DEF JsonIsSession, HoldsSession
  <1>5. CASE h = session_json[d] /\ "load_session" \in StoreFaults
    BY <1>5 DEF JsonIsSession, HoldsSession
  <1>6. QED
    BY <1>3, <1>4, <1>5 DEF LoadSession

\* A pause just computed is kept.
LEMMA CheckStreakKeeps ==
    ASSUME NEW h, NEW t,
           ConsecutiveLosses(h) >= MaxConsecutiveLosses,
           t < LastLoss(h).closed_at + PauseLength,
           LastLoss(h).closed_at \in Nat, t \in Nat
    PROVE  CheckStreak(h, t) = LastLoss(h).closed_at + PauseLength
  BY SessionAssumption DEF CheckStreak

\* The loss a pause counts from is the last of the streak.
LEMMA LastLossIsLoss ==
    ASSUME NEW h \in Seq(ClosedRecord), ConsecutiveLosses(h) >= MaxConsecutiveLosses
    PROVE  \E k \in DOMAIN h : /\ LastLoss(h) = h[k] /\ h[k].outcome = "LOSS"
                               /\ h[k].closed_at \in Nat
  <1> DEFINE S == StreakRecords(h)
  <1>1. S \in SUBSET (1..Len(h)) /\ Len(h) \in Nat /\ DOMAIN h = 1..Len(h)
    BY DEF StreakRecords
  <1>2. S # {}
    <2>1. Cardinality({}) = 0
      BY FS_EmptySet
    <2>2. Cardinality(S) >= MaxConsecutiveLosses
      BY DEF ConsecutiveLosses
    <2>3. ~(0 >= MaxConsecutiveLosses)
      BY SessionAssumption
    <2>4. QED
      BY <2>1, <2>2, <2>3
  <1>3. \E i \in S : \A j \in S : j <= i
    BY <1>1, <1>2, LastExists
  <1> DEFINE k == CHOOSE i \in S : \A j \in S : j <= i
  <1>4. k \in S
    BY <1>3
  <1>5. LastLoss(h) = h[k]
    BY DEF LastLoss
  <1>6. k \in DOMAIN h /\ h[k].outcome = "LOSS"
    BY <1>1, <1>4 DEF StreakRecords
  <1>7. h[k] \in ClosedRecord
    BY <1>1, <1>6
  <1> HIDE DEF k
  <1>8. QED
    BY <1>5, <1>6, <1>7 DEF ClosedRecord

\* The pause after the session was loaded, or an outcome recorded.
LEMMA PauseComputed ==
    ASSUME TypeInv', paused_until' = CheckStreak(history', now), UNCHANGED now
    PROVE  PauseIsKept'
  <1> SUFFICES ASSUME ConsecutiveLosses(history') >= MaxConsecutiveLosses,
                      now' < LastLoss(history').closed_at + PauseLength
               PROVE  paused_until' = LastLoss(history').closed_at + PauseLength
    BY DEF PauseIsKept
  <1>1. history' \in Seq(ClosedRecord) /\ now' \in Nat
    BY EngineAssumption DEF TypeInv, TypeOK
  <1>2. LastLoss(history').closed_at \in Nat
    BY <1>1, LastLossIsLoss
  <1>3. QED
    BY <1>1, <1>2, CheckStreakKeeps

\* What the ledger says of a day is changed only by recording an outcome.
LEMMA DayLedgerFrame ==
    ASSUME UNCHANGED ledger
    PROVE  \A d : DayLedger(d)' = DayLedger(d)
  BY DEF DayLedger, SessionRecords

LEMMA TablesFrame ==
    ASSUME LedgerIsClosed, LedgerIsOnce, JsonIsSession,
           UNCHANGED <<ledger, closed_rows, session_json>>
    PROVE  LedgerIsClosed' /\ LedgerIsOnce' /\ JsonIsSession'
  <1>1. LedgerIsClosed' /\ LedgerIsOnce'
    BY DEF LedgerIsClosed, LedgerIsOnce
  <1>2. JsonIsSession'
    BY DayLedgerFrame DEF JsonIsSession
  <1>3. QED
    BY <1>1, <1>2

\* Steps that leave the session alone.
LEMMA SessionFrame ==
    ASSUME TypeInv, SessionInv, TicksArePast', now' = now \/ now' = now + 1,
           loop' = loop \/ (loop.at # "append" /\ loop'.at # "append"),
           UNCHANGED <<up, session_day, history, paused_until, closed_rows,
                       session_json, ledger>>
    PROVE  SessionInv'
  <1>1. LedgerIsClosed' /\ LedgerIsOnce' /\ JsonIsSession'
    BY TablesFrame DEF SessionInv
  <1>2. HistoryIsSession' /\ AppendingIsKnown'
    BY DayLedgerFrame DEF SessionInv, HistoryIsSession, HoldsSession, AppendingIsKnown
  <1>3. PauseIsKept'
    <2> SUFFICES ASSUME up, loop.at # "append",
                        ConsecutiveLosses(history) >= MaxConsecutiveLosses,
                        now' < LastLoss(history).closed_at + PauseLength
                 PROVE  paused_until = LastLoss(history).closed_at + PauseLength
      BY DEF PauseIsKept
    <2>1. now \in Nat /\ LastLoss(history).closed_at \in Nat
      BY LastLossIsLoss, EngineAssumption DEF TypeInv, TypeOK
    <2>2. now < LastLoss(history).closed_at + PauseLength
      BY <2>1, SessionAssumption
    <2>3. QED
      BY <2>2 DEF SessionInv, PauseIsKept
  <1>4. QED
    BY <1>1, <1>2, <1>3 DEF SessionInv

\* Steps that may roll the session over.
LEMMA SessionRollover ==
    ASSUME TypeInv, TypeInv', SessionInv, TicksArePast',
           NEW ts \in 0..MaxTime, MaybeRollover(ts),
           loop.at # "append", loop'.at # "append",
           UNCHANGED <<now, up, closed_rows, session_json, ledger>>
    PROVE  SessionInv'
  <1>1. CASE Day(ts) = session_day
    BY <1>1, SessionFrame DEF MaybeRollover
  <1>2. CASE Day(ts) # session_day
    <2>1. /\ session_day' = Day(ts) /\ history' \in LoadSession(Day(ts))
          /\ paused_until' = CheckStreak(history', now)
      BY <1>2 DEF MaybeRollover
    <2>2. Day(ts) \in 0..MaxTime
      BY DayBelow, EngineAssumption
    <2>3. HoldsSession(history', Day(ts))
      BY <2>1, <2>2, LoadSessionIsDay DEF SessionInv
    <2>4. HistoryIsSession' /\ AppendingIsKnown'
      BY <2>1, <2>3, DayLedgerFrame DEF HistoryIsSession, HoldsSession, AppendingIsKnown
    <2>5. PauseIsKept'
      BY <2>1, PauseComputed
    <2>6. QED
      BY <2>4, <2>5, TablesFrame DEF SessionInv
  <1>3. QED
    BY <1>1, <1>2

\* The range of a sequence that grows by an element.
LEMMA RangeOfAppend ==
    ASSUME NEW S, NEW h \in Seq(S), NEW x
    PROVE  Range(Append(h, x)) = Range(h) \cup {x}
  <1>1. /\ Len(h) \in Nat /\ DOMAIN h = 1..Len(h)
        /\ DOMAIN Append(h, x) = 1..(Len(h) + 1)
        /\ Append(h, x)[Len(h) + 1] = x
        /\ \A i \in 1..Len(h) : Append(h, x)[i] = h[i]
    OBVIOUS
  <1>2. QED
    BY <1>1 DEF Range

\* The outcome reaches SQLite, and not yet the JSON file.
LEMMA SessionRecord ==
    ASSUME StoreReliable, TypeInv, TypeInv', PlacesInv, SessionInv, TicksArePast',
           RecordOutcome
    PROVE  SessionInv'
  <1> DEFINE row == [rec |-> loop.rec, day |-> session_day]
             n == Len(ledger)
  <1>1. /\ up /\ UNCHANGED <<now, up, session_day, session_json>>
        /\ history' = Append(history, loop.rec)
        /\ ledger' = Append(ledger, row)
        /\ loop'.at = "append" /\ loop'.rec = loop.rec
    BY DEF RecordOutcome
  <1>2. closed_rows' = closed_rows \cup {row} /\ loop.rec.sig \in Recording
    BY RecordPlaces DEF PlacesInv
  <1>3. /\ ledger \in Seq(ClosedRow) /\ history \in Seq(ClosedRecord)
        /\ session_day \in 0..MaxTime
        /\ session_json \in [0..MaxTime -> Seq(ClosedRecord)]
    BY DEF TypeInv, TypeOK
  <1>4. row.rec = loop.rec /\ row.day = session_day
    OBVIOUS
  <1> HIDE DEF row
  <1>5. /\ n \in Nat /\ DOMAIN ledger = 1..n /\ DOMAIN ledger' = 1..(n + 1)
        /\ ledger'[n + 1] = row /\ \A i \in 1..n : ledger'[i] = ledger[i]
    BY <1>1, <1>3
  <1> HIDE DEF n
  <1>6. LedgerIsClosed'
    <2>1. Range(ledger') = Range(ledger) \cup {row}
      BY <1>5 DEF Range
    <2>2. QED
      BY <1>2, <2>1 DEF SessionInv, LedgerIsClosed
  <1>7. \A i \in 1..n : ledger[i].rec # loop.rec
    <2> SUFFICES ASSUME NEW i \in 1..n, ledger[i].rec = loop.rec PROVE FALSE
      OBVIOUS
    <2>1. ledger[i] \in closed_rows
      BY <1>5 DEF SessionInv, LedgerIsClosed, Range
    <2>2. loop.rec.sig \in ClosedSetups
      BY <2>1 DEF ClosedSetups
    <2>3. QED
      BY <1>2, <2>2 DEF PlacesInv, IdsApart
  <1>8. LedgerIsOnce'
    <2> SUFFICES ASSUME NEW i \in 1..(n + 1), NEW j \in 1..(n + 1),
                        ledger'[i].rec = ledger'[j].rec
                 PROVE  i = j
      BY <1>5 DEF LedgerIsOnce
    <2>1. CASE i \in 1..n /\ j \in 1..n
      BY <1>5, <2>1 DEF SessionInv, LedgerIsOnce
    <2>2. CASE i \in 1..n /\ j = n + 1
      BY <1>4, <1>5, <1>7, <2>2
    <2>3. CASE i = n + 1 /\ j \in 1..n
      BY <1>4, <1>5, <1>7, <2>3
    <2>4. QED
      BY <1>5, <2>1, <2>2, <2>3
  <1>9. \A d : DayLedger(d)' = IF d = session_day THEN DayLedger(d) \cup {loop.rec}
                               ELSE DayLedger(d)
    <2> SUFFICES ASSUME NEW d
                 PROVE  DayLedger(d)' = IF d = session_day
                                        THEN DayLedger(d) \cup {loop.rec}
                                        ELSE DayLedger(d)
      OBVIOUS
    <2>1. DayLedger(d)' = {ledger'[i].rec : i \in {j \in 1..(n + 1) : ledger'[j].day = d}}
      BY <1>5 DEF DayLedger, SessionRecords
    <2>2. DayLedger(d) = {ledger[i].rec : i \in {j \in 1..n : ledger[j].day = d}}
      BY <1>5 DEF DayLedger, SessionRecords
    <2>3. \A i \in 1..(n + 1) : i \in 1..n \/ i = n + 1
      BY <1>5
    <2>4. 1..n \subseteq 1..(n + 1) /\ n + 1 \in 1..(n + 1)
      BY <1>5
    <2>5. QED
      BY <1>4, <1>5, <2>1, <2>2, <2>3, <2>4
  <1>10. Range(history') = Range(history) \cup {loop.rec}
    BY <1>1, <1>3, RangeOfAppend
  <1>11. HistoryIsSession' /\ AppendingIsKnown'
    BY <1>1, <1>9, <1>10 DEF SessionInv, HistoryIsSession, HoldsSession, AppendingIsKnown
  <1>12. JsonIsSession'
    BY <1>1, <1>9 DEF SessionInv, JsonIsSession
  <1>13. PauseIsKept'
    BY <1>1 DEF PauseIsKept
  <1>14. QED
    BY <1>6, <1>8, <1>11, <1>12, <1>13 DEF SessionInv

\* The outcome reaches the JSON file too, and the streak is checked.
LEMMA SessionAppend ==
    ASSUME TypeInv, TypeInv', SessionInv, TicksArePast', AppendRecord
    PROVE  SessionInv'
  <1>1. /\ up /\ loop.at = "append" /\ loop'.at # "append"
        /\ UNCHANGED <<now, up, session_day, history, closed_rows, ledger>>
        /\ paused_until' = CheckStreak(history', now)
        /\ \/ session_json' = session_json
           \/ session_json' = [session_json EXCEPT ![session_day] =
                                 Append(session_json[session_day], loop.rec)]
    BY DEF AppendRecord, Resume, ghosts
  <1>2. /\ session_day \in 0..MaxTime
        /\ session_json \in [0..MaxTime -> Seq(ClosedRecord)]
    BY DEF TypeInv, TypeOK
  <1>3. /\ loop.rec \in Range(history) /\ HoldsSession(history, session_day)
        /\ \A d \in 0..MaxTime : Range(session_json[d]) \subseteq DayLedger(d)
    BY <1>1 DEF SessionInv, AppendingIsKnown, HistoryIsSession, JsonIsSession
  <1>4. \A d \in 0..MaxTime :
           \/ Range(session_json'[d]) = Range(session_json[d])
           \/ /\ d = session_day
              /\ Range(session_json'[d]) = Range(session_json[d]) \cup {loop.rec}
    <2> SUFFICES ASSUME NEW d \in 0..MaxTime
                 PROVE  \/ Range(session_json'[d]) = Range(session_json[d])
                        \/ /\ d = session_day
                           /\ Range(session_json'[d])
                                = Range(session_json[d]) \cup {loop.rec}
      OBVIOUS
    <2>1. CASE session_json'[d] = session_json[d]
      BY <2>1
    <2>2. CASE d = session_day /\ session_json'[d] = Append(session_json[d], loop.rec)
      BY <1>2, <2>2, RangeOfAppend
    <2>3. QED
      BY <1>1, <1>2, <2>1, <2>2
  <1>5. \A d : DayLedger(d)' = DayLedger(d)
    BY <1>1, DayLedgerFrame
  <1>6. JsonIsSession'
    <2> SUFFICES ASSUME NEW d \in 0..MaxTime
                 PROVE  Range(session_json'[d]) \subseteq DayLedger(d)'
      BY DEF JsonIsSession
    <2>1. QED
      BY <1>3, <1>4, <1>5 DEF HoldsSession
  <1>7. HistoryIsSession'
    BY <1>1, <1>2, <1>3, <1>4, <1>5 DEF HistoryIsSession, HoldsSession
  <1>8. LedgerIsClosed' /\ LedgerIsOnce'
    BY <1>1 DEF SessionInv, LedgerIsClosed, LedgerIsOnce
  <1>9. PauseIsKept'
    BY <1>1, PauseComputed
  <1>10. QED
    BY <1>1, <1>6, <1>7, <1>8, <1>9 DEF SessionInv, AppendingIsKnown

LEMMA SessionStep ==
    ASSUME StoreReliable, TypeInv, TypeInv', DownIsEmpty, PlacesInv, SessionInv,
           [Next]_vars
    PROVE  SessionInv'
  <1> USE DEF memory, store, ghosts
  <1>1. TicksArePast'
    BY TicksStep DEF SessionInv
  <1>2. CASE Advance \/ UNCHANGED vars
    BY <1>1, <1>2, SessionFrame DEF Advance, vars
  <1>3. ASSUME NEW s \in Symbols, BeginTick(s) \/ FinishWatch(s) PROVE SessionInv'
    BY <1>1, <1>3, SessionFrame DEF BeginTick, FinishWatch
  <1>4. ASSUME NEW s \in Symbols, NEW i \in Intervals,
               FetchGroup(s, i) \/ FetchGroupFails(s, i)
        PROVE  SessionInv'
    BY <1>1, <1>4, SessionFrame DEF FetchGroup, FetchGroupFails
  <1>5. ASSUME NEW s \in Symbols, NEW sig \in loop.todo,
               KeepOpen(s, sig) \/ CloseSignal(s, sig)
        PROVE  SessionInv'
    <2>1. /\ UNCHANGED <<now, up, session_day, history, paused_until, closed_rows,
                         session_json, ledger>>
          /\ loop.at = "evaluate" /\ loop'.at # "append"
      BY <1>5 DEF KeepOpen, CloseSignal, Resume
    <2>2. QED
      BY <1>1, <2>1, SessionFrame
  <1>6. ASSUME NEW s \in Symbols, NEW p \in Pairs, ScanQuiet(s, p) PROVE SessionInv'
    BY <1>1, <1>6, SessionFrame DEF ScanQuiet
  <1>7. \A s \in Symbols : tick[s].fired_at \in -1..MaxTime
    BY DEF TypeInv, TypeOK
  <1>8. ASSUME NEW s \in Symbols, NEW p \in Pairs, ScanBlocked(s, p) PROVE SessionInv'
    <2> DEFINE ts == PairFiredAt(p, tick[s].fired_at)
    <2>1. /\ MaybeRollover(ts)
          /\ UNCHANGED <<now, up, closed_rows, session_json, ledger>>
          /\ \E sig : sig \in Candidates(s, p, tick[s].fired_at)
          /\ loop.at # "append" /\ loop'.at # "append"
      BY <1>8 DEF ScanBlocked
    <2>2. ts \in 0..MaxTime
      BY <1>7, <2>1, CandidateType
    <2> HIDE DEF ts
    <2>3. QED
      BY <1>1, <2>1, <2>2, SessionRollover
  <1>9. ASSUME NEW s \in Symbols, NEW p \in Pairs, NEW sig, ScanEmits(s, p, sig)
        PROVE  SessionInv'
    <2> DEFINE ts == PairFiredAt(p, tick[s].fired_at)
    <2>1. /\ MaybeRollover(ts)
          /\ UNCHANGED <<now, up, closed_rows, session_json, ledger>>
          /\ sig \in Candidates(s, p, tick[s].fired_at)
          /\ loop.at # "append" /\ loop'.at # "append"
      BY <1>9 DEF ScanEmits
    <2>2. ts \in 0..MaxTime
      BY <1>7, <2>1, CandidateType
    <2> HIDE DEF ts
    <2>3. QED
      BY <1>1, <2>1, <2>2, SessionRollover
  <1>10. CASE RecordOutcome \/ AppendRecord
    BY <1>1, <1>10, SessionRecord, SessionAppend
  <1>11. CASE Announce
    BY <1>1, <1>11, SessionFrame DEF Announce, FreeLoop
  <1>12. CASE Crash
    <2>1. ~up' /\ loop'.at = "free" /\ UNCHANGED <<ledger, closed_rows, session_json>>
      BY <1>12 DEF Crash, FreeLoop
    <2>2. QED
      BY <1>1, <2>1, TablesFrame
         DEF SessionInv, HistoryIsSession, AppendingIsKnown, PauseIsKept
  <1>13. CASE Restart
    <2>1. /\ session_day' = Day(now) /\ history' \in LoadSession(Day(now))
          /\ paused_until' = CheckStreak(history', now)
          /\ loop'.at = "free"
          /\ UNCHANGED <<now, ledger, closed_rows, session_json>>
      BY <1>13 DEF Restart, DownIsEmpty, FreeLoop
    <2>2. Day(now) \in 0..MaxTime
      <3>1. now \in Nat /\ now \in 0..MaxTime
        BY EngineAssumption DEF TypeInv, TypeOK
      <3>2. QED
        BY <3>1, DayBelow, EngineAssumption
    <2>3. HoldsSession(history', Day(now))
      BY <2>1, <2>2, LoadSessionIsDay DEF SessionInv
    <2>4. HistoryIsSession' /\ AppendingIsKnown'
      BY <2>1, <2>3, DayLedgerFrame
         DEF HistoryIsSession, HoldsSession, AppendingIsKnown, DownIsEmpty, FreeLoop
    <2>5. PauseIsKept'
      BY <2>1, PauseComputed
    <2>6. QED
      BY <1>1, <2>1, <2>4, <2>5, TablesFrame DEF SessionInv
  <1>14. QED
    BY <1>2, <1>3, <1>4, <1>5, <1>6, <1>8, <1>9, <1>10, <1>11, <1>12, <1>13 DEF Next

LEMMA SessionInit == Init => SessionInv
  <1> SUFFICES ASSUME Init PROVE SessionInv
    OBVIOUS
  <1>1. /\ ledger = << >> /\ history = << >> /\ closed_rows = {} /\ now = 0
        /\ tick = [s \in Symbols |-> IdleTick]
        /\ session_json = [d \in 0..MaxTime |-> << >>]
        /\ loop.at = "free" /\ session_day \in 0..MaxTime
    <2>1. Day(0) \in 0..MaxTime
      BY DayBelow, EngineAssumption
    <2>2. QED
      BY <2>1 DEF Init, FreeLoop
  <1>2. Range(<< >>) = {} /\ \A d : SessionRecords(d) = {}
    BY <1>1 DEF Range, SessionRecords
  <1>3. \A d : DayLedger(d) = {}
    BY <1>2 DEF DayLedger
  <1>4. /\ LedgerIsClosed /\ LedgerIsOnce /\ JsonIsSession
        /\ HistoryIsSession /\ AppendingIsKnown
    <2>1. LedgerIsClosed
      BY <1>1, <1>2 DEF LedgerIsClosed
    <2>2. LedgerIsOnce
      BY <1>1 DEF LedgerIsOnce
    <2>3. JsonIsSession
      <3>1. \A d \in 0..MaxTime : Range(session_json[d]) = {}
        BY <1>1, <1>2
      <3>2. QED
        BY <1>3, <3>1 DEF JsonIsSession
    <2>4. HistoryIsSession /\ AppendingIsKnown
      BY <1>1, <1>2, <1>3 DEF HistoryIsSession, HoldsSession, AppendingIsKnown
    <2>5. QED
      BY <2>1, <2>2, <2>3, <2>4
  <1>5. PauseIsKept
    <2>1. << >> \in Seq(ClosedRecord) /\ DOMAIN << >> = {}
      OBVIOUS
    <2>2. ~(ConsecutiveLosses(history) >= MaxConsecutiveLosses)
      BY <1>1, <2>1, LastLossIsLoss
    <2>3. QED
      BY <2>2 DEF PauseIsKept
  <1>6. TicksArePast
    BY <1>1 DEF TicksArePast, IdleTick
  <1>7. QED
    BY <1>4, <1>5, <1>6 DEF SessionInv

\* A set of positions in a sequence is finite.
LEMMA PositionsFinite ==
    ASSUME NEW n \in Nat, NEW S \in SUBSET (1..n)
    PROVE  IsFiniteSet(S)
  <1>1. IsFiniteSet(1..n)
    BY FS_Interval
  <1>2. QED
    BY <1>1, FS_Subset

(***************************************************************************)
(* In a session without a win the losses a history holds are all in its    *)
(* streak.                                                                 *)
(***************************************************************************)
LEMMA SessionStreak ==
    ASSUME LedgerIsOnce, NEW h \in Seq(ClosedRecord), NEW d,
           Range(h) \subseteq DayLedger(d),
           \A i \in SessionRecords(d) : ledger[i].rec.outcome \notin WinOutcomes,
           NEW losses \in SUBSET SessionRecords(d),
           \A i \in losses : ledger[i].rec.outcome = "LOSS" /\ ledger[i].rec \in Range(h)
    PROVE  Cardinality(losses) <= ConsecutiveLosses(h)
  <1> DEFINE S == StreakRecords(h)
             place == [i \in losses |-> CHOOSE k \in DOMAIN h : h[k] = ledger[i].rec]
  <1>1. \A k \in DOMAIN h : h[k].outcome \notin WinOutcomes
    BY DEF Range, DayLedger
  <1>2. \A i \in losses : place[i] \in DOMAIN h /\ h[place[i]] = ledger[i].rec
    <2> SUFFICES ASSUME NEW i \in losses
                 PROVE  place[i] \in DOMAIN h /\ h[place[i]] = ledger[i].rec
      OBVIOUS
    <2>1. ledger[i].rec \in Range(h)
      OBVIOUS
    <2>2. \E k \in DOMAIN h : h[k] = ledger[i].rec
      BY <2>1 DEF Range
    <2>3. QED
      BY <2>2
  <1>3. \A i \in losses : place[i] \in S
    BY <1>1, <1>2 DEF StreakRecords
  <1>4. place \in [losses -> S]
    BY <1>3
  <1>5. \A i \in losses : i \in DOMAIN ledger
    BY DEF SessionRecords
  <1> HIDE DEF place
  <1>6. \A i, j \in losses : place[i] = place[j] => i = j
    BY <1>2, <1>5 DEF LedgerIsOnce
  <1>7. place \in Injection(losses, S)
    BY <1>4, <1>6 DEF Injection, IsInjective
  <1>8. IsFiniteSet(S)
    <2>1. S \subseteq 1..Len(h) /\ Len(h) \in Nat
      BY DEF StreakRecords
    <2>2. QED
      BY <2>1, PositionsFinite
  <1>9. QED
    BY <1>7, <1>8, FS_Injection DEF ConsecutiveLosses

\* Of all steps only ScanEmits puts a setup up for announcement.
LEMMA EmittingIsScan ==
    ASSUME StoreReliable, StoreInv, [Next]_vars, Emitting
    PROVE  \E s \in Symbols, p \in Pairs : \E sig : ScanEmits(s, p, sig)
  <1>1. ~QuietStep
    BY DEF Emitting, QuietStep
  <1>2. \A s \in Symbols, sig \in loop.todo : ~KeepOpen(s, sig) /\ ~CloseSignal(s, sig)
    <2> SUFFICES ASSUME NEW s \in Symbols, NEW sig \in loop.todo,
                        KeepOpen(s, sig) \/ CloseSignal(s, sig)
                 PROVE  FALSE
      OBVIOUS
    <2>1. loop.at = "evaluate"
      BY DEF KeepOpen, CloseSignal
    <2>2. QED
      BY <2>1 DEF Emitting
  <1>3. ~RecordOutcome /\ ~Announce /\ ~Crash /\ ~Restart
    <2>1. ASSUME RecordOutcome \/ Announce PROVE FALSE
      <3>1. loop.at = "record" \/ loop.at = "announce"
        BY <2>1 DEF RecordOutcome, Announce
      <3>2. QED
        BY <3>1 DEF Emitting
    <2>2. ASSUME Crash \/ Restart PROVE FALSE
      <3>1. loop' = FreeLoop \/ loop' = loop
        BY <2>2 DEF Crash, Restart
      <3>2. QED
        BY <3>1 DEF Emitting, FreeLoop
    <2>3. QED
      BY <2>1, <2>2
  <1>4. QED
    BY <1>1, <1>2, <1>3, StepCases

(***************************************************************************)
(* While the pause of the session's losses lasts, should_emit refuses.     *)
(***************************************************************************)
LEMMA PauseRefuses ==
    ASSUME TypeInv, TypeInv', SessionInv, SessionInv',
           NEW s \in Symbols, NEW p \in Pairs, NEW sig, ScanEmits(s, p, sig),
           Cardinality(DurableLosses(session_day')) >= MaxConsecutiveLosses,
           \A i \in SessionRecords(session_day') :
               ledger[i].rec.outcome \notin WinOutcomes,
           \A i \in {i \in SessionRecords(session_day') :
                            ledger[i].rec.outcome = "LOSS"} :
               now < ledger[i].rec.closed_at + PauseLength
    PROVE  FALSE
  <1> DEFINE ts == PairFiredAt(p, tick[s].fired_at)
             d == session_day'
             h == history'
             losses == DurableLosses(d)
             until == LastLoss(h).closed_at + PauseLength
  <1>1. /\ up /\ UNCHANGED <<now, up, ledger, session_json>>
        /\ loop'.at # "append"
        /\ ~Paused(paused_until', ts)
    BY DEF ScanEmits, ShouldEmit, ghosts
  <1>2. h \in Seq(ClosedRecord) /\ now \in Nat
    BY EngineAssumption DEF TypeInv, TypeOK
  <1>3. HoldsSession(h, d)
    <2>1. HoldsSession(history, session_day)'
      BY <1>1 DEF SessionInv, HistoryIsSession
    <2>2. DayLedger(session_day)' = DayLedger(d)
      BY <1>1 DEF DayLedger, SessionRecords
    <2>3. QED
      BY <1>1, <2>1, <2>2 DEF HoldsSession
  <1>4. ConsecutiveLosses(h) >= MaxConsecutiveLosses
    <2>1. Cardinality(losses) <= ConsecutiveLosses(h)
      <3>1. /\ losses \subseteq SessionRecords(d)
            /\ \A i \in losses : /\ ledger[i].rec.outcome = "LOSS"
                                 /\ ledger[i].rec \in Range(h)
        BY <1>3 DEF DurableLosses, DayLedger, HoldsSession
      <3>2. Range(h) \subseteq DayLedger(d)
        BY <1>3 DEF HoldsSession
      <3> HIDE DEF losses, h, d
      <3>3. QED
        BY <1>2, <3>1, <3>2, SessionStreak DEF SessionInv, d
    <2>2. IsFiniteSet(StreakRecords(h))
      <3>1. StreakRecords(h) \subseteq 1..Len(h) /\ Len(h) \in Nat
        BY <1>2 DEF StreakRecords
      <3>2. QED
        BY <3>1, PositionsFinite
    <2>3. ConsecutiveLosses(h) \in Nat
      BY <2>2, FS_CardinalityType DEF ConsecutiveLosses
    <2>4. IsFiniteSet(losses)
      <3> DEFINE n == Len(ledger)
      <3>1. losses \subseteq 1..n /\ n \in Nat
        BY DEF DurableLosses, SessionRecords, TypeInv, TypeOK
      <3> HIDE DEF n, losses
      <3>2. QED
        BY <3>1, PositionsFinite
    <2>5. Cardinality(losses) \in Nat
      BY <2>4, FS_CardinalityType
    <2> HIDE DEF losses
    <2>6. Cardinality(losses) >= MaxConsecutiveLosses
      BY DEF losses
    <2>7. QED
      BY <2>1, <2>3, <2>5, <2>6, SessionAssumption
  <1>5. PICK k \in DOMAIN h : /\ LastLoss(h) = h[k] /\ h[k].outcome = "LOSS"
                              /\ h[k].closed_at \in Nat
    BY <1>2, <1>4, LastLossIsLoss
  <1>6. PICK i \in SessionRecords(d) : ledger[i].rec = h[k]
    <2>1. h[k] \in DayLedger(d)
      BY <1>3 DEF HoldsSession, Range
    <2>2. QED
      BY <2>1 DEF DayLedger
  <1>7. now < until /\ until \in Nat
    BY <1>5, <1>6, SessionAssumption
  <1>8. paused_until' = until
    BY <1>1, <1>4, <1>7 DEF SessionInv, PauseIsKept
  <1>9. ts \in Int /\ ts <= now
    <2>1. tick[s].fired_at \in Int /\ tick[s].fired_at <= now
      BY EngineAssumption DEF TypeInv, TypeOK, SessionInv, TicksArePast
    <2>2. QED
      BY <1>2, <2>1, PairFiredAtBelow
  <1> HIDE DEF ts, until
  <1>10. Paused(paused_until', ts)
    BY <1>2, <1>7, <1>8, <1>9 DEF Paused, NoPause
  <1>11. QED
    BY <1>1, <1>10

(***************************************************************************)
(* The circuit breaker for every configuration: once a session without a   *)
(* win has the losses that trip it on record, nothing is emitted until the *)
(* pause of its losses is over, across rollovers and restarts, wherever    *)
(* the process dies.  The tables must be written reliably.  A loss counts  *)
(* once it is in SQLite, or, where SQLite may fail to be read, once it is  *)
(* in the JSON file as well: a crash between the two writes leaves the     *)
(* file a loss short, and a process that falls back on it resumes early.   *)
(***************************************************************************)
THEOREM SessionPauseIsKept ==
    StoreReliable /\ LagBeforeExpiry => (Spec => SessionPauseHolds)
  <1> SUFFICES ASSUME StoreReliable, LagBeforeExpiry
               PROVE  Spec => SessionPauseHolds
    OBVIOUS
  <1> DEFINE Inv == StoreInv /\ SessionInv
             Kept == Emitting =>
                 LET session == SessionRecords(session_day')
                     losses == {i \in session : ledger[i].rec.outcome = "LOSS"}
                 IN  ~ /\ Cardinality(DurableLosses(session_day'))
                             >= MaxConsecutiveLosses
                       /\ \A i \in session : ledger[i].rec.outcome \notin WinOutcomes
                       /\ \A i \in losses :
                             now < ledger[i].rec.closed_at + PauseLength
  <1>1. Init => Inv
    BY StoreInit, SessionInit
  <1>2. Inv /\ [Next]_vars => Inv'
    <2> SUFFICES ASSUME StoreInv, SessionInv, [Next]_vars PROVE Inv'
      OBVIOUS
    <2>1. StoreInv'
      BY StoreStep
    <2>2. SessionInv'
      BY <2>1, SessionStep DEF StoreInv, PositionsInv
    <2>3. QED
      BY <2>1, <2>2
  <1>3. Inv /\ Inv' /\ [Next]_vars => [Kept]_vars
    <2> SUFFICES ASSUME StoreInv, SessionInv, StoreInv', SessionInv', [Next]_vars
                 PROVE  Kept
      OBVIOUS
    <2>1. SUFFICES ASSUME Emitting,
                     Cardinality(DurableLosses(session_day')) >= MaxConsecutiveLosses,
                     \A i \in SessionRecords(session_day') :
                         ledger[i].rec.outcome \notin WinOutcomes,
                     \A i \in {i \in SessionRecords(session_day') :
                                  ledger[i].rec.outcome = "LOSS"} :
                         now < ledger[i].rec.closed_at + PauseLength
                   PROVE  FALSE
      OBVIOUS
    <2>2. PICK s \in Symbols, p \in Pairs : \E sig : ScanEmits(s, p, sig)
      BY <2>1, EmittingIsScan
    <2>3. PICK sig : ScanEmits(s, p, sig)
      BY <2>2
    <2>4. QED
      BY <2>1, <2>3, PauseRefuses DEF StoreInv
  <1>4. QED
    BY <1>1, <1>2, <1>3, PTL DEF Spec, SessionPauseHolds
==============================================================================
