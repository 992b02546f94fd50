-------------------------------- MODULE Dedup --------------------------------
(***************************************************************************)
(* The deduplication rules A, B, D, E of domain/signals/dedup.py, as       *)
(* operators on a dedup state (DedupState).                                *)
(*                                                                         *)
(* A zone is an HTF range: it belongs to a symbol and a timeframe pair,    *)
(* trades in one direction and is told from its siblings by ts.  The set   *)
(* dead_zones is not kept: register and replay add a zone to it exactly    *)
(* when its count reaches MaxSignalCount, which rule A tests as well.      *)
(***************************************************************************)
EXTENDS Integers, FiniteSets

CONSTANTS
    Symbols,
    Pairs,            \* cfg.tf_pairs
    Ltf,              \* the LTF interval of a pair, in candles of the fastest
    Zones,
    MultiTf,          \* multi_tf_independent_positions
    MaxSignalCount    \* max_signal_count_per_zone

Direction == {"LONG", "SHORT"}

ASSUME DedupAssumption ==
    /\ Ltf \in [Pairs -> Nat \ {0}]
    /\ Zones \subseteq [sym : Symbols, pair : Pairs, dir : Direction, ts : Nat]
    /\ MultiTf \in BOOLEAN
    /\ MaxSignalCount \in Nat \ {0}

\* A setup: the zone and the open time of its rejection candle.
Signal == [zone : Zones, rej : Nat]

\* The id a setup is stored under; it does not name the zone.
SignalId(sig) == <<sig.zone.sym, sig.zone.pair, sig.zone.dir, sig.rej>>

RejKey(sig) == <<sig.zone.sym, sig.zone.pair, sig.rej>>

DirKey(zone) ==
    <<zone.sym, zone.dir, IF MultiTf THEN zone.pair ELSE "">>

DedupState ==
    [zone_signal_counts : [Zones -> Nat],
     seen_rej           : SUBSET (Symbols \X Pairs \X Nat),
     open_dir           : SUBSET (Symbols \X Direction \X (Pairs \cup {""}))]

EmptyDedup ==
    [zone_signal_counts |-> [z \in Zones |-> 0], seen_rej |-> {}, open_dir |-> {}]

Keys(S) == {RejKey(sig) : sig \in S}
Locks(S) == {DirKey(sig.zone) : sig \in S}

CountIn(S, z) == Cardinality({sig \in S : sig.zone = z})

\* Mutant: replay restores the rejections and forgets the counts.
ReplayKeysOnly(closed) ==
    [zone_signal_counts |-> [z \in Zones |-> 0],
     seen_rej |-> Keys(closed), open_dir |-> {}]

\* replay: rebuild from the closed signals; they hold no direction lock.
Replay(closed) ==
    [zone_signal_counts |-> [z \in Zones |-> CountIn(closed, z)],
     seen_rej |-> Keys(closed), open_dir |-> {}]

\* Mutant: register does not take the direction lock.
RegisterWithoutLock(dedup, S) ==
    [zone_signal_counts |->
        [z \in Zones |-> dedup.zone_signal_counts[z] + CountIn(S, z)],
     seen_rej |-> dedup.seen_rej \cup Keys(S), open_dir |-> dedup.open_dir]

\* register, applied to each of the signals S in turn.
Register(dedup, S) ==
    [zone_signal_counts |->
        [z \in Zones |-> dedup.zone_signal_counts[z] + CountIn(S, z)],
     seen_rej |-> dedup.seen_rej \cup Keys(S),
     open_dir |-> dedup.open_dir \cup Locks(S)]

\* Mutant: release_direction misses the key register used.
ReleaseNothing(dedup, zone) == dedup

\* release_direction
ReleaseDirection(dedup, zone) ==
    [dedup EXCEPT !.open_dir = @ \ {DirKey(zone)}]

IsDirectionOpen(dedup, zone) == DirKey(zone) \in dedup.open_dir

\* rejection_stale_hours: two LTF candles.
StaleAfter(pair) == 2 * Ltf[pair]

\* Mutant: rule E is not tested.
RulesAllowTwice(dedup, sig, current_ts) ==
    /\ dedup.zone_signal_counts[sig.zone] < MaxSignalCount
    /\ current_ts - sig.rej <= StaleAfter(sig.zone.pair)

\* should_emit: rule A, then D, then E.
RulesAllow(dedup, sig, current_ts) ==
    /\ dedup.zone_signal_counts[sig.zone] < MaxSignalCount
    /\ current_ts - sig.rej <= StaleAfter(sig.zone.pair)
    /\ RejKey(sig) \notin dedup.seen_rej
==============================================================================
