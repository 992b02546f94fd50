----------------------------- MODULE Structure -----------------------------
(***************************************************************************)
(* Market structure: pivots, breaks of structure, the zones they leave and *)
(* the trend bias (domain/market/swings.py, domain/market/structure.py).   *)
(*                                                                         *)
(* A chart is a sequence of candles in the order of their timestamps; all  *)
(* prices are integers.  pivot is Settings.pivot_bars.  Everything here is *)
(* a function of the candles: the live scan and the backtester call it on  *)
(* the newest closed candles and keep nothing of an earlier call.          *)
(***************************************************************************)
EXTENDS Integers, Sequences, FiniteSets, FiniteSetsExt, SequencesExt

\* BosDirection; signal_direction of a zone is SHORT when it is BEARISH.
BosDirection == {"BULLISH", "BEARISH"}

SignalDirection(dir) == IF dir = "BEARISH" THEN "SHORT" ELSE "LONG"

Body(c) == IF c.close >= c.open THEN c.close - c.open ELSE c.open - c.close

-----------------------------------------------------------------------------
(***************************************************************************)
(* Pivots                                                                  *)
(***************************************************************************)
\* The candles that have pivot neighbours on both sides.
Inner(cs, pivot) == {i \in DOMAIN cs : i > pivot /\ i + pivot <= Len(cs)}

\* Mutant: off by one to the right.
NeighboursWide(i, pivot) == ((i - pivot)..(i + pivot + 1)) \ {i}

Neighbours(i, pivot) == ((i - pivot)..(i + pivot)) \ {i}

PivotHighs(cs, pivot) ==
    {i \in Inner(cs, pivot) :
        \A j \in Neighbours(i, pivot) \cap DOMAIN cs : cs[j].high < cs[i].high}

PivotLows(cs, pivot) ==
    {i \in Inner(cs, pivot) :
        \A j \in Neighbours(i, pivot) \cap DOMAIN cs : cs[j].low > cs[i].low}

-----------------------------------------------------------------------------
(***************************************************************************)
(* Breaks of structure.  The walk holds the last pivot high and low, 0 for *)
(* None, and forgets both at a break.                                      *)
(***************************************************************************)
NoPivots == [high |-> 0, low |-> 0, events |-> <<>>]

Event(cs, i, dir, broken, swing) ==
    [at |-> cs[i].time, direction |-> dir, level |-> broken, swing |-> swing]

\* The loop body: the candle may itself become a pivot before it is tested,
\* and a bullish break is tried first.
WalkCandle(cs, highs, lows, i, last) ==
    LET high == IF i \in highs THEN i ELSE last.high
        low  == IF i \in lows THEN i ELSE last.low
        known == high # 0 /\ low # 0
        bullish == known /\ i > high /\ cs[i].close > cs[high].high
        bearish == known /\ i > low /\ cs[i].close < cs[low].low
    IN CASE bullish ->
              [NoPivots EXCEPT !.events =
                 Append(last.events, Event(cs, i, "BULLISH", cs[high].high, cs[low]))]
         [] bearish /\ ~bullish ->
              [NoPivots EXCEPT !.events =
                 Append(last.events, Event(cs, i, "BEARISH", cs[low].low, cs[high]))]
         [] OTHER ->
              [high |-> high, low |-> low, events |-> last.events]

BosWalk(cs, highs, lows) ==
    LET walk[i \in 0..Len(cs)] ==
            IF i = 0 THEN NoPivots ELSE WalkCandle(cs, highs, lows, i, walk[i - 1])
    IN walk

DetectBosEvents(cs, pivot) ==
    BosWalk(cs, PivotHighs(cs, pivot), PivotLows(cs, pivot))[Len(cs)].events

\* MarketStructure._run: the direction of the newest break.
Bias(cs, pivot) ==
    LET events == DetectBosEvents(cs, pivot)
    IN IF Len(cs) < 3 \/ events = <<>> THEN "NEUTRAL"
       ELSE SignalDirection(events[Len(events)].direction)

-----------------------------------------------------------------------------
(***************************************************************************)
(* Zones (HtfRange)                                                        *)
(***************************************************************************)
After(cs, time) == {i \in DOMAIN cs : cs[i].time > time}

\* A close beyond the far edge after the break ends the zone.
TakenOut(cs, e) ==
    \E i \in After(cs, e.at) :
        IF e.direction = "BEARISH" THEN cs[i].close > e.swing.high
        ELSE cs[i].close < e.swing.low

\* tp_level: the furthest extreme after the break that left the zone, else
\* the near edge of the zone.
TpLevel(cs, e) ==
    IF e.direction = "BEARISH"
    THEN Min({cs[i].low : i \in After(cs, e.at)} \cup {e.swing.low})
    ELSE Max({cs[i].high : i \in After(cs, e.at)} \cup {e.swing.high})

Zone(cs, e) ==
    [range_high |-> e.swing.high, range_low |-> e.swing.low,
     bos_direction |-> e.direction, timestamp |-> e.swing.time,
     broken_at |-> e.at, tp_level |-> TpLevel(cs, e)]

\* find_htf_ranges: one zone per swing candle and direction, the fresh ones,
\* newest swing first, at most maxZones of them a direction.
FreshZones(cs, pivot, dir) ==
    LET events == DetectBosEvents(cs, pivot)
        First(k) == \A m \in 1..(k - 1) :
                        \/ events[m].direction # dir
                        \/ events[m].swing.time # events[k].swing.time
    IN {Zone(cs, events[k]) : k \in {m \in DOMAIN events :
            events[m].direction = dir /\ First(m) /\ ~TakenOut(cs, events[m])}}

NewestFirst(zones) ==
    CHOOSE s \in [1..Cardinality(zones) -> zones] :
        \A i, j \in DOMAIN s : i < j => s[i].timestamp > s[j].timestamp

FindHtfRanges(cs, pivot, maxZones) ==
    LET Newest(dir) ==
            LET zones == NewestFirst(FreshZones(cs, pivot, dir))
            IN SubSeq(zones, 1, Min({maxZones, Len(zones)}))
    IN IF Len(cs) < 3 THEN <<>> ELSE Newest("BEARISH") \o Newest("BULLISH")

\* detect_displacement: the body of the breaking candle against the average
\* body of up to period candles before it, the ratio being num / den.
Displaced(cs, at, period, num, den) ==
    LET found == {i \in DOMAIN cs : cs[i].time = at}
        b     == Min(found)
        prior == Max({1, b - period})..(b - 1)
        total == MapThenSumSet(LAMBDA i : Body(cs[i]), prior)
    IN \/ found = {}
       \/ prior = {}
       \/ total = 0
       \/ den * Body(cs[b]) * Cardinality(prior) >= num * total

=============================================================================
