-------------------------- MODULE LiveTrackingProofs -------------------------
(***************************************************************************)
(* Proofs about one signal followed to its close, for any number of        *)
(* candles, any expiry and any ticks.  A walk starts each time from what   *)
(* the last tick left, so the argument compares two walks of one history:  *)
(* the candles that left the trade open leave a trade at TP1 as it is,     *)
(* unless the stop was moved to entry, and then they can only close it at  *)
(* breakeven.                                                              *)
(***************************************************************************)
EXTENDS LiveTracking, IterationProofs, SequenceTheorems

New == NewTrade(CreatedAt)

AtTp1 == [New EXCEPT !.status = "TP1_HIT"]

Pricing == [WIN_FULL |-> "weighted", BREAKEVEN |-> "protected",
            LOSS |-> "minus_one", EXPIRED |-> "zero"]

\* What a trade can be: new, at TP1, or closed with the price of its outcome.
Shaped ==
    {t \in Trade : IF IsOpen(t) THEN t \in {New, AtTp1}
                   ELSE t.outcome \in SignalOutcome /\ t.realized_rr = Pricing[t.outcome]}

\* A trade that has passed TP1.
Passed(b) == {t \in Shaped : t # New /\ (b => t.outcome # "LOSS")}

\* A trade closed at breakeven.
AtBreakeven == {t \in Shaped : ~IsOpen(t) /\ t.outcome = "BREAKEVEN"}

\* One candle of a walk.
Move(t, c, b, i) == IF IsOpen(t) THEN StepSignalState(t, c, b, i) ELSE t

-----------------------------------------------------------------------------
(***************************************************************************)
(* One candle                                                              *)
(***************************************************************************)

LEMMA NewFields ==
    /\ New \in Trade /\ New.created_at = 0 /\ New.status = "TRIGGERED" /\ New.outcome = "none"
    /\ AtTp1 \in Trade /\ AtTp1.created_at = 0 /\ AtTp1.status = "TP1_HIT" /\ AtTp1.outcome = "none"
    /\ New # AtTp1 /\ IsOpen(New) /\ IsOpen(AtTp1)
  BY DEF New, AtTp1, NewTrade, CreatedAt, Trade, OpenStatus, ClosedStatus, SignalOutcome,
         RealizedRR, IsOpen

\* Settle sets the four fields it names.
LEMMA SettleFields ==
    ASSUME NEW t \in Trade, NEW s \in ClosedStatus, NEW o \in SignalOutcome,
           NEW r \in RealizedRR, NEW i \in Nat
    PROVE  /\ Settle(t, s, o, r, i) \in Trade /\ ~IsOpen(Settle(t, s, o, r, i))
           /\ Settle(t, s, o, r, i).outcome = o /\ Settle(t, s, o, r, i).realized_rr = r
  <1> DEFINE u == Settle(t, s, o, r, i)
  <1>1. u.status = s /\ u.outcome = o /\ u.realized_rr = r
    BY DEF Settle, Trade
  <1>2. s \in OpenStatus \cup ClosedStatus /\ o \in SignalOutcome \cup {"none"}
        /\ r \in RealizedRR \cup {"none"} /\ i \in Int
    OBVIOUS
  <1>3. u \in Trade
    BY <1>2 DEF Settle, Trade
  <1> HIDE DEF u
  <1>4. QED
    BY <1>1, <1>3 DEF u, IsOpen, OpenStatus, ClosedStatus

\* A trade that settles at the price of its outcome has the right shape.
LEMMA SettleShaped ==
    ASSUME NEW t \in Trade, NEW s \in ClosedStatus, NEW o \in SignalOutcome, NEW i \in Nat
    PROVE  Settle(t, s, o, Pricing[o], i) \in Shaped
  <1>1. Pricing[o] \in RealizedRR
    BY DEF Pricing, SignalOutcome, RealizedRR
  <1>2. QED
    BY <1>1, SettleFields DEF Shaped

\* What a candle makes of a new trade.
LEMMA StepNew ==
    ASSUME NEW c \in Candle, NEW b \in BOOLEAN, NEW i \in Nat
    PROVE  LET u == StepSignalState(New, c, b, i)
           IN  IF PastExpiry(0, i) THEN u = Settle(New, "EXPIRED", "EXPIRED", "zero", i)
               ELSE IF c.toward = "tp2" THEN u = Settle(New, "TP2_HIT", "WIN_FULL", "weighted", i)
               ELSE IF c.against = "stop" THEN u = Settle(New, "SL_HIT", "LOSS", "minus_one", i)
               ELSE IF c.toward = "tp1" THEN u = AtTp1
               ELSE u = New
  BY NewFields DEF StepSignalState, Expire, StepTriggered, AtTp1

\* What a candle makes of a trade at TP1.
LEMMA StepAtTp1 ==
    ASSUME NEW c \in Candle, NEW b \in BOOLEAN, NEW i \in Nat
    PROVE  LET u == StepSignalState(AtTp1, c, b, i)
           IN  IF PastExpiry(0, i)
               THEN IF b THEN u = Settle(AtTp1, "EXPIRED", "BREAKEVEN", "protected", i)
                    ELSE u = Settle(AtTp1, "EXPIRED", "EXPIRED", "zero", i)
               ELSE IF c.toward = "tp2" THEN u = Settle(AtTp1, "TP2_HIT", "WIN_FULL", "weighted", i)
               ELSE IF b /\ c.against # "none"
                    THEN u = Settle(AtTp1, "SL_HIT", "BREAKEVEN", "protected", i)
               ELSE IF ~b /\ c.against = "stop"
                    THEN u = Settle(AtTp1, "SL_HIT", "LOSS", "minus_one", i)
               ELSE u = AtTp1
  BY NewFields DEF StepSignalState, Expire, StepTp1Hit

\* A candle keeps the shape of a trade.
LEMMA MoveShaped ==
    ASSUME NEW t \in Shaped, NEW c \in Candle, NEW b \in BOOLEAN, NEW i \in Nat
    PROVE  Move(t, c, b, i) \in Shaped
  <1>1. New \in Shaped /\ AtTp1 \in Shaped
    BY NewFields DEF Shaped
  <1>2. /\ Pricing["WIN_FULL"] = "weighted" /\ Pricing["BREAKEVEN"] = "protected"
        /\ Pricing["LOSS"] = "minus_one" /\ Pricing["EXPIRED"] = "zero"
    BY DEF Pricing
  <1>3. \A u \in {New, AtTp1} :
           /\ Settle(u, "EXPIRED", "EXPIRED", "zero", i) \in Shaped
           /\ Settle(u, "EXPIRED", "BREAKEVEN", "protected", i) \in Shaped
           /\ Settle(u, "TP2_HIT", "WIN_FULL", "weighted", i) \in Shaped
           /\ Settle(u, "SL_HIT", "LOSS", "minus_one", i) \in Shaped
           /\ Settle(u, "SL_HIT", "BREAKEVEN", "protected", i) \in Shaped
    <2> TAKE u \in {New, AtTp1}
    <2>1. /\ u \in Trade /\ "EXPIRED" \in ClosedStatus /\ "TP2_HIT" \in ClosedStatus
          /\ "SL_HIT" \in ClosedStatus /\ "EXPIRED" \in SignalOutcome
          /\ "BREAKEVEN" \in SignalOutcome /\ "WIN_FULL" \in SignalOutcome /\ "LOSS" \in SignalOutcome
      BY NewFields DEF ClosedStatus, SignalOutcome
    <2>2. QED
      BY <1>2, <2>1, SettleShaped
  <1>4. CASE ~IsOpen(t)
    BY <1>4 DEF Move
  <1>5. CASE t = New
    BY <1>1, <1>3, <1>5, NewFields, StepNew DEF Move
  <1>6. CASE t = AtTp1
    BY <1>1, <1>3, <1>6, NewFields, StepAtTp1 DEF Move
  <1>7. QED
    BY <1>4, <1>5, <1>6 DEF Shaped

\* What Settle leaves of a new trade or one at TP1.
LEMMA SettledOutcomes ==
    ASSUME NEW t \in {New, AtTp1}, NEW i \in Nat
    PROVE  /\ ~IsOpen(Settle(t, "EXPIRED", "EXPIRED", "zero", i))
           /\ ~IsOpen(Settle(t, "EXPIRED", "BREAKEVEN", "protected", i))
           /\ ~IsOpen(Settle(t, "TP2_HIT", "WIN_FULL", "weighted", i))
           /\ ~IsOpen(Settle(t, "SL_HIT", "LOSS", "minus_one", i))
           /\ ~IsOpen(Settle(t, "SL_HIT", "BREAKEVEN", "protected", i))
           /\ Settle(t, "EXPIRED", "BREAKEVEN", "protected", i).outcome = "BREAKEVEN"
           /\ Settle(t, "TP2_HIT", "WIN_FULL", "weighted", i).outcome = "WIN_FULL"
           /\ Settle(t, "SL_HIT", "BREAKEVEN", "protected", i).outcome = "BREAKEVEN"
  <1>1. /\ t \in Trade /\ "EXPIRED" \in ClosedStatus /\ "TP2_HIT" \in ClosedStatus
        /\ "SL_HIT" \in ClosedStatus /\ "EXPIRED" \in SignalOutcome
        /\ "BREAKEVEN" \in SignalOutcome /\ "WIN_FULL" \in SignalOutcome /\ "LOSS" \in SignalOutcome
        /\ "zero" \in RealizedRR /\ "protected" \in RealizedRR /\ "weighted" \in RealizedRR
        /\ "minus_one" \in RealizedRR
    BY NewFields DEF ClosedStatus, SignalOutcome, RealizedRR
  <1>2. ~IsOpen(Settle(t, "EXPIRED", "EXPIRED", "zero", i))
    BY <1>1, SettleFields
  <1>3. /\ ~IsOpen(Settle(t, "EXPIRED", "BREAKEVEN", "protected", i))
        /\ Settle(t, "EXPIRED", "BREAKEVEN", "protected", i).outcome = "BREAKEVEN"
    BY <1>1, SettleFields
  <1>4. /\ ~IsOpen(Settle(t, "TP2_HIT", "WIN_FULL", "weighted", i))
        /\ Settle(t, "TP2_HIT", "WIN_FULL", "weighted", i).outcome = "WIN_FULL"
    BY <1>1, SettleFields
  <1>5. ~IsOpen(Settle(t, "SL_HIT", "LOSS", "minus_one", i))
    BY <1>1, SettleFields
  <1>6. /\ ~IsOpen(Settle(t, "SL_HIT", "BREAKEVEN", "protected", i))
        /\ Settle(t, "SL_HIT", "BREAKEVEN", "protected", i).outcome = "BREAKEVEN"
    BY <1>1, SettleFields
  <1>7. QED
    BY <1>2, <1>3, <1>4, <1>5, <1>6

\* After TP1 no candle makes a trade new again or, with the stop at entry, a loss.
LEMMA MovePassed ==
    ASSUME NEW b \in BOOLEAN, NEW t \in Passed(b), NEW c \in Candle, NEW i \in Nat
    PROVE  Move(t, c, b, i) \in Passed(b)
  <1>1. Move(t, c, b, i) \in Shaped
    BY MoveShaped DEF Passed
  <1>2. CASE ~IsOpen(t)
    BY <1>2 DEF Move
  <1>3. CASE t = AtTp1
    <2>1. Move(t, c, b, i) = StepSignalState(AtTp1, c, b, i)
      BY <1>3, NewFields DEF Move
    <2>2. Move(t, c, b, i) # New
      BY <2>1, NewFields, StepAtTp1, SettledOutcomes
    <2>3. b => Move(t, c, b, i).outcome # "LOSS"
      BY <2>1, NewFields, StepAtTp1, SettledOutcomes
    <2>4. QED
      BY <1>1, <2>2, <2>3 DEF Passed
  <1>4. QED
    BY <1>2, <1>3 DEF Passed, Shaped

(***************************************************************************)
(* A candle that leaves a trade open, before TP1 or after it, leaves one   *)
(* at TP1 as it is, or closes it at breakeven when the stop is at entry.   *)
(***************************************************************************)
LEMMA HarmlessCandle ==
    ASSUME NEW t \in {New, AtTp1}, NEW c \in Candle, NEW b \in BOOLEAN, NEW i \in Nat,
           IsOpen(Move(t, c, b, i))
    PROVE  Move(AtTp1, c, b, i) = AtTp1 \/ (b /\ Move(AtTp1, c, b, i) \in AtBreakeven)
  <1>1. IsOpen(StepSignalState(t, c, b, i)) /\ Move(AtTp1, c, b, i) = StepSignalState(AtTp1, c, b, i)
    BY NewFields DEF Move
  <1>2. Move(AtTp1, c, b, i) \in Shaped
    BY MoveShaped, NewFields DEF Shaped
  <1>3. ~PastExpiry(0, i) /\ c.toward # "tp2"
    BY <1>1, StepNew, StepAtTp1, SettledOutcomes
  <1>4. ~b => c.against # "stop"
    BY <1>1, <1>3, StepNew, StepAtTp1, SettledOutcomes
  <1>5. CASE b /\ c.against # "none"
    <2>1. Move(AtTp1, c, b, i) = Settle(AtTp1, "SL_HIT", "BREAKEVEN", "protected", i)
      BY <1>1, <1>3, <1>5, StepAtTp1
    <2>2. QED
      BY <1>2, <1>5, <2>1, SettledOutcomes DEF AtBreakeven
  <1>6. CASE ~(b /\ c.against # "none")
    BY <1>1, <1>3, <1>4, <1>6, StepAtTp1
  <1>7. QED
    BY <1>5, <1>6

-----------------------------------------------------------------------------
(***************************************************************************)
(* Walks                                                                   *)
(***************************************************************************)

\* f is the walk of cs from start that leaves out the candles before first.
IsWalk(f, b, start, cs, first) ==
    /\ f \in [0..Len(cs) -> Shaped]
    /\ f[0] = start
    /\ \A i \in 1..Len(cs) : f[i] = IF i < first THEN f[i - 1] ELSE Move(f[i - 1], cs[i], b, i)

\* WalkCandles is a walk.
LEMMA WalkIsWalk ==
    ASSUME NEW start \in Shaped, NEW cs \in Seq(Candle), NEW b \in BOOLEAN, NEW first \in {1, 2}
    PROVE  IsWalk(WalkCandles(start, cs, b, first), b, start, cs, first)
  <1> DEFINE n == Len(cs)
             step == [i \in 1..n |-> [t \in Shaped |->
                        IF i < first THEN t ELSE Move(t, cs[i], b, i)]]
             Body(f, i) == IF i < first THEN start
                           ELSE IF IsOpen(f[i - 1]) THEN StepSignalState(f[i - 1], cs[i], b, i)
                           ELSE f[i - 1]
             Walks(f) == [i \in 0..n |-> Body(f, i)]
             F == CHOOSE f : f = Walks(f)
  <1>1. n \in Nat /\ \A i \in 1..n : cs[i] \in Candle /\ i \in Nat /\ i - 1 \in 0..n
    BY LenProperties, ElementOfSeq
  <1>2. step \in [1..n -> [Shaped -> Shaped]]
    BY <1>1, MoveShaped
  <1>3. PICK g : IsRun(g, n, Shaped, start, step)
    <2> HIDE DEF step, n
    <2>1. QED
      BY <1>1, <1>2, IterationExists
  <1>4. /\ g \in [0..n -> Shaped] /\ g[0] = start
        /\ \A i \in 1..n : g[i] = step[i][g[i - 1]]
    BY <1>3, Zenon DEF IsRun
  <1>5. ASSUME NEW i \in 1..n
        PROVE  g[i - 1] \in Shaped /\ g[i] = IF i < first THEN g[i - 1] ELSE Move(g[i - 1], cs[i], b, i)
    <2>1. g[i - 1] \in Shaped
      BY <1>1, <1>4, Zenon
    <2>2. step[i] = [t \in Shaped |-> IF i < first THEN t ELSE Move(t, cs[i], b, i)]
      BY Zenon
    <2>3. step[i][g[i - 1]] = IF i < first THEN g[i - 1] ELSE Move(g[i - 1], cs[i], b, i)
      BY <2>1, <2>2, Zenon
    <2>4. QED
      BY <1>4, <2>1, <2>3, Zenon
  <1>6. \A i \in 0..n : g[i] = Body(g, i)
    <2> TAKE i \in 0..n
    <2>1. CASE i = 0
      BY <1>4, <2>1
    <2>2. CASE i # 0 /\ i < first
      <3>1. i = 1 /\ i \in 1..n
        BY <1>1, <2>2
      <3>2. g[1] = g[0]
        BY <1>5, <2>2, <3>1
      <3>3. QED
        BY <1>4, <2>2, <3>1, <3>2
    <2>3. CASE i # 0 /\ ~(i < first)
      <3>1. i \in 1..n
        BY <1>1, <2>3
      <3>2. g[i] = Move(g[i - 1], cs[i], b, i)
        BY <1>5, <2>3, <3>1
      <3>3. QED
        BY <2>3, <3>2, Zenon DEF Move
    <2>4. QED
      BY <2>1, <2>2, <2>3
  <1>7. g = Walks(g)
    <2>1. g = [i \in 0..n |-> g[i]]
      BY <1>4, Zenon
    <2>2. QED
      BY <1>6, <2>1, Zenon
  <1>8. F = Walks(F)
    BY <1>7
  <1>9. WalkCandles(start, cs, b, first) = F
    BY DEF WalkCandles
  <1> HIDE DEF F
  <1>10. \A i \in 0..n : F[i] = Body(F, i)
    <2>1. \A i \in 0..n : Walks(F)[i] = Body(F, i)
      BY Zenon
    <2>2. QED
      BY <1>8, <2>1, Zenon
  <1> DEFINE S == {i \in 0..n : F[i] = g[i]}
  <1>11. 0 \in S
    <2>1. 0 \in 0..n /\ 0 < first
      BY <1>1
    <2>2. F[0] = Body(F, 0) /\ g[0] = Body(g, 0)
      BY <1>6, <1>10, <2>1, Zenon
    <2>3. QED
      BY <2>1, <2>2
  <1>12. ASSUME NEW i \in 1..n, i - 1 \in S
         PROVE  i \in S
    <2>1. i \in 0..n /\ F[i - 1] = g[i - 1]
      BY <1>1, <1>12
    <2>2. F[i] = Body(F, i) /\ g[i] = Body(g, i)
      BY <1>6, <1>10, <2>1, Zenon
    <2>3. Body(F, i) = Body(g, i)
      BY <2>1, Zenon
    <2>4. QED
      BY <2>1, <2>2, <2>3
  <1>13. 0..n \subseteq S
    <2> HIDE DEF S
    <2>1. QED
      BY <1>1, <1>11, <1>12, IntervalInduction
  <1>14. F = g
    <2>1. F = [i \in 0..n |-> F[i]] /\ g = [i \in 0..n |-> g[i]]
      BY <1>4, <1>8, Zenon
    <2>2. \A i \in 0..n : F[i] = g[i]
      BY <1>13
    <2>3. QED
      BY <2>1, <2>2, Zenon
  <1>15. \A i \in 1..n : g[i] = IF i < first THEN g[i - 1] ELSE Move(g[i - 1], cs[i], b, i)
    BY <1>5
  <1>16. QED
    BY <1>4, <1>9, <1>14, <1>15, Zenon DEF IsWalk

\* A walk that has come to a set no candle leads out of stays in it.
LEMMA WalkStays ==
    ASSUME NEW cs \in Seq(Candle), NEW b, NEW start, NEW first, NEW f,
           IsWalk(f, b, start, cs, first), NEW m \in 0..Len(cs), NEW A, f[m] \in A,
           \A t \in A, c \in Candle, i \in Nat : Move(t, c, b, i) \in A
    PROVE  \A j \in m..Len(cs) : f[j] \in A
  <1> DEFINE n == Len(cs)
             S == {j \in 0..n : j >= m => f[j] \in A}
  <1>1. n \in Nat /\ \A i \in 1..n : cs[i] \in Candle /\ i \in Nat
    BY LenProperties, ElementOfSeq
  <1>2. 0 \in S
    BY <1>1
  <1>3. ASSUME NEW i \in 1..n, i - 1 \in S
        PROVE  i \in S
    <2>1. CASE i < m
      BY <2>1, <1>1
    <2>2. CASE i = m
      BY <2>2, <1>1
    <2>3. CASE i > m
      <3>1. f[i - 1] \in A
        BY <1>1, <1>3, <2>3
      <3>2. f[i] = f[i - 1] \/ f[i] = Move(f[i - 1], cs[i], b, i)
        BY DEF IsWalk
      <3>3. f[i] \in A
        BY <1>1, <3>1, <3>2
      <3>4. QED
        BY <1>1, <3>3
    <2>4. QED
      BY <1>1, <2>1, <2>2, <2>3
  <1>4. 0..n \subseteq S
    <2> HIDE DEF S
    <2>1. QED
      BY <1>1, <1>2, <1>3, IntervalInduction
  <1>5. QED
    BY <1>1, <1>4

\* Two walks that meet, and see the same candles from there on, stay together.
LEMMA WalksAgree ==
    ASSUME NEW cs \in Seq(Candle), NEW ds \in Seq(Candle), NEW b,
           NEW s, NEW t, NEW p, NEW q, NEW f, NEW g,
           IsWalk(f, b, s, cs, p), IsWalk(g, b, t, ds, q),
           NEW m \in Nat, f[m] = g[m],
           NEW n \in Nat, n <= Len(cs), n <= Len(ds), m <= n,
           \A i \in (m + 1)..n : cs[i] = ds[i] /\ (i < p <=> i < q)
    PROVE  f[n] = g[n]
  <1> DEFINE S == {j \in 0..n : j >= m => f[j] = g[j]}
  <1>1. Len(cs) \in Nat /\ Len(ds) \in Nat
    BY LenProperties
  <1>2. 0 \in S
    OBVIOUS
  <1>3. ASSUME NEW i \in 1..n, i - 1 \in S
        PROVE  i \in S
    <2>1. CASE i <= m
      BY <2>1
    <2>2. CASE i > m
      <3>1. i \in (m + 1)..n /\ i \in 1..Len(cs) /\ i \in 1..Len(ds) /\ f[i - 1] = g[i - 1]
        BY <1>1, <1>3, <2>2
      <3>2. cs[i] = ds[i] /\ (i < p <=> i < q)
        BY <3>1
      <3>3. /\ f[i] = IF i < p THEN f[i - 1] ELSE Move(f[i - 1], cs[i], b, i)
            /\ g[i] = IF i < q THEN g[i - 1] ELSE Move(g[i - 1], ds[i], b, i)
        BY <3>1 DEF IsWalk
      <3>4. f[i] = g[i]
        BY <3>1, <3>2, <3>3
      <3>5. QED
        BY <3>4
    <2>3. QED
      BY <2>1, <2>2
  <1>4. 0..n \subseteq S
    <2> HIDE DEF S
    <2>1. QED
      BY <1>2, <1>3, IntervalInduction
  <1>5. QED
    BY <1>4

-----------------------------------------------------------------------------
(***************************************************************************)
(* The invariant                                                           *)
(***************************************************************************)

Walk(start) == WalkCandles(start, candles, be, TriggeredAt + 1)

\* The live trade is the query's, or the stop at entry has closed it.
Follows == trade = QueryReplay \/ (be /\ trade \in AtBreakeven)

\* TP1 is announced at most once, and then the trade has passed it.
Announced == tp1_events \in {0, 1} /\ (tp1_events = 1 => trade \in Passed(be))

TrackingInv == TypeOK /\ trade \in Shaped /\ Follows /\ Announced

LEMMA NewShaped == New \in Shaped /\ AtTp1 \in Shaped
  BY NewFields DEF Shaped

\* The query of the candles seen so far is a point of the whole walk.
LEMMA QueryOnWalk ==
    ASSUME NEW cs \in Seq(Candle), NEW e \in 0..Len(cs), NEW b \in BOOLEAN
    PROVE  WalkCandles(New, SubSeq(cs, 1, e), b, 2)[e] = WalkCandles(New, cs, b, 2)[e]
  <1> DEFINE ds == SubSeq(cs, 1, e)
             f == WalkCandles(New, ds, b, 2)
             g == WalkCandles(New, cs, b, 2)
  <1>1. ds \in Seq(Candle) /\ Len(ds) = e /\ \A i \in 1..e : ds[i] = cs[i]
    <2>1. Len(cs) \in Nat
      BY LenProperties
    <2>2. QED
      BY <2>1, SubSeqProperties
  <1> HIDE DEF ds
  <1>2. IsWalk(f, b, New, ds, 2) /\ IsWalk(g, b, New, cs, 2)
    BY <1>1, NewShaped, WalkIsWalk
  <1> HIDE DEF f, g
  <1>3. f[0] = g[0] /\ e \in Nat /\ 0 \in Nat /\ e <= Len(ds) /\ e <= Len(cs) /\ 0 <= e
    BY <1>1, <1>2, LenProperties DEF IsWalk
  <1>4. \A i \in (0 + 1)..e : ds[i] = cs[i] /\ (i < 2 <=> i < 2)
    BY <1>1
  <1>5. f[e] = g[e]
    BY <1>1, <1>2, <1>3, <1>4, WalksAgree
  <1>6. QED
    BY <1>5 DEF f, g, ds

LEMMA QueryIs ==
    ASSUME candles \in Seq(Candle), evaluated \in 0..Len(candles), be \in BOOLEAN
    PROVE  QueryReplay = Walk(New)[evaluated]
  <1>1. TriggeredAt + 1 = 2
    BY DEF TriggeredAt
  <1>2. QED
    BY <1>1, QueryOnWalk DEF QueryReplay, Walk, New

LEMMA WalkFacts ==
    ASSUME candles \in Seq(Candle), be \in BOOLEAN, NEW start \in Shaped
    PROVE  IsWalk(Walk(start), be, start, candles, 2)
  <1>1. TriggeredAt + 1 = 2
    BY DEF TriggeredAt
  <1>2. QED
    BY <1>1, WalkIsWalk DEF Walk

\* An open trade of the walk is new or at TP1; a closed one stays.
LEMMA ShapedCases ==
    ASSUME NEW t \in Shaped
    PROVE  /\ IsOpen(t) => t \in {New, AtTp1}
           /\ t.status = "TRIGGERED" => t = New
           /\ t.status = "TP1_HIT" => t = AtTp1
           /\ ~IsOpen(t) => \A c, b, i : Move(t, c, b, i) = t
  BY NewFields DEF Shaped, IsOpen, OpenStatus, Move

(***************************************************************************)
(* A walk again, from TP1, of candles that left the trade open: at every   *)
(* point of them it is at TP1 or closed at breakeven.                      *)
(***************************************************************************)
LEMMA Rewalk ==
    ASSUME candles \in Seq(Candle), be \in BOOLEAN, NEW e \in 0..Len(candles),
           IsOpen(Walk(New)[e])
    PROVE  Walk(AtTp1)[e] = AtTp1 \/ (be /\ Walk(AtTp1)[e] \in AtBreakeven)
  <1> DEFINE q == Walk(New)
             r == Walk(AtTp1)
             n == Len(candles)
             S == {j \in 0..e : r[j] = AtTp1 \/ (be /\ r[j] \in AtBreakeven)}
  <1>1. IsWalk(q, be, New, candles, 2) /\ IsWalk(r, be, AtTp1, candles, 2)
    BY NewShaped, WalkFacts
  <1>2. n \in Nat /\ e \in Nat /\ \A i \in 1..n : candles[i] \in Candle /\ i \in Nat
    BY LenProperties, ElementOfSeq
  <1> HIDE DEF q, r
  <1>3. ASSUME NEW j \in 0..e
        PROVE  q[j] \in {New, AtTp1}
    <2>1. j \in 0..n /\ q[j] \in Shaped
      BY <1>1, <1>2 DEF IsWalk
    <2>2. SUFFICES ASSUME ~IsOpen(q[j]) PROVE FALSE
      BY <2>1, ShapedCases
    <2> DEFINE A == {q[j]}
    <2>3. q[j] \in A /\ \A t \in A, c \in Candle, i \in Nat : Move(t, c, be, i) \in A
      BY <2>1, <2>2, ShapedCases
    <2> HIDE DEF A
    <2>4. \A k \in j..n : q[k] \in A
      BY <1>1, <2>1, <2>3, WalkStays
    <2>5. q[e] \in A
      BY <1>2, <2>4
    <2>6. QED
      BY <2>2, <2>5 DEF A, q
  <1>4. 0 \in S
    BY <1>1, <1>2 DEF IsWalk
  <1>5. ASSUME NEW i \in 1..e, i - 1 \in S
        PROVE  i \in S
    <2>1. /\ i \in 1..n /\ i \in Nat /\ i \in 0..e /\ i - 1 \in 0..e
          /\ r[i - 1] = AtTp1 \/ (be /\ r[i - 1] \in AtBreakeven)
      BY <1>2, <1>5
    <2>2. /\ q[i] = IF i < 2 THEN q[i - 1] ELSE Move(q[i - 1], candles[i], be, i)
          /\ r[i] = IF i < 2 THEN r[i - 1] ELSE Move(r[i - 1], candles[i], be, i)
      BY <1>1, <2>1 DEF IsWalk
    <2>3. CASE i < 2
      BY <2>1, <2>2, <2>3
    <2>4. CASE ~(i < 2) /\ r[i - 1] = AtTp1
      <3>1. q[i - 1] \in {New, AtTp1} /\ q[i] \in {New, AtTp1} /\ q[i] = Move(q[i - 1], candles[i], be, i)
        BY <1>3, <2>1, <2>2, <2>4
      <3>2. IsOpen(Move(q[i - 1], candles[i], be, i)) /\ candles[i] \in Candle
        BY <1>2, <2>1, <3>1, NewFields
      <3>3. r[i] = AtTp1 \/ (be /\ r[i] \in AtBreakeven)
        BY <2>1, <2>2, <2>4, <3>1, <3>2, HarmlessCandle
      <3>4. QED
        BY <2>1, <3>3
    <2>5. CASE ~(i < 2) /\ be /\ r[i - 1] \in AtBreakeven
      <3>1. r[i] = r[i - 1]
        <4>1. r[i - 1] \in Shaped /\ ~IsOpen(r[i - 1])
          BY <2>5 DEF AtBreakeven
        <4>2. Move(r[i - 1], candles[i], be, i) = r[i - 1]
          BY <4>1, ShapedCases
        <4>3. QED
          BY <2>2, <2>5, <4>2
      <3>2. QED
        BY <2>1, <2>5, <3>1
    <2>6. QED
      BY <2>1, <2>3, <2>4, <2>5
  <1>6. 0..e \subseteq S
    <2> HIDE DEF S
    <2>1. QED
      BY <1>2, <1>4, <1>5, IntervalInduction
  <1>7. QED
    BY <1>2, <1>6 DEF r

LEMMA InitInv == Init => TrackingInv
  <1> SUFFICES ASSUME Init PROVE TrackingInv
    OBVIOUS
  <1>1. be \in BOOLEAN /\ candles = <<>> /\ trade = New /\ evaluated = 0 /\ tp1_events = 0
    BY DEF Init, New
  <1>2. <<>> \in Seq(Candle) /\ Len(<<>>) = 0
    OBVIOUS
  <1>3. candles \in Seq(Candle) /\ evaluated \in 0..Len(candles)
    BY <1>1, <1>2
  <1>4. TypeOK
    BY <1>1, <1>2, <1>3, NewFields, MaxCandlesAssumption DEF TypeOK
  <1>5. QueryReplay = New
    <2>1. QueryReplay = Walk(New)[0]
      BY <1>1, <1>3, QueryIs
    <2>2. Walk(New)[0] = New
      BY <1>1, <1>3, NewShaped, WalkFacts DEF IsWalk
    <2>3. QED
      BY <2>1, <2>2
  <1>6. QED
    BY <1>1, <1>4, <1>5, NewShaped DEF TrackingInv, Follows, Announced

\* A candle closes: what was walked so far stays.
LEMMA CandleClosesInv ==
    ASSUME TrackingInv, NEW c \in Candle, CandleCloses(c)
    PROVE  TrackingInv'
  <1> DEFINE e == evaluated
             n == Len(candles)
             f == WalkCandles(New, candles, be, 2)
             g == WalkCandles(New, candles', be, 2)
  <1>1. UNCHANGED <<be, trade, evaluated, tp1_events>> /\ candles' = Append(candles, c) /\ n < MaxCandles
    BY DEF CandleCloses
  <1>2. be \in BOOLEAN /\ candles \in Seq(Candle) /\ e \in 0..n /\ n \in Nat
    BY LenProperties DEF TrackingInv, TypeOK
  <1>3. /\ candles' \in Seq(Candle) /\ Len(candles') = n + 1
        /\ \A i \in 1..n : candles'[i] = candles[i]
    BY <1>1, <1>2, AppendProperties
  <1>4. f[e] = g[e]
    <2>1. IsWalk(f, be, New, candles, 2) /\ IsWalk(g, be, New, candles', 2)
      BY <1>2, <1>3, NewShaped, WalkIsWalk
    <2> HIDE DEF f, g
    <2>2. f[0] = g[0] /\ 0 \in Nat /\ e \in Nat /\ e <= Len(candles) /\ e <= Len(candles') /\ 0 <= e
      BY <1>2, <1>3, <2>1 DEF IsWalk
    <2>3. \A i \in (0 + 1)..e : candles[i] = candles'[i] /\ (i < 2 <=> i < 2)
      BY <1>2, <1>3
    <2>4. QED
      BY <1>2, <1>3, <2>1, <2>2, <2>3, WalksAgree
  <1>5. QueryReplay' = QueryReplay
    <2>1. TriggeredAt + 1 = 2 /\ e \in 0..Len(candles')
      BY <1>2, <1>3 DEF TriggeredAt
    <2>2. QueryReplay = f[e]
      BY <1>2, <2>1, QueryOnWalk DEF QueryReplay, New
    <2>3. QueryReplay' = WalkCandles(New, SubSeq(candles', 1, e), be, 2)[e]
      BY <1>1, <2>1 DEF QueryReplay, New
    <2>4. WalkCandles(New, SubSeq(candles', 1, e), be, 2)[e] = g[e]
      BY <1>2, <1>3, <2>1, QueryOnWalk
    <2>5. QED
      BY <1>4, <2>2, <2>3, <2>4
  <1>6. TypeOK'
    <2>1. n + 1 <= MaxCandles
      BY <1>1, <1>2, MaxCandlesAssumption
    <2>2. e \in 0..(n + 1)
      BY <1>2
    <2>3. QED
      BY <1>1, <1>3, <2>1, <2>2 DEF TrackingInv, TypeOK
  <1>7. Follows' /\ Announced'
    BY <1>1, <1>5 DEF TrackingInv, Follows, Announced
  <1>8. QED
    BY <1>1, <1>6, <1>7 DEF TrackingInv

\* A tick walks the history again from what the last one left.
LEMMA UpdateWatchlistInv ==
    ASSUME TrackingInv, UpdateWatchlist
    PROVE  TrackingInv'
  <1> DEFINE e == evaluated
             n == Len(candles)
             q == Walk(New)
             r == Walk(trade)
             emits == \E i \in 1..n : EmitTp1(r[i - 1], r[i])
  <1>1. /\ UNCHANGED <<be, candles>> /\ evaluated' = n /\ IsOpen(trade)
        /\ trade' = r[n]
        /\ tp1_events' = IF emits THEN tp1_events + 1 ELSE tp1_events
    BY DEF UpdateWatchlist, EvaluateLive, Walk
  <1>2. /\ be \in BOOLEAN /\ candles \in Seq(Candle) /\ e \in 0..n /\ n \in Nat
        /\ trade \in Shaped /\ tp1_events \in {0, 1}
    BY LenProperties DEF TrackingInv, TypeOK, Announced
  <1>3. IsWalk(q, be, New, candles, 2) /\ IsWalk(r, be, trade, candles, 2)
    BY <1>2, NewShaped, WalkFacts
  <1>4. trade = q[e] /\ trade \in {New, AtTp1}
    <2>1. trade = QueryReplay
      BY <1>1 DEF TrackingInv, Follows, AtBreakeven
    <2>2. QED
      BY <1>1, <1>2, <2>1, QueryIs, ShapedCases
  <1>5. r[n] = q[n] \/ (be /\ r[n] \in AtBreakeven)
    <2>1. CASE trade = New
      BY <2>1
    <2>2. CASE trade = AtTp1
      <3>1. r[e] = AtTp1 \/ (be /\ r[e] \in AtBreakeven)
        BY <1>1, <1>2, <1>4, <2>2, Rewalk
      <3> HIDE DEF q, r
      <3>2. CASE r[e] = AtTp1
        <4>1. r[e] = q[e] /\ e \in Nat /\ e <= n /\ n <= Len(candles)
          BY <1>2, <1>4, <2>2, <3>2
        <4>2. \A i \in (e + 1)..n : candles[i] = candles[i] /\ (i < 2 <=> i < 2)
          OBVIOUS
        <4>3. r[n] = q[n]
          BY <1>2, <1>3, <4>1, <4>2, WalksAgree
        <4>4. QED
          BY <4>3
      <3>3. CASE be /\ r[e] \in AtBreakeven
        <4>1. \A t \in AtBreakeven, c \in Candle, i \in Nat : Move(t, c, be, i) \in AtBreakeven
          <5> TAKE t \in AtBreakeven, c \in Candle, i \in Nat
          <5>1. t \in Shaped /\ ~IsOpen(t)
            BY DEF AtBreakeven
          <5>2. Move(t, c, be, i) = t
            BY <5>1, ShapedCases
          <5>3. QED
            BY <5>2
        <4>2. \A j \in e..n : r[j] \in AtBreakeven
          BY <1>2, <1>3, <3>3, <4>1, WalkStays
        <4>3. QED
          BY <1>2, <3>3, <4>2
      <3>4. QED
        BY <3>1, <3>2, <3>3
    <2>3. QED
      BY <1>4, <2>1, <2>2
  <1>6. r[n] \in Shaped
    BY <1>2, <1>3 DEF IsWalk
  <1>7. QueryReplay' = q[n]
    <2>1. TriggeredAt + 1 = 2 /\ n \in 0..Len(candles)
      BY <1>2 DEF TriggeredAt
    <2>2. QueryReplay' = WalkCandles(New, SubSeq(candles, 1, n), be, 2)[n]
      BY <1>1, <2>1 DEF QueryReplay, New
    <2>3. WalkCandles(New, SubSeq(candles, 1, n), be, 2)[n] = WalkCandles(New, candles, be, 2)[n]
      BY <1>2, <2>1, QueryOnWalk
    <2>4. QED
      BY <2>1, <2>2, <2>3 DEF Walk
  <1> HIDE DEF q, r
  <1>8. Follows'
    BY <1>1, <1>5, <1>7 DEF Follows
  <1>9. \A i \in 0..n : r[i] \in Shaped
    BY <1>3 DEF IsWalk
  <1>10. \A t \in Passed(be), c \in Candle, i \in Nat : Move(t, c, be, i) \in Passed(be)
    BY <1>2, MovePassed
  <1>11. ASSUME tp1_events = 1 PROVE Announced'
    <2>1. trade \in Passed(be) /\ r[0] = trade /\ 0 \in 0..n
      BY <1>2, <1>3, <1>11 DEF TrackingInv, Announced, IsWalk
    <2>2. \A j \in 0..n : r[j] \in Passed(be)
      BY <1>2, <1>3, <1>10, <2>1, WalkStays
    <2>3. ~emits
      <3> SUFFICES ASSUME NEW i \in 1..n, EmitTp1(r[i - 1], r[i]) PROVE FALSE
        OBVIOUS
      <3>1. i - 1 \in 0..n /\ r[i - 1] \in Shaped /\ r[i - 1].status = "TRIGGERED"
        BY <1>2, <1>9 DEF EmitTp1
      <3>2. r[i - 1] = New
        BY <3>1, ShapedCases
      <3>3. QED
        BY <2>2, <3>1, <3>2 DEF Passed
    <2>4. tp1_events' = 1 /\ trade' \in Passed(be)
      BY <1>1, <1>2, <1>11, <2>2, <2>3
    <2>5. QED
      BY <1>1, <2>4 DEF Announced
  <1>12. ASSUME tp1_events = 0, emits PROVE Announced'
    <2>1. PICK i \in 1..n : EmitTp1(r[i - 1], r[i])
      BY <1>12
    <2>2. i \in 0..n /\ r[i] = AtTp1
      BY <1>2, <1>9, <2>1, ShapedCases DEF EmitTp1
    <2>3. r[i] \in Passed(be)
      BY <2>2, NewFields, NewShaped DEF Passed
    <2>4. \A j \in i..n : r[j] \in Passed(be)
      BY <1>2, <1>3, <1>10, <2>2, <2>3, WalkStays
    <2>5. tp1_events' = 1 /\ trade' \in Passed(be)
      BY <1>1, <1>2, <1>12, <2>4
    <2>6. QED
      BY <1>1, <2>5 DEF Announced
  <1>13. ASSUME tp1_events = 0, ~emits PROVE Announced'
    BY <1>1, <1>13 DEF Announced
  <1>14. Announced'
    BY <1>2, <1>11, <1>12, <1>13
  <1>15. TypeOK'
    BY <1>1, <1>2, <1>6, <1>14 DEF TrackingInv, TypeOK, Shaped, Announced
  <1>16. QED
    BY <1>1, <1>6, <1>8, <1>14, <1>15 DEF TrackingInv

LEMMA NextInv == TrackingInv /\ [Next]_vars => TrackingInv'
  <1> SUFFICES ASSUME TrackingInv, [Next]_vars PROVE TrackingInv'
    OBVIOUS
  <1>1. ASSUME NEW c \in Candle, CandleCloses(c) PROVE TrackingInv'
    BY <1>1, CandleClosesInv
  <1>2. CASE UpdateWatchlist
    BY <1>2, UpdateWatchlistInv
  <1>3. CASE UNCHANGED vars
    <2>1. QueryReplay' = QueryReplay
      BY <1>3 DEF vars, QueryReplay
    <2>2. QED
      BY <1>3, <2>1 DEF vars, TrackingInv, TypeOK, Follows, Announced
  <1>4. QED
    BY <1>1, <1>2, <1>3 DEF Next, Done

\* Every tick over every history leaves the trade in the inductive invariant.
THEOREM Invariance == Spec => []TrackingInv
  BY InitInv, NextInv, PTL DEF Spec

\* The types of the code's values.
THEOREM TypeCorrect == Spec => []TypeOK
  <1>1. TrackingInv => TypeOK
    BY DEF TrackingInv
  <1>2. QED
    BY <1>1, Invariance, PTL

(***************************************************************************)
(* For any history and any ticks over it, SIGNAL_TP1_HIT goes out at most  *)
(* once, though every tick walks the candles of TP1 again.                 *)
(***************************************************************************)
THEOREM Tp1IsAnnouncedOnce == Spec => []Tp1AnnouncedOnce
  <1>1. TrackingInv => Tp1AnnouncedOnce
    BY DEF TrackingInv, Announced, Tp1AnnouncedOnce
  <1>2. QED
    BY <1>1, Invariance, PTL

(***************************************************************************)
(* Once TP1 was announced and the stop moved to entry, no history makes    *)
(* the trade a loss.                                                       *)
(***************************************************************************)
THEOREM Tp1ExcludesLoss == Spec => []NoLossAfterTp1
  <1>1. TrackingInv => NoLossAfterTp1
    BY DEF TrackingInv, Announced, Passed, NoLossAfterTp1
  <1>2. QED
    BY <1>1, Invariance, PTL

\* The assertion of _close_signal, for every way a trade can close.
THEOREM ClosedTradesArePriced == Spec => []ClosedTradeIsPriced
  <1>1. TrackingInv => ClosedTradeIsPriced
    BY DEF TrackingInv, Shaped, Pricing, ClosedTradeIsPriced
  <1>2. QED
    BY <1>1, Invariance, PTL

(***************************************************************************)
(* Without the breakeven stop, walking the whole history again from the    *)
(* persisted status on every tick is the same as walking it once.          *)
(***************************************************************************)
THEOREM LiveIsQueryWithoutBreakeven == Spec => []LiveMatchesQuery
  <1>1. TrackingInv => LiveMatchesQuery
    BY DEF TrackingInv, Follows, LiveMatchesQuery
  <1>2. QED
    BY <1>1, Invariance, PTL

(***************************************************************************)
(* With it, the two can differ only in a trade that closed at breakeven:   *)
(* a win and a loss are the query's.                                       *)
(***************************************************************************)
THEOREM WinsAndLossesAreTheQuerys == Spec => []WinsAndLossesMatchQuery
  <1>1. TrackingInv => WinsAndLossesMatchQuery
    BY DEF TrackingInv, Follows, AtBreakeven, WinsAndLossesMatchQuery
  <1>2. QED
    BY <1>1, Invariance, PTL

(***************************************************************************)
(* The backtest replays the candle of the trigger, live evaluation does    *)
(* not; where that candle leaves the trade alone the walks meet after it.  *)
(***************************************************************************)
LEMMA QueryMeetsBacktest ==
    ASSUME TrackingInv PROVE LiveMatchesBacktest
  <1> DEFINE e == evaluated
             ds == SubSeq(candles, 1, e)
             f == WalkCandles(New, ds, be, 2)
             g == WalkCandles(New, ds, be, 1)
  <1> SUFFICES ASSUME ~be, e > 0, StepSignalState(New, candles[1], be, 1) = New
               PROVE  trade = g[e]
    BY DEF LiveMatchesBacktest, BacktestReplay, New, TriggeredAt
  <1>1. be \in BOOLEAN /\ candles \in Seq(Candle) /\ e \in 1..Len(candles) /\ Len(candles) \in Nat
    BY LenProperties DEF TrackingInv, TypeOK
  <1>2. trade = f[e]
    <2>1. TriggeredAt + 1 = 2
      BY DEF TriggeredAt
    <2>2. QED
      BY <2>1 DEF TrackingInv, Follows, QueryReplay, New
  <1>3. ds \in Seq(Candle) /\ Len(ds) = e /\ ds[1] = candles[1]
    BY <1>1, SubSeqProperties
  <1> HIDE DEF ds
  <1>4. IsWalk(f, be, New, ds, 2) /\ IsWalk(g, be, New, ds, 1)
    BY <1>1, <1>3, NewShaped, WalkIsWalk
  <1> HIDE DEF f, g
  <1>5. f[1] = New /\ g[1] = New
    <2>1. 1 \in 1..Len(ds) /\ 1 - 1 = 0 /\ 1 < 2 /\ ~(1 < 1)
      BY <1>1, <1>3
    <2>2. f[0] = New /\ g[0] = New /\ f[1] = f[0] /\ g[1] = Move(g[0], ds[1], be, 1)
      BY <1>4, <2>1 DEF IsWalk
    <2>3. Move(New, candles[1], be, 1) = New
      BY NewFields DEF Move
    <2>4. QED
      BY <1>3, <2>2, <2>3
  <1>6. 1 \in Nat /\ f[1] = g[1] /\ e \in Nat /\ e <= Len(ds) /\ 1 <= e
    BY <1>1, <1>3, <1>5
  <1>7. \A i \in (1 + 1)..e : ds[i] = ds[i] /\ (i < 2 <=> i < 1)
    BY <1>1
  <1>8. f[e] = g[e]
    BY <1>3, <1>4, <1>6, <1>7, WalksAgree
  <1>9. QED
    BY <1>2, <1>8

(***************************************************************************)
(* Without the breakeven stop, and with a first candle that touches        *)
(* nothing, a trade followed tick by tick ends as the backtest's one       *)
(* replay of its whole history does.                                       *)
(***************************************************************************)
THEOREM LiveIsBacktest == Spec => []LiveMatchesBacktest
  BY QueryMeetsBacktest, Invariance, PTL
==============================================================================
