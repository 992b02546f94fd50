--------------------------- MODULE IterationProofs ---------------------------
(***************************************************************************)
(* What a loop over 1..n computes.  The model writes such a loop as a      *)
(* recursive function on 0..n.  The lemmas here take a set or a function   *)
(* for what an induction principle takes an operator, so that they can be  *)
(* cited: a set that contains 0 and is closed under the steps contains     *)
(* 0..n, and a function that steps from a value has the runs it should.    *)
(***************************************************************************)
EXTENDS Integers, NaturalsInduction, WellFoundedInduction, TLAPS

\* A set of naturals that is not empty has a least element.
LEMMA LeastExists ==
    ASSUME NEW S \in SUBSET Nat, S # {}
    PROVE  \E m \in S : \A x \in S : m <= x
  <1>1. PICK m \in S : \A x \in S : ~(<<x, m>> \in OpToRel(<, Nat))
    BY WFMin, NatLessThanWellFounded
  <1>2. ASSUME NEW x \in S PROVE m <= x
    <2>1. ~(x < m)
      BY <1>1 DEF OpToRel
    <2>2. QED
      BY <2>1
  <1>3. QED
    BY <1>2

\* Induction on 0..n for a set.
LEMMA IntervalInduction ==
    ASSUME NEW n \in Nat, NEW S, 0 \in S,
           \A i \in 1..n : i - 1 \in S => i \in S
    PROVE  0..n \subseteq S
  <1> DEFINE T == (0..n) \ S
  <1>1. SUFFICES ASSUME T # {} PROVE FALSE
    OBVIOUS
  <1>2. PICK m \in T : \A x \in T : m <= x
    <2>1. T \in SUBSET Nat
      OBVIOUS
    <2>2. QED
      BY <1>1, <2>1, LeastExists
  <1>3. m \in 1..n /\ m - 1 \notin T /\ m - 1 \in 0..n
    BY <1>2
  <1>4. QED
    BY <1>2, <1>3

\* f is the run of n steps from a.
IsRun(f, n, V, a, step) ==
    /\ f \in [0..n -> V]
    /\ f[0] = a
    /\ \A i \in 1..n : f[i] = step[i][f[i - 1]]

\* A step function applied n times from a start has a run.
LEMMA IterationExists ==
    ASSUME NEW n \in Nat, NEW V, NEW a \in V, NEW step \in [1..n -> [V -> V]]
    PROVE  \E f : IsRun(f, n, V, a, step)
  <1> DEFINE Run(m, f) == f[0] = a /\ \A i \in 1..m : f[i] = step[i][f[i - 1]]
             S == {m \in 0..n : \E f \in [0..m -> V] : Run(m, f)}
  <1>1. 0 \in S
    <2> DEFINE f == [i \in 0..0 |-> a]
    <2>1. f \in [0..0 -> V] /\ Run(0, f)
      OBVIOUS
    <2> HIDE DEF f
    <2>2. \E h \in [0..0 -> V] : Run(0, h)
      BY <2>1
    <2>3. QED
      BY <2>2
  <1>2. ASSUME NEW m \in 1..n, m - 1 \in S
        PROVE  m \in S
    <2>1. PICK f \in [0..(m - 1) -> V] : Run(m - 1, f)
      BY <1>2
    <2> DEFINE g == [i \in 0..m |-> IF i = m THEN step[m][f[m - 1]] ELSE f[i]]
    <2>2. step[m][f[m - 1]] \in V
      <3>1. f[m - 1] \in V
        OBVIOUS
      <3>2. QED
        BY <3>1
    <2>3. g \in [0..m -> V]
      BY <2>2
    <2>4. g[0] = a
      BY <2>1
    <2>5. ASSUME NEW i \in 1..m PROVE g[i] = step[i][g[i - 1]]
      <3>1. CASE i = m
        BY <3>1
      <3>2. CASE i # m
        <4>1. i \in 1..(m - 1) /\ g[i] = f[i] /\ g[i - 1] = f[i - 1]
          BY <3>2
        <4>2. QED
          BY <2>1, <4>1
      <3>3. QED
        BY <3>1, <3>2
    <2>6. Run(m, g)
      BY <2>4, <2>5
    <2> HIDE DEF g
    <2>7. \E h \in [0..m -> V] : Run(m, h)
      BY <2>3, <2>6
    <2>8. m \in 0..n
      OBVIOUS
    <2>9. QED
      BY <2>7, <2>8
  <1>3. n \in S
    <2> HIDE DEF S
    <2>1. 0..n \subseteq S
      BY <1>1, <1>2, IntervalInduction
    <2>2. QED
      BY <2>1
  <1>4. QED
    BY <1>3 DEF IsRun
==============================================================================
