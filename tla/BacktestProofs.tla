--------------------------- MODULE BacktestProofs ----------------------------
(***************************************************************************)
(* Theorems of Backtest, for every chart, list of pairs, set of settings,  *)
(* account and risk level, and every number of pivot bars, zones and       *)
(* attempts.                                                               *)
(***************************************************************************)
EXTENDS Backtest, IterationProofs, FiniteSetTheorems, SequenceTheorems

-----------------------------------------------------------------------------
(***************************************************************************)
(* Extrema                                                                 *)
(***************************************************************************)

\* A finite set of integers that is not empty has a largest element.
LEMMA LargestExists ==
    ASSUME NEW S \in SUBSET Int, IsFiniteSet(S), S # {}
    PROVE  \E m \in S : \A x \in S : m >= x
  <1> DEFINE Has(T) == \E m \in T : \A x \in T : m >= x
             G == {n \in Nat : \A T \in SUBSET S : Cardinality(T) = n /\ T # {} => Has(T)}
  <1>1. IsFiniteSet(S) /\ Cardinality(S) \in Nat
    BY FS_CardinalityType
  <1>2. 0 \in G
    <2>1. ASSUME NEW T \in SUBSET S, Cardinality(T) = 0, T # {} PROVE FALSE
      <3>1. IsFiniteSet(T)
        BY FS_Subset
      <3>2. QED
        BY <2>1, <3>1, FS_EmptySet
    <2>2. QED
      BY <2>1
  <1>3. ASSUME NEW n \in 1..Cardinality(S), n - 1 \in G
        PROVE  n \in G
    <2>1. ASSUME NEW T \in SUBSET S, Cardinality(T) = n, T # {}
          PROVE  Has(T)
      <3>1. PICK e \in T : TRUE
        BY <2>1
      <3> DEFINE U == T \ {e}
      <3>2. IsFiniteSet(T)
        BY FS_Subset
      <3>3. Cardinality(U) = n - 1 /\ U \in SUBSET S
        BY <2>1, <3>2, FS_RemoveElement
      <3>4. CASE U = {}
        <4>1. \A x \in T : e >= x
          BY <3>4
        <4>2. QED
          BY <4>1
      <3>5. CASE U # {}
        <4>1. PICK m \in U : \A x \in U : m >= x
          BY <1>3, <3>3, <3>5
        <4>2. CASE m >= e
          <5>1. \A x \in T : m >= x
            BY <4>1, <4>2
          <5>2. QED
            BY <5>1
        <4>3. CASE ~(m >= e)
          <5>1. \A x \in T : e >= x
            BY <4>1, <4>3
          <5>2. QED
            BY <5>1
        <4>4. QED
          BY <4>2, <4>3
      <3>6. QED
        BY <3>4, <3>5
    <2>2. n \in Nat
      BY <1>1
    <2>3. QED
      BY <2>1, <2>2
  <1>4. Cardinality(S) \in G
    <2> HIDE DEF G
    <2>1. 0..Cardinality(S) \subseteq G
      BY <1>1, <1>2, <1>3, IntervalInduction
    <2>2. QED
      BY <1>1, <2>1
  <1>5. QED
    BY <1>4

\* Max of such a set is its largest element.
LEMMA MaxOfFinite ==
    ASSUME NEW S \in SUBSET Int, IsFiniteSet(S), S # {}
    PROVE  Max(S) \in S /\ \A x \in S : Max(S) >= x
  BY LargestExists DEF Max

\* The values of a function on a finite set are finitely many.
LEMMA ValuesFinite ==
    ASSUME NEW D, IsFiniteSet(D), NEW f, DOMAIN f = D, NEW T, T = {f[i] : i \in D}
    PROVE  IsFiniteSet(T)
  <1> DEFINE g == [i \in D |-> f[i]]
  <1>1. g \in Surjection(D, T)
    BY DEF Surjection
  <1>2. QED
    BY <1>1, FS_Surjection

\* Min of such a set is its smallest element.
LEMMA MinOfFinite ==
    ASSUME NEW S \in SUBSET Int, IsFiniteSet(S), S # {}
    PROVE  Min(S) \in S /\ \A x \in S : Min(S) <= x
  <1> DEFINE f == [x \in S |-> -x]
             T == {f[x] : x \in S}
  <1>1. IsFiniteSet(T)
    BY ValuesFinite
  <1>2. PICK e \in S : TRUE
    OBVIOUS
  <1>3. f[e] \in T
    OBVIOUS
  <1>4. T \in SUBSET Int
    OBVIOUS
  <1>5. PICK m \in T : \A x \in T : m >= x
    <2> HIDE DEF T
    <2>1. QED
      BY <1>1, <1>3, <1>4, LargestExists
  <1>6. PICK k \in S : m = -k
    OBVIOUS
  <1>7. ASSUME NEW x \in S PROVE k <= x
    <2>1. -x \in T
      <3>1. f[x] = -x /\ f[x] \in T
        OBVIOUS
      <3>2. QED
        BY <3>1
    <2>2. m >= -x
      BY <1>5, <2>1
    <2>3. QED
      BY <1>6, <2>2
  <1>8. QED
    BY <1>7 DEF Min

\* How many candles open at or before, and before, a time.
LEMMA BisectProperties ==
    ASSUME NEW S, NEW cs \in Seq(S), NEW t
    PROVE  /\ BisectRight(cs, t) \in 0..Len(cs) /\ BisectLeft(cs, t) \in 0..Len(cs)
           /\ \A i \in 1..Len(cs) : cs[i].time <= t => i <= BisectRight(cs, t)
           /\ BisectRight(cs, t) > 0 => cs[BisectRight(cs, t)].time <= t
  <1> DEFINE R == {0} \cup {i \in DOMAIN cs : cs[i].time <= t}
             L == {0} \cup {i \in DOMAIN cs : cs[i].time < t}
  <1>1. Len(cs) \in Nat /\ DOMAIN cs = 1..Len(cs)
    BY LenProperties
  <1>2. R \in SUBSET (0..Len(cs)) /\ L \in SUBSET (0..Len(cs)) /\ 0 \in R /\ 0 \in L
    BY <1>1
  <1>3. IsFiniteSet(R) /\ IsFiniteSet(L)
    <2>1. IsFiniteSet(0..Len(cs))
      BY <1>1, FS_Interval
    <2> HIDE DEF R, L
    <2>2. QED
      BY <1>2, <2>1, FS_Subset
  <1>4. Max(R) \in R /\ \A x \in R : Max(R) >= x
    <2> HIDE DEF R
    <2>1. R \in SUBSET Int
      BY <1>2
    <2>2. QED
      BY <1>2, <1>3, <2>1, MaxOfFinite
  <1>5. Max(L) \in L
    <2> HIDE DEF L
    <2>1. L \in SUBSET Int
      BY <1>2
    <2>2. QED
      BY <1>2, <1>3, <2>1, MaxOfFinite
  <1>6. BisectRight(cs, t) = Max(R) /\ BisectLeft(cs, t) = Max(L)
    BY DEF BisectRight, BisectLeft
  <1>7. Max(R) \in 0..Len(cs) /\ Max(L) \in 0..Len(cs)
    <2> HIDE DEF R, L
    <2>1. QED
      BY <1>2, <1>4, <1>5
  <1>8. ASSUME NEW i \in 1..Len(cs), cs[i].time <= t PROVE i <= Max(R)
    <2>1. i \in R
      BY <1>1, <1>8
    <2> HIDE DEF R
    <2>2. QED
      BY <1>1, <1>4, <1>7, <2>1
  <1>9. ASSUME Max(R) > 0 PROVE cs[Max(R)].time <= t
    <2>1. PICK m : m = Max(R)
      OBVIOUS
    <2>2. m \in R /\ m # 0
      BY <1>4, <1>7, <1>9, <2>1
    <2>3. cs[m].time <= t
      BY <2>2
    <2>4. QED
      BY <2>1, <2>3
  <1> HIDE DEF R, L
  <1>10. QED
    BY <1>6, <1>7, <1>8, <1>9

-----------------------------------------------------------------------------
(***************************************************************************)
(* Candles                                                                 *)
(***************************************************************************)

\* A chart as the assumption has it.
IsChart(c) == c \in Seq(Ohlc) /\ \A i \in DOMAIN c : c[i].time = i - 1

\* Prices are natural numbers.
LEMMA PriceInt == Price \subseteq Nat /\ BufferDiv \in Nat \ {0}
  BY BufferDivAssumption DEF Price

\* The largest and smallest price of some candles are prices.
LEMMA ExtremePrices ==
    ASSUME NEW cs \in Seq(Ohlc), Len(cs) > 0
    PROVE  /\ Max({cs[i].high : i \in DOMAIN cs}) \in Price
           /\ Min({cs[i].low : i \in DOMAIN cs}) \in Price
  <1> DEFINE H == {cs[i].high : i \in DOMAIN cs}
             L == {cs[i].low : i \in DOMAIN cs}
             f == [i \in DOMAIN cs |-> cs[i].high]
             g == [i \in DOMAIN cs |-> cs[i].low]
  <1>1. Len(cs) \in Nat /\ DOMAIN cs = 1..Len(cs) /\ \A i \in 1..Len(cs) : cs[i] \in Ohlc
    BY LenProperties, ElementOfSeq
  <1>2. \A i \in DOMAIN cs : cs[i].high \in Price /\ cs[i].low \in Price
    BY <1>1 DEF Ohlc
  <1>3. H \in SUBSET Price /\ L \in SUBSET Price
    BY <1>2
  <1>4. H # {} /\ L # {}
    <2>1. 1 \in DOMAIN cs
      BY <1>1
    <2>2. QED
      BY <2>1
  <1>5. IsFiniteSet(DOMAIN cs)
    BY <1>1, FS_Interval
  <1>6. H = {f[i] : i \in DOMAIN cs} /\ L = {g[i] : i \in DOMAIN cs}
    OBVIOUS
  <1>7. IsFiniteSet(H) /\ IsFiniteSet(L)
    <2>1. DOMAIN f = DOMAIN cs /\ DOMAIN g = DOMAIN cs
      OBVIOUS
    <2> HIDE DEF f, g, H, L
    <2>2. QED
      BY <1>5, <1>6, <2>1, ValuesFinite
  <1> HIDE DEF H, L
  <1>8. H \in SUBSET Int /\ L \in SUBSET Int
    BY <1>3, PriceInt
  <1>9. Max(H) \in H /\ Min(L) \in L
    BY <1>4, <1>7, <1>8, MaxOfFinite, MinOfFinite
  <1>10. QED
    BY <1>3, <1>9 DEF H, L

\* Candles merged into a longer one are a candle.
LEMMA MergeCandle ==
    ASSUME NEW cs \in Seq(Ohlc), Len(cs) > 0
    PROVE  Merge(cs) \in Ohlc /\ Merge(cs).time = cs[1].time
  <1>1. Len(cs) \in Nat /\ \A i \in 1..Len(cs) : cs[i] \in Ohlc
    BY LenProperties, ElementOfSeq
  <1>2. cs[1] \in Ohlc /\ cs[Len(cs)] \in Ohlc
    BY <1>1
  <1>3. PICK h \in Price : h = Max({cs[i].high : i \in DOMAIN cs})
    BY ExtremePrices
  <1>4. PICK l \in Price : l = Min({cs[i].low : i \in DOMAIN cs})
    BY ExtremePrices
  <1>5. Merge(cs) = [time |-> cs[1].time, open |-> cs[1].open, high |-> h, low |-> l,
                     close |-> cs[Len(cs)].close]
    BY <1>3, <1>4 DEF Merge
  <1>6. QED
    BY <1>2, <1>5 DEF Ohlc

\* The candles of an interval open one interval after the other.
LEMMA SeriesProperties ==
    ASSUME IsChart(chart), NEW n \in Nat \ {0}
    PROVE  /\ Series(n) \in Seq(Ohlc)
           /\ \A j \in 1..Len(Series(n)) : Series(n)[j].time = (j - 1) * n
  <1> DEFINE m == Len(chart) \div n
             Part(j) == SubSeq(chart, (j - 1) * n + 1, j * n)
  <1>1. Len(chart) \in Nat /\ DOMAIN chart = 1..Len(chart)
    BY LenProperties DEF IsChart
  <1>2. m \in Nat /\ m * n <= Len(chart)
    BY <1>1
  <1>3. ASSUME NEW j \in 1..m
        PROVE  Merge(Part(j)) \in Ohlc /\ Merge(Part(j)).time = (j - 1) * n
    <2>1. (j - 1) * n \in Nat /\ j * n \in Nat /\ j * n = (j - 1) * n + n
      OBVIOUS
    <2>2. j * n <= m * n
      BY <1>2
    <2>3. PICK a \in Nat : a = (j - 1) * n
      BY <2>1
    <2>4. a + n <= Len(chart) /\ a + 1 \in 1..Len(chart)
      BY <1>1, <1>2, <2>1, <2>2, <2>3
    <2>5. a + n <= Len(chart) /\ Part(j) = SubSeq(chart, a + 1, a + n)
      BY <2>1, <2>3, <2>4
    <2>6. \A i \in (a + 1)..(a + n) : chart[i] \in Ohlc
      <3>1. \A i \in 1..Len(chart) : chart[i] \in Ohlc
        BY ElementOfSeq DEF IsChart
      <3>2. QED
        BY <1>1, <2>5, <3>1
    <2>7. /\ Part(j) \in Seq(Ohlc) /\ Len(Part(j)) = n
          /\ Part(j)[1] = chart[a + 1]
      <3> HIDE DEF Part
      <3>1. /\ SubSeq(chart, a + 1, a + n) \in Seq(Ohlc)
            /\ Len(SubSeq(chart, a + 1, a + n)) = n
            /\ \A i \in 1..n : SubSeq(chart, a + 1, a + n)[i] = chart[a + 1 + i - 1]
        BY <2>6, SubSeqProperties
      <3>2. QED
        BY <2>5, <3>1
    <2>8. Merge(Part(j)) \in Ohlc /\ Merge(Part(j)).time = Part(j)[1].time
      <3> HIDE DEF Part
      <3>1. QED
        BY <2>7, MergeCandle
    <2>9. chart[a + 1].time = a
      <3>1. a + 1 \in DOMAIN chart
        BY <1>1, <2>4, Zenon
      <3>2. QED
        BY <3>1 DEF IsChart
    <2>10. QED
      BY <2>3, <2>7, <2>8, <2>9
  <1>4. Series(n) = [j \in 1..m |-> Merge(Part(j))]
    BY DEF Series
  <1> HIDE DEF m, Part
  <1>5. Series(n) \in [1..m -> Ohlc] /\ \A j \in 1..m : Series(n)[j].time = (j - 1) * n
    BY <1>3, <1>4
  <1>6. Series(n) \in Seq(Ohlc) /\ Len(Series(n)) = m
    BY <1>2, <1>5
  <1>7. QED
    BY <1>5, <1>6

\* The candles of an interval up to a time, or after it.
LEMMA SliceType ==
    ASSUME NEW S, NEW cs \in Seq(S), NEW a \in Nat, NEW b \in 0..Len(cs)
    PROVE  /\ SubSeq(cs, a + 1, b) \in Seq(S)
           /\ Len(SubSeq(cs, a + 1, b)) = IF a <= b THEN b - a ELSE 0
           /\ \A i \in 1..Len(SubSeq(cs, a + 1, b)) : SubSeq(cs, a + 1, b)[i] = cs[a + i]
  <1>1. Len(cs) \in Nat
    BY LenProperties
  <1>2. \A i \in (a + 1)..b : cs[i] \in S
    BY <1>1, ElementOfSeq
  <1>3. /\ SubSeq(cs, a + 1, b) \in Seq(S)
        /\ Len(SubSeq(cs, a + 1, b)) = IF a + 1 <= b THEN b - (a + 1) + 1 ELSE 0
        /\ \A i \in 1..(b - (a + 1) + 1) : SubSeq(cs, a + 1, b)[i] = cs[a + 1 + i - 1]
    BY <1>1, <1>2, SubSeqProperties
  <1>4. QED
    BY <1>1, <1>3

\* A pair as the assumption has it.
PairType == [htf : Nat \ {0}, ltf : Nat \ {0}, lookback : Nat \ {0, 1, 2}]

\* The pairs are a list of such records.
LEMMA PairsTyped == /\ Len(Pairs) \in Nat /\ DOMAIN Pairs = 1..Len(Pairs)
                    /\ \A p \in 1..Len(Pairs) : Pairs[p] \in PairType
  <1>1. Pairs \in Seq(PairType)
    BY BacktestAssumption DEF PairType
  <1>2. QED
    BY <1>1, LenProperties, ElementOfSeq

\* The fields of a pair, and the last closed LTF candle, are numbers.
LEMMA PairFields ==
    ASSUME NEW pair \in PairType
    PROVE  /\ pair.htf \in Nat \ {0} /\ pair.ltf \in Nat \ {0} /\ pair.lookback \in Nat
           /\ \A now \in Int : PairNow(pair, now) \in Int
  BY DEF PairType, PairNow

\* The windows the scan reads are made of candles.
LEMMA UntilType ==
    ASSUME NEW S, NEW cs \in Seq(S), NEW t
    PROVE  /\ Until(cs, t) \in Seq(S) /\ Len(Until(cs, t)) = BisectRight(cs, t)
           /\ \A i \in 1..Len(Until(cs, t)) : Until(cs, t)[i] = cs[i]
  <1>1. BisectRight(cs, t) \in 0..Len(cs)
    BY BisectProperties
  <1>2. PICK b \in 0..Len(cs) : b = BisectRight(cs, t)
    BY <1>1
  <1>3. Len(cs) \in Nat
    BY LenProperties
  <1>4. /\ SubSeq(cs, 0 + 1, b) \in Seq(S)
        /\ Len(SubSeq(cs, 0 + 1, b)) = IF 0 <= b THEN b - 0 ELSE 0
        /\ \A i \in 1..Len(SubSeq(cs, 0 + 1, b)) : SubSeq(cs, 0 + 1, b)[i] = cs[0 + i]
    BY SliceType
  <1>5. Until(cs, t) = SubSeq(cs, 0 + 1, b)
    BY <1>2 DEF Until
  <1>6. PICK u : u = SubSeq(cs, 0 + 1, b)
    OBVIOUS
  <1>7. u \in Seq(S) /\ Len(u) = b /\ \A i \in 1..Len(u) : u[i] = cs[i]
    BY <1>3, <1>4, <1>6
  <1>8. QED
    BY <1>2, <1>5, <1>6, <1>7

\* The HTF window is made of candles.
LEMMA WindowType ==
    ASSUME IsChart(chart), NEW pair \in PairType, NEW now
    PROVE  Visible(pair, now) \in Seq(Ohlc) /\ Window(pair, now) \in Seq(Ohlc)
  <1>1. Series(pair.htf) \in Seq(Ohlc)
    BY PairFields, SeriesProperties
  <1>2. Visible(pair, now) \in Seq(Ohlc)
    BY <1>1, UntilType DEF Visible
  <1>3. PICK seen \in Seq(Ohlc) : seen = Visible(pair, now)
    BY <1>2
  <1>4. Len(seen) \in Nat /\ pair.lookback \in Nat
    BY LenProperties, PairFields
  <1> DEFINE a == Larger(1, Len(seen) - pair.lookback + 1)
  <1>5. a \in Nat \ {0}
    BY <1>4 DEF Larger
  <1>6. Window(pair, now) = SubSeq(seen, a, Len(seen))
    BY <1>3 DEF Window
  <1> HIDE DEF a
  <1>7. \A i \in a..Len(seen) : seen[i] \in Ohlc
    BY <1>4, <1>5, ElementOfSeq
  <1>8. QED
    BY <1>2, <1>4, <1>5, <1>6, <1>7, SubSeqProperties

\* The LTF candles since a break are candles.
LEMMA BetweenType ==
    ASSUME IsChart(chart), NEW pair \in PairType, NEW start, NEW now
    PROVE  Between(pair, start, now) \in Seq(Ohlc)
  <1> DEFINE cs == Series(pair.ltf)
  <1>1. cs \in Seq(Ohlc)
    BY PairFields, SeriesProperties
  <1>2. PICK a \in 0..Len(cs) : a = BisectLeft(cs, start)
    <2> HIDE DEF cs
    <2>1. QED
      BY <1>1, BisectProperties
  <1>3. PICK b \in 0..Len(cs) : b = BisectRight(cs, PairNow(pair, now))
    <2> HIDE DEF cs
    <2>1. QED
      BY <1>1, BisectProperties
  <1>4. Between(pair, start, now) = SubSeq(cs, a + 1, b)
    BY <1>2, <1>3 DEF Between
  <1> HIDE DEF cs
  <1>5. a \in Nat
    BY <1>1, LenProperties
  <1>6. QED
    BY <1>1, <1>4, <1>5, SliceType

\* Candles in the order of their times.
Ordered(cs) ==
    /\ cs \in Seq(Ohlc)
    /\ \A i, j \in 1..Len(cs) : i < j => cs[i].time < cs[j].time

\* The candles a signal is simulated over are in order.
LEMMA FutureOrdered ==
    ASSUME IsChart(chart), NEW pair \in PairType, NEW now
    PROVE  Ordered(Future(pair, now))
  <1> DEFINE cs == Series(pair.ltf)
             n == pair.ltf
  <1>1. n \in Nat \ {0}
    BY PairFields
  <1>2. cs \in Seq(Ohlc) /\ \A j \in 1..Len(cs) : cs[j].time = (j - 1) * n
    BY <1>1, SeriesProperties
  <1>3. PICK b \in 0..Len(cs) : b = BisectRight(cs, PairNow(pair, now))
    <2> HIDE DEF cs
    <2>1. QED
      BY <1>2, BisectProperties
  <1>4. Future(pair, now) = SubSeq(cs, b + 1, Len(cs))
    BY <1>3 DEF Future
  <1> HIDE DEF cs, n
  <1>5. Len(cs) \in Nat /\ b \in Nat
    BY <1>2, LenProperties
  <1>6. PICK f : f = SubSeq(cs, b + 1, Len(cs))
    OBVIOUS
  <1>7. f \in Seq(Ohlc) /\ Len(f) = Len(cs) - b /\ \A i \in 1..Len(f) : f[i] = cs[b + i]
    BY <1>2, <1>5, <1>6, SliceType
  <1>8. ASSUME NEW i \in 1..Len(f), NEW j \in 1..Len(f), i < j
        PROVE  f[i].time < f[j].time
    <2>1. b + i \in 1..Len(cs) /\ b + j \in 1..Len(cs)
      BY <1>5, <1>7
    <2>2. f[i].time = (b + i - 1) * n /\ f[j].time = (b + j - 1) * n
      <3>1. f[i] = cs[b + i] /\ f[j] = cs[b + j]
        BY <1>7
      <3>2. cs[b + i].time = (b + i - 1) * n /\ cs[b + j].time = (b + j - 1) * n
        BY <1>2, <2>1
      <3>3. QED
        BY <3>1, <3>2, Zenon
    <2>3. PICK x \in Nat, y \in Nat : x = b + i - 1 /\ y = b + j - 1
      BY <1>5, <1>7
    <2>4. x * n < y * n
      <3>1. y - x \in Nat \ {0} /\ y = x + (y - x)
        BY <1>5, <1>7, <1>8, <2>3
      <3>2. PICK d \in Nat \ {0} : y = x + d
        BY <3>1
      <3>3. y * n = x * n + d * n /\ d * n > 0
        BY <1>1, <3>2
      <3>4. QED
        BY <1>1, <3>3
    <2>5. QED
      BY <2>2, <2>3, <2>4
  <1>9. QED
    BY <1>4, <1>6, <1>7, <1>8 DEF Ordered

\* Of candles in order, those up to a time are the first ones.
LEMMA UntilOrdered ==
    ASSUME NEW cs, Ordered(cs), NEW t \in Int
    PROVE  /\ Ordered(Until(cs, t)) /\ Len(Until(cs, t)) \in 0..Len(cs)
           /\ \A i \in 1..Len(Until(cs, t)) : Until(cs, t)[i] = cs[i]
           /\ \A i \in 1..Len(cs) : cs[i].time <= t <=> i <= Len(Until(cs, t))
  <1>1. cs \in Seq(Ohlc) /\ Len(cs) \in Nat
    BY LenProperties DEF Ordered
  <1>2. PICK b \in 0..Len(cs) : b = BisectRight(cs, t)
    BY <1>1, BisectProperties
  <1>3. /\ \A i \in 1..Len(cs) : cs[i].time <= t => i <= b
        /\ b > 0 => cs[b].time <= t
    BY <1>1, <1>2, BisectProperties
  <1>4. PICK u : u = Until(cs, t)
    OBVIOUS
  <1>5. u \in Seq(Ohlc) /\ Len(u) = b /\ \A i \in 1..Len(u) : u[i] = cs[i]
    BY <1>1, <1>2, <1>4, UntilType
  <1>6. Ordered(u)
    BY <1>1, <1>5 DEF Ordered
  <1>7. ASSUME NEW i \in 1..Len(cs), i <= b PROVE cs[i].time <= t
    <2>1. b \in 1..Len(cs)
      BY <1>1, <1>7
    <2>2. cs[i].time \in Nat /\ cs[b].time \in Nat
      <3>1. cs[i] \in Ohlc /\ cs[b] \in Ohlc
        BY <1>1, <2>1, ElementOfSeq
      <3>2. QED
        BY <3>1 DEF Ohlc
    <2>3. cs[i].time <= cs[b].time
      BY <1>1, <1>7, <2>1, <2>2 DEF Ordered
    <2>4. QED
      BY <1>3, <2>1, <2>2, <2>3
  <1>8. QED
    BY <1>1, <1>3, <1>4, <1>5, <1>6, <1>7

-----------------------------------------------------------------------------
(***************************************************************************)
(* What the loops compute                                                  *)
(***************************************************************************)

\* The replay of a signal, candle by candle.
LEMMA ReplayEquations ==
    ASSUME NEW signal, NEW future \in Seq(Ohlc), NEW profile
    PROVE  /\ ReplayWalk(signal, future, profile)[0] = NewTrade(signal.created_at)
           /\ \A i \in 1..Len(future) : ReplayWalk(signal, future, profile)[i] = IF IsOpen(ReplayWalk(signal, future, profile)[i - 1])
                 THEN StepSignalState(ReplayWalk(signal, future, profile)[i - 1], Seen(signal, future[i]), profile.be, future[i].time)
                 ELSE ReplayWalk(signal, future, profile)[i - 1]
  <1> DEFINE n == Len(future)
             A == NewTrade(signal.created_at)
             Step(i, v) == IF IsOpen(v)
                 THEN StepSignalState(v, Seen(signal, future[i]), profile.be, future[i].time)
                 ELSE v
             Runs(m, f) == f[0] = A /\ \A i \in 1..m : f[i] = Step(i, f[i - 1])
             G == {m \in 0..n : \E f : Runs(m, f)}
             Walks(f) == [i \in 0..n |-> IF i = 0 THEN A ELSE Step(i, f[i - 1])]
             F == CHOOSE f : f = Walks(f)
  <1>1. n \in Nat
    BY LenProperties
  <1>2. ReplayWalk(signal, future, profile) = F
    BY DEF ReplayWalk
  <1>3. SUFFICES F[0] = A /\ \A i \in 1..n : F[i] = Step(i, F[i - 1])
    <2> HIDE DEF F
    <2>1. QED
      BY <1>2, Zenon
  <1> HIDE DEF n, A, Step
  <1>4. 0 \in G
    <2> DEFINE f == [i \in 0..n |-> A]
    <2>1. Runs(0, f)
      BY <1>1
    <2> HIDE DEF f
    <2>2. \E h : Runs(0, h)
      BY <2>1
    <2>3. QED
      BY <1>1, <2>2
  <1>5. ASSUME NEW m \in 1..n, m - 1 \in G
        PROVE  m \in G
    <2>1. PICK f : Runs(m - 1, f)
      BY <1>5
    <2> DEFINE g == [i \in 0..n |-> IF i = m THEN Step(m, f[m - 1]) ELSE f[i]]
    <2>2. g[0] = A
      BY <1>1, <2>1
    <2>3. ASSUME NEW i \in 1..m PROVE g[i] = Step(i, g[i - 1])
      <3>1. i \in 0..n /\ i - 1 \in 0..n /\ i - 1 # m
        BY <1>1
      <3>2. g[i - 1] = f[i - 1]
        BY <3>1
      <3>3. CASE i = m
        BY <3>1, <3>2, <3>3
      <3>4. CASE i # m
        <4>1. g[i] = f[i] /\ i \in 1..(m - 1)
          BY <1>1, <3>1, <3>4
        <4>2. f[i] = Step(i, f[i - 1])
          BY <2>1, <4>1
        <4>3. QED
          BY <3>2, <4>1, <4>2
      <3>5. QED
        BY <3>3, <3>4
    <2>4. Runs(m, g)
      BY <2>2, <2>3
    <2> HIDE DEF g
    <2>5. \E h : Runs(m, h)
      BY <2>4
    <2>6. m \in 0..n
      BY <1>1
    <2>7. QED
      BY <2>5, <2>6, Zenon
  <1>6. n \in G
    <2> HIDE DEF G
    <2>1. 0..n \subseteq G
      BY <1>1, <1>4, <1>5, IntervalInduction
    <2>2. QED
      BY <1>1, <2>1
  <1>7. PICK f : Runs(n, f)
    BY <1>6
  <1> DEFINE h == [i \in 0..n |-> f[i]]
  <1>8. ASSUME NEW i \in 0..n
        PROVE  h[i] = IF i = 0 THEN A ELSE Step(i, h[i - 1])
    <2>1. CASE i = 0
      BY <1>7, <2>1
    <2>2. CASE i # 0
      <3>1. i \in 1..n /\ i - 1 \in 0..n
        BY <1>1, <2>2
      <3>2. h[i] = f[i] /\ h[i - 1] = f[i - 1]
        BY <3>1
      <3>3. f[i] = Step(i, f[i - 1])
        BY <1>7, <3>1
      <3>4. QED
        BY <2>2, <3>2, <3>3
    <2>3. QED
      BY <2>1, <2>2
  <1>9. h = Walks(h)
    <2>1. h = [i \in 0..n |-> h[i]]
      OBVIOUS
    <2> HIDE DEF h
    <2>2. QED
      BY <1>8, <2>1, Zenon
  <1>10. F = Walks(F)
    <2> HIDE DEF h, Walks
    <2>1. \E f2 : f2 = Walks(f2)
      BY <1>9
    <2>2. QED
      BY <2>1, Zenon
  <1> HIDE DEF F
  <1>11. \A i \in 0..n : F[i] = IF i = 0 THEN A ELSE Step(i, F[i - 1])
    <2>1. \A i \in 0..n : Walks(F)[i] = IF i = 0 THEN A ELSE Step(i, F[i - 1])
      BY Zenon
    <2>2. QED
      BY <1>10, <2>1, Zenon
  <1>12. 0 \in 0..n /\ \A i \in 1..n : i \in 0..n /\ i # 0
    BY <1>1
  <1>13. QED
    BY <1>11, <1>12, Zenon

\* The trail of a signal, candle by candle.
LEMMA TrailEquations ==
    ASSUME NEW signal, NEW future \in Seq(Ohlc), NEW giveback, NEW profile
    PROVE  /\ TrailWalk(signal, future, giveback, profile)[0] = NewTrail(signal)
           /\ \A i \in 1..Len(future) : TrailWalk(signal, future, giveback, profile)[i] = IF TrailWalk(signal, future, giveback, profile)[i - 1].result = NeverClosed
                 THEN TrailStep(TrailWalk(signal, future, giveback, profile)[i - 1], signal, future[i], giveback, profile)
                 ELSE TrailWalk(signal, future, giveback, profile)[i - 1]
  <1> DEFINE n == Len(future)
             A == NewTrail(signal)
             Step(i, v) == IF v.result = NeverClosed
                 THEN TrailStep(v, signal, future[i], giveback, profile)
                 ELSE v
             Runs(m, f) == f[0] = A /\ \A i \in 1..m : f[i] = Step(i, f[i - 1])
             G == {m \in 0..n : \E f : Runs(m, f)}
             Walks(f) == [i \in 0..n |-> IF i = 0 THEN A ELSE Step(i, f[i - 1])]
             F == CHOOSE f : f = Walks(f)
  <1>1. n \in Nat
    BY LenProperties
  <1>2. TrailWalk(signal, future, giveback, profile) = F
    BY DEF TrailWalk
  <1>3. SUFFICES F[0] = A /\ \A i \in 1..n : F[i] = Step(i, F[i - 1])
    <2> HIDE DEF F
    <2>1. QED
      BY <1>2, Zenon
  <1> HIDE DEF n, A, Step
  <1>4. 0 \in G
    <2> DEFINE f == [i \in 0..n |-> A]
    <2>1. Runs(0, f)
      BY <1>1
    <2> HIDE DEF f
    <2>2. \E h : Runs(0, h)
      BY <2>1
    <2>3. QED
      BY <1>1, <2>2
  <1>5. ASSUME NEW m \in 1..n, m - 1 \in G
        PROVE  m \in G
    <2>1. PICK f : Runs(m - 1, f)
      BY <1>5
    <2> DEFINE g == [i \in 0..n |-> IF i = m THEN Step(m, f[m - 1]) ELSE f[i]]
    <2>2. g[0] = A
      BY <1>1, <2>1
    <2>3. ASSUME NEW i \in 1..m PROVE g[i] = Step(i, g[i - 1])
      <3>1. i \in 0..n /\ i - 1 \in 0..n /\ i - 1 # m
        BY <1>1
      <3>2. g[i - 1] = f[i - 1]
        BY <3>1
      <3>3. CASE i = m
        BY <3>1, <3>2, <3>3
      <3>4. CASE i # m
        <4>1. g[i] = f[i] /\ i \in 1..(m - 1)
          BY <1>1, <3>1, <3>4
        <4>2. f[i] = Step(i, f[i - 1])
          BY <2>1, <4>1
        <4>3. QED
          BY <3>2, <4>1, <4>2
      <3>5. QED
        BY <3>3, <3>4
    <2>4. Runs(m, g)
      BY <2>2, <2>3
    <2> HIDE DEF g
    <2>5. \E h : Runs(m, h)
      BY <2>4
    <2>6. m \in 0..n
      BY <1>1
    <2>7. QED
      BY <2>5, <2>6, Zenon
  <1>6. n \in G
    <2> HIDE DEF G
    <2>1. 0..n \subseteq G
      BY <1>1, <1>4, <1>5, IntervalInduction
    <2>2. QED
      BY <1>1, <2>1
  <1>7. PICK f : Runs(n, f)
    BY <1>6
  <1> DEFINE h == [i \in 0..n |-> f[i]]
  <1>8. ASSUME NEW i \in 0..n
        PROVE  h[i] = IF i = 0 THEN A ELSE Step(i, h[i - 1])
    <2>1. CASE i = 0
      BY <1>7, <2>1
    <2>2. CASE i # 0
      <3>1. i \in 1..n /\ i - 1 \in 0..n
        BY <1>1, <2>2
      <3>2. h[i] = f[i] /\ h[i - 1] = f[i - 1]
        BY <3>1
      <3>3. f[i] = Step(i, f[i - 1])
        BY <1>7, <3>1
      <3>4. QED
        BY <2>2, <3>2, <3>3
    <2>3. QED
      BY <2>1, <2>2
  <1>9. h = Walks(h)
    <2>1. h = [i \in 0..n |-> h[i]]
      OBVIOUS
    <2> HIDE DEF h
    <2>2. QED
      BY <1>8, <2>1, Zenon
  <1>10. F = Walks(F)
    <2> HIDE DEF h, Walks
    <2>1. \E f2 : f2 = Walks(f2)
      BY <1>9
    <2>2. QED
      BY <2>1, Zenon
  <1> HIDE DEF F
  <1>11. \A i \in 0..n : F[i] = IF i = 0 THEN A ELSE Step(i, F[i - 1])
    <2>1. \A i \in 0..n : Walks(F)[i] = IF i = 0 THEN A ELSE Step(i, F[i - 1])
      BY Zenon
    <2>2. QED
      BY <1>10, <2>1, Zenon
  <1>12. 0 \in 0..n /\ \A i \in 1..n : i \in 0..n /\ i # 0
    BY <1>1
  <1>13. QED
    BY <1>11, <1>12, Zenon

\* The breaks of structure, candle by candle.
LEMMA BosEquations ==
    ASSUME NEW cs \in Seq(Ohlc), NEW highs, NEW lows
    PROVE  /\ BosWalk(cs, highs, lows)[0] = NoPivots
           /\ \A i \in 1..Len(cs) : BosWalk(cs, highs, lows)[i] = WalkCandle(cs, highs, lows, i, BosWalk(cs, highs, lows)[i - 1])
  <1> DEFINE n == Len(cs)
             A == NoPivots
             Step(i, v) == WalkCandle(cs, highs, lows, i, v)
             Runs(m, f) == f[0] = A /\ \A i \in 1..m : f[i] = Step(i, f[i - 1])
             G == {m \in 0..n : \E f : Runs(m, f)}
             Walks(f) == [i \in 0..n |-> IF i = 0 THEN A ELSE Step(i, f[i - 1])]
             F == CHOOSE f : f = Walks(f)
  <1>1. n \in Nat
    BY LenProperties
  <1>2. BosWalk(cs, highs, lows) = F
    BY DEF BosWalk
  <1>3. SUFFICES F[0] = A /\ \A i \in 1..n : F[i] = Step(i, F[i - 1])
    <2> HIDE DEF F
    <2>1. QED
      BY <1>2, Zenon
  <1> HIDE DEF n, A, Step
  <1>4. 0 \in G
    <2> DEFINE f == [i \in 0..n |-> A]
    <2>1. Runs(0, f)
      BY <1>1
    <2> HIDE DEF f
    <2>2. \E h : Runs(0, h)
      BY <2>1
    <2>3. QED
      BY <1>1, <2>2
  <1>5. ASSUME NEW m \in 1..n, m - 1 \in G
        PROVE  m \in G
    <2>1. PICK f : Runs(m - 1, f)
      BY <1>5
    <2> DEFINE g == [i \in 0..n |-> IF i = m THEN Step(m, f[m - 1]) ELSE f[i]]
    <2>2. g[0] = A
      BY <1>1, <2>1
    <2>3. ASSUME NEW i \in 1..m PROVE g[i] = Step(i, g[i - 1])
      <3>1. i \in 0..n /\ i - 1 \in 0..n /\ i - 1 # m
        BY <1>1
      <3>2. g[i - 1] = f[i - 1]
        BY <3>1
      <3>3. CASE i = m
        BY <3>1, <3>2, <3>3
      <3>4. CASE i # m
        <4>1. g[i] = f[i] /\ i \in 1..(m - 1)
          BY <1>1, <3>1, <3>4
        <4>2. f[i] = Step(i, f[i - 1])
          BY <2>1, <4>1
        <4>3. QED
          BY <3>2, <4>1, <4>2
      <3>5. QED
        BY <3>3, <3>4
    <2>4. Runs(m, g)
      BY <2>2, <2>3
    <2> HIDE DEF g
    <2>5. \E h : Runs(m, h)
      BY <2>4
    <2>6. m \in 0..n
      BY <1>1
    <2>7. QED
      BY <2>5, <2>6, Zenon
  <1>6. n \in G
    <2> HIDE DEF G
    <2>1. 0..n \subseteq G
      BY <1>1, <1>4, <1>5, IntervalInduction
    <2>2. QED
      BY <1>1, <2>1
  <1>7. PICK f : Runs(n, f)
    BY <1>6
  <1> DEFINE h == [i \in 0..n |-> f[i]]
  <1>8. ASSUME NEW i \in 0..n
        PROVE  h[i] = IF i = 0 THEN A ELSE Step(i, h[i - 1])
    <2>1. CASE i = 0
      BY <1>7, <2>1
    <2>2. CASE i # 0
      <3>1. i \in 1..n /\ i - 1 \in 0..n
        BY <1>1, <2>2
      <3>2. h[i] = f[i] /\ h[i - 1] = f[i - 1]
        BY <3>1
      <3>3. f[i] = Step(i, f[i - 1])
        BY <1>7, <3>1
      <3>4. QED
        BY <2>2, <3>2, <3>3
    <2>3. QED
      BY <2>1, <2>2
  <1>9. h = Walks(h)
    <2>1. h = [i \in 0..n |-> h[i]]
      OBVIOUS
    <2> HIDE DEF h
    <2>2. QED
      BY <1>8, <2>1, Zenon
  <1>10. F = Walks(F)
    <2> HIDE DEF h, Walks
    <2>1. \E f2 : f2 = Walks(f2)
      BY <1>9
    <2>2. QED
      BY <2>1, Zenon
  <1> HIDE DEF F
  <1>11. \A i \in 0..n : F[i] = IF i = 0 THEN A ELSE Step(i, F[i - 1])
    <2>1. \A i \in 0..n : Walks(F)[i] = IF i = 0 THEN A ELSE Step(i, F[i - 1])
      BY Zenon
    <2>2. QED
      BY <1>10, <2>1, Zenon
  <1>12. 0 \in 0..n /\ \A i \in 1..n : i \in 0..n /\ i # 0
    BY <1>1
  <1>13. QED
    BY <1>11, <1>12, Zenon

\* The account, trade by trade.
LEMMA AccountEquations ==
    ASSUME NEW rrs \in Seq(Int), NEW acct
    PROVE  /\ AccountWalk(rrs, acct)[0] = NewAccount
           /\ \A i \in 1..Len(rrs) : AccountWalk(rrs, acct)[i] = AccountTrade(AccountWalk(rrs, acct)[i - 1], rrs[i], acct)
  <1> DEFINE n == Len(rrs)
             A == NewAccount
             Step(i, v) == AccountTrade(v, rrs[i], acct)
             Runs(m, f) == f[0] = A /\ \A i \in 1..m : f[i] = Step(i, f[i - 1])
             G == {m \in 0..n : \E f : Runs(m, f)}
             Walks(f) == [i \in 0..n |-> IF i = 0 THEN A ELSE Step(i, f[i - 1])]
             F == CHOOSE f : f = Walks(f)
  <1>1. n \in Nat
    BY LenProperties
  <1>2. AccountWalk(rrs, acct) = F
    BY DEF AccountWalk
  <1>3. SUFFICES F[0] = A /\ \A i \in 1..n : F[i] = Step(i, F[i - 1])
    <2> HIDE DEF F
    <2>1. QED
      BY <1>2, Zenon
  <1> HIDE DEF n, A, Step
  <1>4. 0 \in G
    <2> DEFINE f == [i \in 0..n |-> A]
    <2>1. Runs(0, f)
      BY <1>1
    <2> HIDE DEF f
    <2>2. \E h : Runs(0, h)
      BY <2>1
    <2>3. QED
      BY <1>1, <2>2
  <1>5. ASSUME NEW m \in 1..n, m - 1 \in G
        PROVE  m \in G
    <2>1. PICK f : Runs(m - 1, f)
      BY <1>5
    <2> DEFINE g == [i \in 0..n |-> IF i = m THEN Step(m, f[m - 1]) ELSE f[i]]
    <2>2. g[0] = A
      BY <1>1, <2>1
    <2>3. ASSUME NEW i \in 1..m PROVE g[i] = Step(i, g[i - 1])
      <3>1. i \in 0..n /\ i - 1 \in 0..n /\ i - 1 # m
        BY <1>1
      <3>2. g[i - 1] = f[i - 1]
        BY <3>1
      <3>3. CASE i = m
        BY <3>1, <3>2, <3>3
      <3>4. CASE i # m
        <4>1. g[i] = f[i] /\ i \in 1..(m - 1)
          BY <1>1, <3>1, <3>4
        <4>2. f[i] = Step(i, f[i - 1])
          BY <2>1, <4>1
        <4>3. QED
          BY <3>2, <4>1, <4>2
      <3>5. QED
        BY <3>3, <3>4
    <2>4. Runs(m, g)
      BY <2>2, <2>3
    <2> HIDE DEF g
    <2>5. \E h : Runs(m, h)
      BY <2>4
    <2>6. m \in 0..n
      BY <1>1
    <2>7. QED
      BY <2>5, <2>6, Zenon
  <1>6. n \in G
    <2> HIDE DEF G
    <2>1. 0..n \subseteq G
      BY <1>1, <1>4, <1>5, IntervalInduction
    <2>2. QED
      BY <1>1, <2>1
  <1>7. PICK f : Runs(n, f)
    BY <1>6
  <1> DEFINE h == [i \in 0..n |-> f[i]]
  <1>8. ASSUME NEW i \in 0..n
        PROVE  h[i] = IF i = 0 THEN A ELSE Step(i, h[i - 1])
    <2>1. CASE i = 0
      BY <1>7, <2>1
    <2>2. CASE i # 0
      <3>1. i \in 1..n /\ i - 1 \in 0..n
        BY <1>1, <2>2
      <3>2. h[i] = f[i] /\ h[i - 1] = f[i - 1]
        BY <3>1
      <3>3. f[i] = Step(i, f[i - 1])
        BY <1>7, <3>1
      <3>4. QED
        BY <2>2, <3>2, <3>3
    <2>3. QED
      BY <2>1, <2>2
  <1>9. h = Walks(h)
    <2>1. h = [i \in 0..n |-> h[i]]
      OBVIOUS
    <2> HIDE DEF h
    <2>2. QED
      BY <1>8, <2>1, Zenon
  <1>10. F = Walks(F)
    <2> HIDE DEF h, Walks
    <2>1. \E f2 : f2 = Walks(f2)
      BY <1>9
    <2>2. QED
      BY <2>1, Zenon
  <1> HIDE DEF F
  <1>11. \A i \in 0..n : F[i] = IF i = 0 THEN A ELSE Step(i, F[i - 1])
    <2>1. \A i \in 0..n : Walks(F)[i] = IF i = 0 THEN A ELSE Step(i, F[i - 1])
      BY Zenon
    <2>2. QED
      BY <1>10, <2>1, Zenon
  <1>12. 0 \in 0..n /\ \A i \in 1..n : i \in 0..n /\ i # 0
    BY <1>1
  <1>13. QED
    BY <1>11, <1>12, Zenon

\* The pairs of one step of the scan.
LEMMA PairsEquations ==
    ASSUME NEW s, NEW now
    PROVE  /\ ScanPairs(s, now)[0] = s
           /\ \A i \in 1..Len(Pairs) : ScanPairs(s, now)[i] = ScanPair(ScanPairs(s, now)[i - 1], i, now)
  <1> DEFINE n == Len(Pairs)
             A == s
             Step(i, v) == ScanPair(v, i, now)
             Runs(m, f) == f[0] = A /\ \A i \in 1..m : f[i] = Step(i, f[i - 1])
             G == {m \in 0..n : \E f : Runs(m, f)}
             Walks(f) == [i \in 0..n |-> IF i = 0 THEN A ELSE Step(i, f[i - 1])]
             F == CHOOSE f : f = Walks(f)
  <1>1. n \in Nat
    BY PairsTyped
  <1>2. ScanPairs(s, now) = F
    BY DEF ScanPairs
  <1>3. SUFFICES F[0] = A /\ \A i \in 1..n : F[i] = Step(i, F[i - 1])
    <2> HIDE DEF F
    <2>1. QED
      BY <1>2, Zenon
  <1> HIDE DEF n, A, Step
  <1>4. 0 \in G
    <2> DEFINE f == [i \in 0..n |-> A]
    <2>1. Runs(0, f)
      BY <1>1
    <2> HIDE DEF f
    <2>2. \E h : Runs(0, h)
      BY <2>1
    <2>3. QED
      BY <1>1, <2>2
  <1>5. ASSUME NEW m \in 1..n, m - 1 \in G
        PROVE  m \in G
    <2>1. PICK f : Runs(m - 1, f)
      BY <1>5
    <2> DEFINE g == [i \in 0..n |-> IF i = m THEN Step(m, f[m - 1]) ELSE f[i]]
    <2>2. g[0] = A
      BY <1>1, <2>1
    <2>3. ASSUME NEW i \in 1..m PROVE g[i] = Step(i, g[i - 1])
      <3>1. i \in 0..n /\ i - 1 \in 0..n /\ i - 1 # m
        BY <1>1
      <3>2. g[i - 1] = f[i - 1]
        BY <3>1
      <3>3. CASE i = m
        BY <3>1, <3>2, <3>3
      <3>4. CASE i # m
        <4>1. g[i] = f[i] /\ i \in 1..(m - 1)
          BY <1>1, <3>1, <3>4
        <4>2. f[i] = Step(i, f[i - 1])
          BY <2>1, <4>1
        <4>3. QED
          BY <3>2, <4>1, <4>2
      <3>5. QED
        BY <3>3, <3>4
    <2>4. Runs(m, g)
      BY <2>2, <2>3
    <2> HIDE DEF g
    <2>5. \E h : Runs(m, h)
      BY <2>4
    <2>6. m \in 0..n
      BY <1>1
    <2>7. QED
      BY <2>5, <2>6, Zenon
  <1>6. n \in G
    <2> HIDE DEF G
    <2>1. 0..n \subseteq G
      BY <1>1, <1>4, <1>5, IntervalInduction
    <2>2. QED
      BY <1>1, <2>1
  <1>7. PICK f : Runs(n, f)
    BY <1>6
  <1> DEFINE h == [i \in 0..n |-> f[i]]
  <1>8. ASSUME NEW i \in 0..n
        PROVE  h[i] = IF i = 0 THEN A ELSE Step(i, h[i - 1])
    <2>1. CASE i = 0
      BY <1>7, <2>1
    <2>2. CASE i # 0
      <3>1. i \in 1..n /\ i - 1 \in 0..n
        BY <1>1, <2>2
      <3>2. h[i] = f[i] /\ h[i - 1] = f[i - 1]
        BY <3>1
      <3>3. f[i] = Step(i, f[i - 1])
        BY <1>7, <3>1
      <3>4. QED
        BY <2>2, <3>2, <3>3
    <2>3. QED
      BY <2>1, <2>2
  <1>9. h = Walks(h)
    <2>1. h = [i \in 0..n |-> h[i]]
      OBVIOUS
    <2> HIDE DEF h
    <2>2. QED
      BY <1>8, <2>1, Zenon
  <1>10. F = Walks(F)
    <2> HIDE DEF h, Walks
    <2>1. \E f2 : f2 = Walks(f2)
      BY <1>9
    <2>2. QED
      BY <2>1, Zenon
  <1> HIDE DEF F
  <1>11. \A i \in 0..n : F[i] = IF i = 0 THEN A ELSE Step(i, F[i - 1])
    <2>1. \A i \in 0..n : Walks(F)[i] = IF i = 0 THEN A ELSE Step(i, F[i - 1])
      BY Zenon
    <2>2. QED
      BY <1>10, <2>1, Zenon
  <1>12. 0 \in 0..n /\ \A i \in 1..n : i \in 0..n /\ i # 0
    BY <1>1
  <1>13. QED
    BY <1>11, <1>12, Zenon

\* The zones of one pair.
\* The zones of a pair, each scanned or filtered out.
ZonesRun(F, s, p, zones, bias, now) ==
    /\ F[0] = [scan |-> s, fired |-> FALSE]
    /\ \A i \in 1..Len(zones) :
         F[i] = ScanZone(F[i - 1], p, zones[i], bias, now) \/ F[i] = F[i - 1]

\* The zones of a pair are scanned one after the other.
LEMMA ZonesRuns ==
    ASSUME NEW s, NEW p, NEW Z, NEW zones \in Seq(Z), NEW bias, NEW now
    PROVE  ZonesRun(ScanZones(s, p, zones, bias, now), s, p, zones, bias, now)
  <1> DEFINE n == Len(zones)
             A == [scan |-> s, fired |-> FALSE]
             Step(i, v) == IF cfg.displacement > 0 =>
                    Displaced(Visible(Pairs[p], now), zones[i].broken_at, cfg.atr_period, cfg.displacement, 1000)
                 THEN ScanZone(v, p, zones[i], bias, now)
                 ELSE v
             Runs(m, f) == f[0] = A /\ \A i \in 1..m : f[i] = Step(i, f[i - 1])
             G == {m \in 0..n : \E f : Runs(m, f)}
             Walks(f) == [i \in 0..n |-> IF i = 0 THEN A ELSE Step(i, f[i - 1])]
             F == CHOOSE f : f = Walks(f)
  <1>1. n \in Nat
    BY LenProperties
  <1>2. ScanZones(s, p, zones, bias, now) = F
    BY DEF ScanZones
  <1>3. SUFFICES F[0] = A /\ \A i \in 1..n : F[i] = Step(i, F[i - 1])
    <2> HIDE DEF F
    <2>1. ASSUME F[0] = A, \A i \in 1..n : F[i] = Step(i, F[i - 1])
          PROVE  ZonesRun(F, s, p, zones, bias, now)
      <3>1. \A i \in 1..n : F[i] = ScanZone(F[i - 1], p, zones[i], bias, now) \/ F[i] = F[i - 1]
        BY <2>1, Zenon
      <3>2. QED
        BY <2>1, <3>1, Zenon DEF ZonesRun
    <2>2. QED
      BY <1>2, <2>1, Zenon
  <1> HIDE DEF n, A, Step
  <1>4. 0 \in G
    <2> DEFINE f == [i \in 0..n |-> A]
    <2>1. Runs(0, f)
      BY <1>1
    <2> HIDE DEF f
    <2>2. \E h : Runs(0, h)
      BY <2>1
    <2>3. QED
      BY <1>1, <2>2
  <1>5. ASSUME NEW m \in 1..n, m - 1 \in G
        PROVE  m \in G
    <2>1. PICK f : Runs(m - 1, f)
      BY <1>5
    <2> DEFINE g == [i \in 0..n |-> IF i = m THEN Step(m, f[m - 1]) ELSE f[i]]
    <2>2. g[0] = A
      BY <1>1, <2>1
    <2>3. ASSUME NEW i \in 1..m PROVE g[i] = Step(i, g[i - 1])
      <3>1. i \in 0..n /\ i - 1 \in 0..n /\ i - 1 # m
        BY <1>1
      <3>2. g[i - 1] = f[i - 1]
        BY <3>1
      <3>3. CASE i = m
        BY <3>1, <3>2, <3>3
      <3>4. CASE i # m
        <4>1. g[i] = f[i] /\ i \in 1..(m - 1)
          BY <1>1, <3>1, <3>4
        <4>2. f[i] = Step(i, f[i - 1])
          BY <2>1, <4>1
        <4>3. QED
          BY <3>2, <4>1, <4>2
      <3>5. QED
        BY <3>3, <3>4
    <2>4. Runs(m, g)
      BY <2>2, <2>3
    <2> HIDE DEF g
    <2>5. \E h : Runs(m, h)
      BY <2>4
    <2>6. m \in 0..n
      BY <1>1
    <2>7. QED
      BY <2>5, <2>6, Zenon
  <1>6. n \in G
    <2> HIDE DEF G
    <2>1. 0..n \subseteq G
      BY <1>1, <1>4, <1>5, IntervalInduction
    <2>2. QED
      BY <1>1, <2>1
  <1>7. PICK f : Runs(n, f)
    BY <1>6
  <1> DEFINE h == [i \in 0..n |-> f[i]]
  <1>8. ASSUME NEW i \in 0..n
        PROVE  h[i] = IF i = 0 THEN A ELSE Step(i, h[i - 1])
    <2>1. CASE i = 0
      BY <1>7, <2>1
    <2>2. CASE i # 0
      <3>1. i \in 1..n /\ i - 1 \in 0..n
        BY <1>1, <2>2
      <3>2. h[i] = f[i] /\ h[i - 1] = f[i - 1]
        BY <3>1
      <3>3. f[i] = Step(i, f[i - 1])
        BY <1>7, <3>1
      <3>4. QED
        BY <2>2, <3>2, <3>3
    <2>3. QED
      BY <2>1, <2>2
  <1>9. h = Walks(h)
    <2>1. h = [i \in 0..n |-> h[i]]
      OBVIOUS
    <2> HIDE DEF h
    <2>2. QED
      BY <1>8, <2>1, Zenon
  <1>10. F = Walks(F)
    <2> HIDE DEF h, Walks
    <2>1. \E f2 : f2 = Walks(f2)
      BY <1>9
    <2>2. QED
      BY <2>1, Zenon
  <1> HIDE DEF F
  <1>11. \A i \in 0..n : F[i] = IF i = 0 THEN A ELSE Step(i, F[i - 1])
    <2>1. \A i \in 0..n : Walks(F)[i] = IF i = 0 THEN A ELSE Step(i, F[i - 1])
      BY Zenon
    <2>2. QED
      BY <1>10, <2>1, Zenon
  <1>12. 0 \in 0..n /\ \A i \in 1..n : i \in 0..n /\ i # 0
    BY <1>1
  <1>13. QED
    BY <1>11, <1>12, Zenon

-----------------------------------------------------------------------------
(***************************************************************************)
(* Breaks of structure and zones                                           *)
(***************************************************************************)

EventType == [at : Nat, direction : BosDirection, level : Price, swing : Ohlc]

BosState(cs) == [high : 0..Len(cs), low : 0..Len(cs), events : Seq(EventType)]

\* A candle of the walk keeps pivots inside the chart and well-formed events.
LEMMA BosStepTyped ==
    ASSUME NEW cs \in Seq(Ohlc), NEW highs, NEW lows, highs \subseteq DOMAIN cs,
           lows \subseteq DOMAIN cs, NEW i \in 1..Len(cs), NEW v \in BosState(cs)
    PROVE  WalkCandle(cs, highs, lows, i, v) \in BosState(cs)
  <1>1. /\ Len(cs) \in Nat /\ DOMAIN cs = 1..Len(cs)
        /\ \A j \in 1..Len(cs) : cs[j] \in Ohlc
    BY LenProperties, ElementOfSeq
  <1>2. v.high \in 0..Len(cs) /\ v.low \in 0..Len(cs) /\ v.events \in Seq(EventType)
    BY DEF BosState
  <1>3. PICK high \in 0..Len(cs) : high = IF i \in highs THEN i ELSE v.high
    BY <1>1, <1>2
  <1>4. PICK low \in 0..Len(cs) : low = IF i \in lows THEN i ELSE v.low
    BY <1>1, <1>2
  <1> DEFINE known == high # 0 /\ low # 0
             bullish == known /\ i > high /\ cs[i].close > cs[high].high
             bearish == known /\ i > low /\ cs[i].close < cs[low].low
             up == Append(v.events, Event(cs, i, "BULLISH", cs[high].high, cs[low]))
             down == Append(v.events, Event(cs, i, "BEARISH", cs[low].low, cs[high]))
  <1>5. WalkCandle(cs, highs, lows, i, v) =
          CASE bullish -> [NoPivots EXCEPT !.events = up]
            [] bearish /\ ~bullish -> [NoPivots EXCEPT !.events = down]
            [] OTHER -> [high |-> high, low |-> low, events |-> v.events]
    BY <1>3, <1>4 DEF WalkCandle
  <1>6. ASSUME known PROVE up \in Seq(EventType) /\ down \in Seq(EventType)
    <2>1. cs[i] \in Ohlc /\ cs[high] \in Ohlc /\ cs[low] \in Ohlc
      BY <1>1, <1>6
    <2>2. /\ cs[i].time \in Nat /\ cs[high].high \in Price /\ cs[low].low \in Price
      BY <2>1 DEF Ohlc
    <2>3. /\ Event(cs, i, "BULLISH", cs[high].high, cs[low]) \in EventType
          /\ Event(cs, i, "BEARISH", cs[low].low, cs[high]) \in EventType
      BY <2>1, <2>2 DEF Event, EventType, BosDirection
    <2>4. QED
      BY <1>2, <2>3, AppendProperties
  <1>7. NoPivots = [high |-> 0, low |-> 0, events |-> <<>>]
    BY DEF NoPivots
  <1> HIDE DEF up, down
  <1>8. /\ [NoPivots EXCEPT !.events = up] = [high |-> 0, low |-> 0, events |-> up]
        /\ [NoPivots EXCEPT !.events = down] = [high |-> 0, low |-> 0, events |-> down]
    BY <1>7
  <1>9. CASE bullish
    BY <1>1, <1>5, <1>6, <1>8, <1>9 DEF BosState
  <1>10. CASE bearish /\ ~bullish
    BY <1>1, <1>5, <1>6, <1>8, <1>10 DEF BosState
  <1>11. CASE ~bearish /\ ~bullish
    BY <1>2, <1>5, <1>11 DEF BosState
  <1>12. QED
    BY <1>9, <1>10, <1>11

\* So does the whole walk.
LEMMA BosWalkTyped ==
    ASSUME NEW cs \in Seq(Ohlc), NEW highs, NEW lows, highs \subseteq DOMAIN cs,
           lows \subseteq DOMAIN cs
    PROVE  \A i \in 0..Len(cs) : BosWalk(cs, highs, lows)[i] \in BosState(cs)
  <1> DEFINE f == BosWalk(cs, highs, lows)
             S == {i \in 0..Len(cs) : f[i] \in BosState(cs)}
  <1>1. Len(cs) \in Nat
    BY LenProperties
  <1>2. f[0] = NoPivots /\ \A i \in 1..Len(cs) : f[i] = WalkCandle(cs, highs, lows, i, f[i - 1])
    BY BosEquations
  <1> HIDE DEF f
  <1>3. 0 \in S
    <2>1. <<>> \in Seq(EventType) /\ 0 \in 0..Len(cs)
      BY <1>1, EmptySeq
    <2>2. NoPivots \in BosState(cs)
      BY <2>1 DEF BosState, NoPivots
    <2>3. QED
      BY <1>2, <2>1, <2>2
  <1>4. ASSUME NEW i \in 1..Len(cs), i - 1 \in S PROVE i \in S
    <2>1. f[i] \in BosState(cs)
      BY <1>2, <1>4, BosStepTyped
    <2>2. QED
      BY <1>1, <2>1
  <1>5. 0..Len(cs) \subseteq S
    <2> HIDE DEF S
    <2>1. QED
      BY <1>1, <1>3, <1>4, IntervalInduction
  <1>6. QED
    BY <1>5 DEF f

\* What detect_bos_events returns is a list of events.
LEMMA EventsTyped ==
    ASSUME NEW cs \in Seq(Ohlc), NEW pivot
    PROVE  DetectBosEvents(cs, pivot) \in Seq(EventType)
  <1>1. PivotHighs(cs, pivot) \subseteq DOMAIN cs /\ PivotLows(cs, pivot) \subseteq DOMAIN cs
    BY DEF PivotHighs, PivotLows, Inner
  <1>2. Len(cs) \in Nat
    BY LenProperties
  <1>3. BosWalk(cs, PivotHighs(cs, pivot), PivotLows(cs, pivot))[Len(cs)] \in BosState(cs)
    BY <1>1, <1>2, BosWalkTyped
  <1>4. QED
    BY <1>3 DEF DetectBosEvents, BosState

\* The TP level of a zone is a price.
LEMMA TpLevelPrice ==
    ASSUME NEW cs \in Seq(Ohlc), NEW e \in EventType
    PROVE  TpLevel(cs, e) \in Price
  <1> DEFINE D == After(cs, e.at)
             f == [i \in D |-> cs[i].low]
             g == [i \in D |-> cs[i].high]
             L == {cs[i].low : i \in D} \cup {e.swing.low}
             H == {cs[i].high : i \in D} \cup {e.swing.high}
  <1>1. /\ Len(cs) \in Nat /\ DOMAIN cs = 1..Len(cs)
        /\ \A j \in 1..Len(cs) : cs[j] \in Ohlc
    BY LenProperties, ElementOfSeq
  <1>2. \A i \in D : cs[i].high \in Price /\ cs[i].low \in Price
    BY <1>1 DEF After, Ohlc
  <1>3. e.swing.low \in Price /\ e.swing.high \in Price
    <2>1. e.swing \in Ohlc
      BY DEF EventType
    <2>2. QED
      BY <2>1 DEF Ohlc
  <1>4. IsFiniteSet(D)
    <2>1. D \in SUBSET DOMAIN cs
      BY DEF After
    <2>2. IsFiniteSet(DOMAIN cs)
      BY <1>1, FS_Interval
    <2> HIDE DEF D
    <2>3. QED
      BY <2>1, <2>2, FS_Subset
  <1> HIDE DEF D
  <1>5. IsFiniteSet({cs[i].low : i \in D}) /\ IsFiniteSet({cs[i].high : i \in D})
    <2>1. /\ {cs[i].low : i \in D} = {f[i] : i \in D} /\ DOMAIN f = D
          /\ {cs[i].high : i \in D} = {g[i] : i \in D} /\ DOMAIN g = D
      OBVIOUS
    <2> HIDE DEF f, g
    <2>2. PICK A, B : A = {cs[i].low : i \in D} /\ B = {cs[i].high : i \in D}
      OBVIOUS
    <2>3. A = {f[i] : i \in D} /\ B = {g[i] : i \in D}
      BY <2>1, <2>2
    <2>4. IsFiniteSet(A) /\ IsFiniteSet(B)
      BY <1>4, <2>1, <2>3, ValuesFinite
    <2>5. QED
      BY <2>2, <2>4
  <1>6. IsFiniteSet(L) /\ IsFiniteSet(H)
    BY <1>5, FS_AddElement
  <1>7. L \in SUBSET Price /\ H \in SUBSET Price /\ L # {} /\ H # {}
    BY <1>2, <1>3
  <1>8. TpLevel(cs, e) = IF e.direction = "BEARISH" THEN Min(L) ELSE Max(H)
    BY DEF TpLevel, D
  <1> HIDE DEF L, H
  <1>9. L \in SUBSET Int /\ H \in SUBSET Int
    BY <1>7, PriceInt
  <1>10. Min(L) \in L /\ Max(H) \in H
    BY <1>6, <1>7, <1>9, MinOfFinite, MaxOfFinite
  <1>11. QED
    BY <1>7, <1>8, <1>10

ZoneType == [range_high : Price, range_low : Price, bos_direction : BosDirection,
             timestamp : Nat, broken_at : Nat, tp_level : Price]

\* The zone of an event is well formed.
LEMMA ZoneTyped ==
    ASSUME NEW cs \in Seq(Ohlc), NEW e \in EventType
    PROVE  Zone(cs, e) \in ZoneType /\ Zone(cs, e).timestamp = e.swing.time
  <1>1. e.swing \in Ohlc /\ e.at \in Nat /\ e.direction \in BosDirection
    BY DEF EventType
  <1>2. PICK tp \in Price : tp = TpLevel(cs, e)
    BY TpLevelPrice
  <1>3. Zone(cs, e) = [range_high |-> e.swing.high, range_low |-> e.swing.low,
                       bos_direction |-> e.direction, timestamp |-> e.swing.time,
                       broken_at |-> e.at, tp_level |-> tp]
    BY <1>2 DEF Zone
  <1>4. QED
    BY <1>1, <1>3 DEF Ohlc, ZoneType

\* Finitely many zones with different timestamps can be put in order.
LEMMA SortExists ==
    ASSUME NEW Z, Z \subseteq ZoneType, IsFiniteSet(Z),
           \A y, z \in Z : y.timestamp = z.timestamp => y = z
    PROVE  NewestFirst(Z) \in [1..Cardinality(Z) -> Z]
  <1> DEFINE Descends(s) == \A i, j \in DOMAIN s : i < j => s[i].timestamp > s[j].timestamp
             Can(T) == \E s \in [1..Cardinality(T) -> T] : Descends(s)
             G == {n \in Nat : \A T \in SUBSET Z : Cardinality(T) = n => Can(T)}
  <1>1. Cardinality(Z) \in Nat
    BY FS_CardinalityType
  <1>2. 0 \in G
    <2>1. ASSUME NEW T \in SUBSET Z, Cardinality(T) = 0 PROVE Can(T)
      <3> DEFINE s == [i \in 1..0 |-> 0]
      <3>1. s \in [1..Cardinality(T) -> T] /\ Descends(s)
        BY <2>1
      <3> HIDE DEF s
      <3>2. QED
        BY <3>1
    <2>2. QED
      BY <2>1
  <1>3. ASSUME NEW n \in 1..Cardinality(Z), n - 1 \in G PROVE n \in G
    <2>1. ASSUME NEW T \in SUBSET Z, Cardinality(T) = n PROVE Can(T)
      <3>1. IsFiniteSet(T) /\ T # {}
        <4>1. IsFiniteSet(T)
          BY FS_Subset
        <4>2. QED
          BY <1>1, <2>1, <4>1, FS_EmptySet
      <3> DEFINE f == [z \in T |-> z.timestamp]
                 V == {f[z] : z \in T}
      <3>2. IsFiniteSet(V)
        <4>1. DOMAIN f = T /\ V = {f[z] : z \in T}
          OBVIOUS
        <4> HIDE DEF V, f
        <4>2. QED
          BY <3>1, <4>1, ValuesFinite
      <3>3. \A z \in T : f[z] \in V /\ f[z] = z.timestamp /\ z.timestamp \in Nat
        BY DEF ZoneType
      <3>4. V \in SUBSET Int /\ V # {}
        BY <3>1, <3>3
      <3>5. Min(V) \in V /\ \A x \in V : Min(V) <= x
        <4> HIDE DEF V
        <4>1. QED
          BY <3>2, <3>4, MinOfFinite
      <3>6. PICK e \in T : f[e] = Min(V)
        BY <3>5
      <3>7. \A z \in T : e.timestamp <= z.timestamp
        <4> HIDE DEF V, f
        <4>1. QED
          BY <3>3, <3>5, <3>6
      <3> HIDE DEF V, f
      <3> DEFINE U == T \ {e}
      <3>8. Cardinality(U) = n - 1 /\ U \in SUBSET Z
        BY <2>1, <3>1, FS_RemoveElement
      <3>9. PICK s \in [1..(n - 1) -> U] : Descends(s)
        BY <1>3, <3>8
      <3> DEFINE t == [i \in 1..n |-> IF i = n THEN e ELSE s[i]]
      <3>10. n \in Nat \ {0}
        BY <1>1
      <3>11. \A i \in 1..(n - 1) : s[i] \in T /\ s[i] # e
        BY <3>9
      <3>12. t \in [1..n -> T]
        BY <3>10, <3>11
      <3>13. ASSUME NEW i \in 1..n, NEW j \in 1..n, i < j PROVE t[i].timestamp > t[j].timestamp
        <4>1. i \in 1..(n - 1) /\ t[i] = s[i]
          BY <3>10, <3>13
        <4>2. CASE j = n
          <5>1. s[i] \in T /\ s[i] # e /\ e \in T
            BY <3>11, <4>1
          <5>2. s[i].timestamp # e.timestamp
            BY <5>1
          <5>3. s[i].timestamp \in Nat /\ e.timestamp \in Nat /\ e.timestamp <= s[i].timestamp
            BY <3>3, <3>7, <5>1
          <5>4. t[j] = e
            BY <4>2
          <5>5. QED
            BY <4>1, <5>2, <5>3, <5>4
        <4>3. CASE j # n
          <5>1. j \in 1..(n - 1) /\ t[j] = s[j]
            BY <3>10, <4>3
          <5>2. QED
            BY <3>9, <3>13, <4>1, <5>1
        <4>4. QED
          BY <4>2, <4>3
      <3>14. Descends(t)
        BY <3>12, <3>13
      <3> HIDE DEF t
      <3>15. QED
        BY <2>1, <3>12, <3>14
    <2>2. n \in Nat
      BY <1>1
    <2>3. QED
      BY <2>1, <2>2
  <1>4. Can(Z)
    <2>1. Cardinality(Z) \in G
      <3> HIDE DEF G
      <3>1. 0..Cardinality(Z) \subseteq G
        BY <1>1, <1>2, <1>3, IntervalInduction
      <3>2. QED
        BY <1>1, <3>1
    <2>2. QED
      BY <2>1
  <1>5. NewestFirst(Z) = CHOOSE s \in [1..Cardinality(Z) -> Z] : Descends(s)
    BY DEF NewestFirst
  <1>6. QED
    BY <1>4, <1>5

\* The fresh zones of a direction are finitely many, one to a swing.
LEMMA FreshZonesTyped ==
    ASSUME NEW cs \in Seq(Ohlc), NEW pivot, NEW dir
    PROVE  /\ FreshZones(cs, pivot, dir) \subseteq ZoneType
           /\ IsFiniteSet(FreshZones(cs, pivot, dir))
           /\ \A y, z \in FreshZones(cs, pivot, dir) : y.timestamp = z.timestamp => y = z
  <1>1. PICK events \in Seq(EventType) : events = DetectBosEvents(cs, pivot)
    BY EventsTyped
  <1> DEFINE First(k) == \A m \in 1..(k - 1) :
                             \/ events[m].direction # dir
                             \/ events[m].swing.time # events[k].swing.time
             D == {m \in DOMAIN events :
                     events[m].direction = dir /\ First(m) /\ ~TakenOut(cs, events[m])}
             f == [k \in D |-> Zone(cs, events[k])]
             F == FreshZones(cs, pivot, dir)
  <1>2. F = {Zone(cs, events[k]) : k \in D}
    BY <1>1 DEF FreshZones
  <1>3. Len(events) \in Nat /\ DOMAIN events = 1..Len(events)
        /\ \A j \in 1..Len(events) : events[j] \in EventType
    BY LenProperties, ElementOfSeq
  <1>4. D \in SUBSET (1..Len(events)) /\ IsFiniteSet(D)
    <2>1. D \in SUBSET (1..Len(events))
      BY <1>3
    <2>2. IsFiniteSet(1..Len(events))
      BY <1>3, FS_Interval
    <2> HIDE DEF D
    <2>3. QED
      BY <2>1, <2>2, FS_Subset
  <1>5. \A k \in D : Zone(cs, events[k]) \in ZoneType
                     /\ Zone(cs, events[k]).timestamp = events[k].swing.time
    <2> HIDE DEF D
    <2>1. QED
      BY <1>3, <1>4, ZoneTyped
  <1>6. F \subseteq ZoneType
    <2> HIDE DEF D, F
    <2>1. QED
      BY <1>2, <1>5
  <1>7. IsFiniteSet(F)
    <2>1. F = {f[k] : k \in D} /\ DOMAIN f = D
      BY <1>2
    <2> HIDE DEF F, f, D
    <2>2. QED
      BY <1>4, <2>1, ValuesFinite
  <1>8. ASSUME NEW y \in F, NEW z \in F, y.timestamp = z.timestamp PROVE y = z
    <2>1. PICK j \in D : y = Zone(cs, events[j])
      <3> HIDE DEF D, F
      <3>1. QED
        BY <1>2
    <2>2. PICK k \in D : z = Zone(cs, events[k])
      <3> HIDE DEF D, F
      <3>1. QED
        BY <1>2
    <2>3. events[j].swing.time = events[k].swing.time
      <3> HIDE DEF D, F
      <3>1. QED
        BY <1>5, <1>8, <2>1, <2>2
    <2>4. events[j].direction = dir /\ events[k].direction = dir /\ First(j) /\ First(k)
      OBVIOUS
    <2>5. j \in 1..Len(events) /\ k \in 1..Len(events)
      BY <1>4
    <2>6. ~(j < k) /\ ~(k < j)
      BY <1>3, <2>3, <2>4, <2>5
    <2>7. j = k
      BY <1>3, <2>5, <2>6
    <2>8. QED
      BY <2>1, <2>2, <2>7
  <1> HIDE DEF F
  <1>9. F \subseteq ZoneType /\ IsFiniteSet(F) /\ \A y, z \in F : y.timestamp = z.timestamp => y = z
    BY <1>6, <1>7, <1>8
  <1>10. QED
    BY <1>9 DEF F

\* The zones the scan walks through are zones.
LEMMA RangesTyped ==
    ASSUME NEW cs \in Seq(Ohlc)
    PROVE  FindHtfRanges(cs, PivotBars, MaxZones) \in Seq(ZoneType)
  <1> DEFINE Newest(dir) ==
                LET zones == NewestFirst(FreshZones(cs, PivotBars, dir))
                IN SubSeq(zones, 1, Min({MaxZones, Len(zones)}))
  <1>1. ASSUME NEW dir PROVE Newest(dir) \in Seq(ZoneType)
    <2>1. PICK Z : Z = FreshZones(cs, PivotBars, dir)
      OBVIOUS
    <2>2. /\ Z \subseteq ZoneType /\ IsFiniteSet(Z)
          /\ \A y, z \in Z : y.timestamp = z.timestamp => y = z
      BY <2>1, FreshZonesTyped
    <2>3. NewestFirst(Z) \in [1..Cardinality(Z) -> Z]
      BY <2>2, SortExists
    <2>4. Cardinality(Z) \in Nat
      BY <2>2, FS_CardinalityType
    <2>5. PICK zones \in Seq(ZoneType) : zones = NewestFirst(Z)
      BY <2>2, <2>3, <2>4
    <2>6. Len(zones) \in Nat /\ MaxZones \in Nat
      BY LenProperties, BacktestAssumption
    <2> DEFINE M == {MaxZones, Len(zones)}
    <2>7. IsFiniteSet(M)
      <3>1. M = ({} \cup {MaxZones}) \cup {Len(zones)}
        OBVIOUS
      <3> HIDE DEF M
      <3>2. QED
        BY <3>1, FS_EmptySet, FS_AddElement
    <2>8. Min(M) \in M /\ \A x \in M : Min(M) <= x
      <3>1. M \in SUBSET Int /\ M # {}
        BY <2>6
      <3> HIDE DEF M
      <3>2. QED
        BY <2>7, <3>1, MinOfFinite
    <2>9. PICK b \in 0..Len(zones) : b = Min(M)
      BY <2>6, <2>8
    <2>10. Newest(dir) = SubSeq(zones, 1, b)
      BY <2>1, <2>5, <2>9
    <2>11. \A i \in 1..b : zones[i] \in ZoneType
      BY <2>6, ElementOfSeq
    <2>12. SubSeq(zones, 1, b) \in Seq(ZoneType)
      BY <2>6, <2>11, SubSeqProperties
    <2>13. QED
      BY <2>10, <2>12
  <1>2. FindHtfRanges(cs, PivotBars, MaxZones) =
          IF Len(cs) < 3 THEN <<>> ELSE Newest("BEARISH") \o Newest("BULLISH")
    BY DEF FindHtfRanges
  <1> HIDE DEF Newest
  <1>3. QED
    BY <1>1, <1>2, EmptySeq, ConcatProperties

-----------------------------------------------------------------------------
(***************************************************************************)
(* Signals                                                                 *)
(***************************************************************************)

\* The entry found is one of the candles.
LEMMA EntryTyped ==
    ASSUME NEW cs \in Seq(Ohlc), NEW dir, NEW zone, FindEntry(cs, dir, zone) # NoEntry
    PROVE  FindEntry(cs, dir, zone) \in Ohlc
  <1> DEFINE hits == {i \in 2..Len(cs) : Check(cs[i], cs[i - 1], dir, zone)}
  <1>1. Len(cs) \in Nat
    BY LenProperties
  <1>2. FindEntry(cs, dir, zone) = cs[Max(hits)] /\ hits # {}
    BY DEF FindEntry
  <1>3. hits \in SUBSET (2..Len(cs)) /\ IsFiniteSet(2..Len(cs))
    BY <1>1, FS_Interval
  <1> HIDE DEF hits
  <1>4. IsFiniteSet(hits)
    BY <1>3, FS_Subset
  <1>5. Max(hits) \in hits
    <2>1. hits \in SUBSET Int
      BY <1>3
    <2>2. QED
      BY <1>2, <1>4, <2>1, MaxOfFinite
  <1>6. PICK m \in 2..Len(cs) : m = Max(hits)
    BY <1>3, <1>5
  <1>7. cs[m] \in Ohlc
    BY <1>1, ElementOfSeq
  <1>8. QED
    BY <1>2, <1>6, <1>7

\* A part of a whole number of hundredths.
LEMMA PartBetween ==
    ASSUME NEW D \in Nat, NEW pct \in 1..99, D * pct >= 100
    PROVE  /\ (D * pct) \div 100 \in Int
           /\ 0 < (D * pct) \div 100 /\ (D * pct) \div 100 < D
  <1>1. PICK x \in Nat : x = D * pct
    OBVIOUS
  <1>2. x >= 100
    BY <1>1
  <1>3. x < 100 * D
    <2>1. D > 0
      BY <1>1, <1>2
    <2>2. PICK e \in Nat \ {0} : e = 100 - pct
      OBVIOUS
    <2>3. pct = 100 - e
      BY <2>2
    <2>4. x = D * 100 - D * e
      BY <1>1, <2>3
    <2>5. D * e > 0
      BY <2>1
    <2>6. QED
      BY <2>4, <2>5
  <1>4. x \div 100 \in Int /\ 0 < x \div 100 /\ x \div 100 < D
    BY <1>2, <1>3
  <1>5. QED
    BY <1>1, <1>4

\* Rounding to the nearest does not pass a bound on the quotient.
LEMMA NearestBounds ==
    ASSUME NEW a \in Nat, NEW b \in Nat \ {0}
    PROVE  /\ Nearest(a, b) \in Nat
           /\ \A m \in Nat : a <= m * b => Nearest(a, b) <= m
  <1>1. PICK q \in Int : q = (2 * a + b) \div (2 * b)
    OBVIOUS
  <1>2. Nearest(a, b) = q
    BY <1>1 DEF Nearest
  <1>3. PICK y \in Nat \ {0} : y = 2 * b
    OBVIOUS
  <1>4. PICK x \in Nat : x = 2 * a + b
    OBVIOUS
  <1>5. q = x \div y
    BY <1>1, <1>3, <1>4
  <1>6. q * y <= x /\ x < q * y + y
    BY <1>5
  <1>7. q >= 0
    <2>1. ASSUME q < 0 PROVE FALSE
      <3>1. PICK k \in Nat : q = -1 - k
        BY <2>1
      <3>2. q * y = -y - k * y /\ k * y \in Nat
        BY <3>1
      <3>3. QED
        BY <1>4, <1>6, <3>2
    <2>2. QED
      BY <2>1
  <1>8. ASSUME NEW m \in Nat, a <= m * b PROVE q <= m
    <2>1. x <= 2 * (m * b) + b
      BY <1>4, <1>8
    <2>2. x < (m + 1) * y
      <3>1. (m + 1) * y = 2 * (m * b) + 2 * b
        BY <1>3
      <3>2. QED
        BY <2>1, <3>1
    <2>3. q * y < (m + 1) * y
      BY <1>6, <2>2
    <2>4. ASSUME q >= m + 1 PROVE FALSE
      <3>1. PICK k \in Nat : q = m + 1 + k
        BY <2>4
      <3>2. q * y = (m + 1) * y + k * y /\ k * y >= 0
        BY <3>1
      <3>3. QED
        BY <2>3, <3>2
    <2>5. QED
      BY <2>4
  <1>9. QED
    BY <1>2, <1>7, <1>8

\* Two prices that differ are a hundred units apart.
LEMMA PricesApart ==
    ASSUME NEW x \in Price, NEW y \in Price, x # y
    PROVE  Dist(x, y) \in Nat /\ Dist(x, y) >= 100
  <1>1. x \in Nat /\ y \in Nat /\ x % 100 = 0 /\ y % 100 = 0
    BY DEF Price
  <1>2. QED
    BY <1>1 DEF Dist

\* The buffer beyond the wick is at least one unit.
LEMMA BufferIsAUnit ==
    ASSUME NEW tip \in Price
    PROVE  tip \div BufferDiv \in Nat \ {0}
  <1>1. tip \in Nat /\ tip >= BufferDiv /\ BufferDiv \in Nat \ {0}
    BY PriceInt DEF Price
  <1>2. PICK b \in Nat \ {0} : b = BufferDiv
    BY <1>1
  <1>3. PICK q \in Int : q = tip \div b
    BY <1>1
  <1>4. tip < q * b + b /\ tip >= b
    BY <1>1, <1>2, <1>3
  <1>5. q > 0
    <2>1. ASSUME q <= 0 PROVE FALSE
      <3>1. PICK k \in Nat : q = -k
        BY <2>1
      <3>2. q * b = -(k * b) /\ k * b >= 0
        BY <3>1
      <3>3. QED
        BY <1>1, <1>4, <3>2
    <2>2. QED
      BY <2>1
  <1>6. QED
    BY <1>2, <1>3, <1>5

\* A capped target leaves a unit to TP1, whatever the risk.
LEMMA CapIsWide ==
    ASSUME NEW m \in Nat, NEW risk \in Nat \ {0}, NEW pct \in 1..99,
           (m \div 1000) * pct >= 100
    PROVE  (m * risk) \div 1000 \in Nat /\ ((m * risk) \div 1000) * pct >= 100
  <1>1. PICK k \in Nat : k = m \div 1000
    OBVIOUS
  <1>2. m >= 1000 * k
    BY <1>1
  <1>3. PICK x \in Nat : x = m * risk
    OBVIOUS
  <1>4. x >= m
    <2>1. PICK r \in Nat : risk = r + 1
      <3>1. risk - 1 \in Nat /\ risk = (risk - 1) + 1
        OBVIOUS
      <3>2. QED
        BY <3>1
    <2>2. x = m * r + m /\ m * r \in Nat
      BY <1>3, <2>1
    <2>3. QED
      BY <2>2
  <1>5. PICK D \in Nat : D = x \div 1000
    BY <1>3
  <1>6. D >= k
    BY <1>2, <1>4, <1>5
  <1>7. D * pct >= k * pct
    <2>1. PICK d \in Nat : D = k + d
      <3>1. D - k \in Nat /\ D = k + (D - k)
        BY <1>6
      <3>2. QED
        BY <3>1
    <2>2. D * pct = k * pct + d * pct /\ d * pct >= 0
      BY <2>1
    <2>3. QED
      BY <2>2
  <1>8. k * pct >= 100
    BY <1>1
  <1>9. D * pct \in Int /\ k * pct \in Int
    OBVIOUS
  <1>10. D * pct >= 100
    BY <1>7, <1>8, <1>9
  <1>11. QED
    BY <1>3, <1>5, <1>10

\* The profile as the assumption has it.
ProfileOK(profile) ==
    /\ profile.be \in BOOLEAN
    /\ profile.tp1_trigger_pct \in 1..99 /\ profile.tp1_close_pct \in 0..100
    /\ profile.min_rr \in Nat /\ profile.max_rr \in Nat
    /\ profile.max_rr > 0 => (profile.max_rr \div 1000) * profile.tp1_trigger_pct >= 100

\* A signal whose levels are in order.
Sound(s) ==
    /\ s.direction \in {"LONG", "SHORT"} /\ s.created_at \in Nat
    /\ s.entry \in Int /\ s.sl \in Int /\ s.tp1 \in Int /\ s.tp2 \in Int
    /\ s.rr \in Nat /\ s.risk \in Nat \ {0}
    /\ Beyond(s.direction, s.tp2, s.tp1)
    /\ Beyond(s.direction, s.tp1, s.entry)
    /\ Beyond(s.direction, s.entry, s.sl)

\* The target after the cap: on its side of the entry, with room for TP1.
LEMMA CapProperties ==
    ASSUME NEW profile, ProfileOK(profile), NEW dir \in {"LONG", "SHORT"},
           NEW entry \in Price, NEW tp \in Price, NEW risk \in Nat \ {0},
           Beyond(dir, tp, entry), NEW c, c = CapTp2(entry, tp, risk, dir, profile)
    PROVE  /\ c.rr \in Nat
           /\ profile.max_rr > 0 => c.rr <= profile.max_rr
           /\ \E D \in Nat : /\ c.tp2 = Toward(dir, entry, D)
                             /\ D * profile.tp1_trigger_pct >= 100
  <1>1. /\ entry \in Nat /\ tp \in Nat /\ entry # tp
    BY PriceInt DEF Beyond
  <1>2. /\ profile.max_rr \in Nat /\ profile.tp1_trigger_pct \in 1..99
        /\ profile.max_rr > 0 => (profile.max_rr \div 1000) * profile.tp1_trigger_pct >= 100
    BY DEF ProfileOK
  <1>3. PICK m \in Nat, pct \in 1..99 : m = profile.max_rr /\ pct = profile.tp1_trigger_pct
    BY <1>2
  <1>4. PICK D \in Nat : D = Dist(tp, entry)
    <2>1. Dist(tp, entry) \in Nat
      BY <1>1, PricesApart
    <2>2. QED
      BY <2>1
  <1>5. D >= 100 /\ tp = Toward(dir, entry, D)
    <2>1. D >= 100
      BY <1>1, <1>4, PricesApart
    <2>2. tp = Toward(dir, entry, D)
      BY <1>1, <1>4 DEF Dist, Toward, Beyond
    <2>3. QED
      BY <2>1, <2>2
  <1>6. c = IF m > 0 /\ D * 1000 > m * risk
            THEN [tp2 |-> Toward(dir, entry, (m * risk) \div 1000), rr |-> m]
            ELSE [tp2 |-> tp, rr |-> Nearest(D * 1000, risk)]
    BY <1>3, <1>4 DEF CapTp2
  <1>7. CASE m > 0 /\ D * 1000 > m * risk
    <2>1. (m \div 1000) * pct >= 100
      BY <1>2, <1>3, <1>7
    <2>2. (m * risk) \div 1000 \in Nat /\ ((m * risk) \div 1000) * pct >= 100
      BY <2>1, CapIsWide
    <2>3. PICK E \in Nat : E = (m * risk) \div 1000
      BY <2>2
    <2>4. c.tp2 = Toward(dir, entry, E) /\ E * pct >= 100 /\ c.rr = m
      BY <1>6, <1>7, <2>2, <2>3
    <2>5. QED
      BY <1>3, <2>4
  <1>8. CASE ~(m > 0 /\ D * 1000 > m * risk)
    <2>1. c.tp2 = Toward(dir, entry, D) /\ c.rr = Nearest(D * 1000, risk)
      BY <1>5, <1>6, <1>8
    <2>2. D * pct >= 100
      <3>1. PICK d \in Nat : D = 100 + d
        <4>1. D - 100 \in Nat /\ D = 100 + (D - 100)
          BY <1>5
        <4>2. QED
          BY <4>1
      <3>2. D * pct = 100 * pct + d * pct /\ d * pct >= 0
        BY <3>1
      <3>3. QED
        BY <3>2
    <2>3. D * 1000 \in Nat
      OBVIOUS
    <2>4. Nearest(D * 1000, risk) \in Nat
      BY <2>3, NearestBounds
    <2>5. ASSUME m > 0 PROVE Nearest(D * 1000, risk) <= m
      <3>1. PICK x \in Nat, y \in Nat : x = D * 1000 /\ y = m * risk
        OBVIOUS
      <3>2. x <= m * risk
        BY <1>8, <2>5, <3>1
      <3>3. Nearest(x, risk) <= m
        BY <3>2, NearestBounds
      <3>4. QED
        BY <3>1, <3>3
    <2>6. QED
      BY <1>3, <2>1, <2>2, <2>4, <2>5
  <1>9. QED
    BY <1>7, <1>8

\* What the builder lets through.
LEMMA SignalProperties ==
    ASSUME NEW profile, ProfileOK(profile), NEW zone \in ZoneType, NEW rejection \in Ohlc,
           NEW quote, quote = NoQuote \/ quote \in [bid : Price, ask : Price],
           NEW s, s = BuildSignal(zone, rejection, profile, quote), s # NoSignal
    PROVE  /\ Sound(s) /\ s.created_at = rejection.time
           /\ s.direction = SignalDirection(zone.bos_direction)
           /\ Beyond(s.direction, WickTip(rejection, s.direction), s.sl)
           /\ profile.max_rr > 0 => s.rr <= profile.max_rr
  <1> DEFINE dir    == SignalDirection(zone.bos_direction)
             entry  == EntryPrice(rejection, dir, profile, quote)
             sl     == StopLoss(rejection, dir)
             risk   == Dist(entry, sl)
             capped == CapTp2(entry, zone.tp_level, risk, dir, profile)
             tp1    == Tp1Level(dir, entry, capped.tp2, profile.tp1_trigger_pct)
             tip    == WickTip(rejection, dir)
  <1>1. Gates(dir, entry, sl, zone, profile)
    BY DEF BuildSignal
  <1>2. s = [direction |-> dir, entry |-> entry, sl |-> sl, tp1 |-> tp1,
             tp2 |-> capped.tp2, rr |-> capped.rr, risk |-> risk,
             created_at |-> rejection.time]
    BY DEF BuildSignal
  <1>3. /\ rejection.time \in Nat /\ rejection.close \in Price
        /\ rejection.high \in Price /\ rejection.low \in Price /\ zone.tp_level \in Price
    BY DEF Ohlc, ZoneType
  <1>4. dir \in {"LONG", "SHORT"}
    BY DEF SignalDirection
  <1>5. entry \in Price
    BY <1>3 DEF EntryPrice
  <1>6. tip \in Price
    BY <1>3 DEF WickTip
  <1>7. PICK buf \in Nat \ {0} : buf = tip \div BufferDiv
    BY <1>6, BufferIsAUnit
  <1>8. sl = Toward(dir, tip, -buf)
    BY <1>7 DEF StopLoss
  <1>9. Beyond(dir, entry, sl) /\ Beyond(dir, zone.tp_level, entry)
    BY <1>1 DEF Gates
  <1> HIDE DEF dir, entry, sl, capped, tip
  <1>10. entry \in Int /\ tip \in Int
    BY <1>5, <1>6, PriceInt
  <1>11. sl \in Int /\ Beyond(dir, tip, sl)
    BY <1>4, <1>8, <1>10 DEF Toward, Beyond
  <1>12. risk \in Nat \ {0}
    BY <1>4, <1>9, <1>10, <1>11 DEF Dist, Beyond
  <1> HIDE DEF risk
  <1>13. PICK pct \in 1..99 : pct = profile.tp1_trigger_pct
    BY DEF ProfileOK
  <1>14. /\ capped.rr \in Nat
         /\ profile.max_rr > 0 => capped.rr <= profile.max_rr
         /\ \E D \in Nat : /\ capped.tp2 = Toward(dir, entry, D)
                           /\ D * profile.tp1_trigger_pct >= 100
    BY <1>3, <1>4, <1>5, <1>9, <1>12, CapProperties DEF capped
  <1>15. PICK D \in Nat : capped.tp2 = Toward(dir, entry, D) /\ D * pct >= 100
    BY <1>13, <1>14
  <1>16. PICK q \in Int : q = (D * pct) \div 100 /\ 0 < q /\ q < D
    BY <1>15, PartBetween
  <1>17. Dist(capped.tp2, entry) = D
    BY <1>4, <1>10, <1>15 DEF Dist, Toward
  <1>18. tp1 = Toward(dir, entry, q)
    BY <1>13, <1>16, <1>17 DEF Tp1Level
  <1> HIDE DEF tp1
  <1>19. /\ tp1 \in Int /\ capped.tp2 \in Int
         /\ Beyond(dir, capped.tp2, tp1) /\ Beyond(dir, tp1, entry)
    BY <1>4, <1>10, <1>15, <1>16, <1>18 DEF Toward, Beyond
  <1>20. /\ s.direction = dir /\ s.entry = entry /\ s.sl = sl /\ s.tp1 = tp1
         /\ s.tp2 = capped.tp2 /\ s.rr = capped.rr /\ s.risk = risk
         /\ s.created_at = rejection.time
    BY <1>2
  <1>21. Sound(s)
    <2>1. /\ s.direction \in {"LONG", "SHORT"} /\ s.created_at \in Nat
          /\ s.entry \in Int /\ s.sl \in Int /\ s.tp1 \in Int /\ s.tp2 \in Int
          /\ s.rr \in Nat /\ s.risk \in Nat \ {0}
      BY <1>3, <1>4, <1>10, <1>11, <1>12, <1>14, <1>19, <1>20
    <2>2. /\ Beyond(s.direction, s.tp2, s.tp1) /\ Beyond(s.direction, s.tp1, s.entry)
          /\ Beyond(s.direction, s.entry, s.sl)
      BY <1>9, <1>19, <1>20, Zenon
    <2>3. QED
      BY <2>1, <2>2 DEF Sound
  <1>22. Beyond(s.direction, WickTip(rejection, s.direction), s.sl)
    BY <1>11, <1>20 DEF tip
  <1>23. profile.max_rr > 0 => s.rr <= profile.max_rr
    BY <1>14, <1>20
  <1>24. QED
    BY <1>20, <1>21, <1>22, <1>23 DEF dir

-----------------------------------------------------------------------------
(***************************************************************************)
(* The history and the settings of a run                                   *)
(***************************************************************************)
BaseInv == IsChart(chart) /\ cfg \in Configs /\ bar \in Nat

\* The history is a chart and the settings are among those to run with, for
\* the whole run (run reads both and changes neither).
THEOREM BaseType == Spec => []BaseInv
  <1>1. Init => BaseInv
    <2> SUFFICES ASSUME Init PROVE BaseInv
      OBVIOUS
    <2>1. bar \in Nat
      BY BacktestAssumption DEF Init
    <2>2. CASE chart \in Charts /\ cfg \in Configs
      BY <2>1, <2>2, BacktestAssumption DEF BaseInv, IsChart
    <2>3. CASE chart = <<>> /\ cfg = CHOOSE c \in Configs : TRUE
      <3>1. cfg \in Configs
        BY <2>3, SettingsAssumption
      <3>2. IsChart(chart)
        BY <2>3, EmptySeq DEF IsChart
      <3>3. QED
        BY <2>1, <3>1, <3>2 DEF BaseInv
    <2>4. QED
      BY <2>2, <2>3 DEF Init
  <1>2. BaseInv /\ [Next]_vars => BaseInv'
    BY DEF BaseInv, IsChart, Next, Bar, ReportRun, ReadRow, vars
  <1>3. QED
    BY <1>1, <1>2, PTL DEF Spec

\* The settings of a run are what the lemmas on signals ask for, priced from
\* the candle or from a quote.
LEMMA ConfigProfile ==
    ASSUME NEW c \in Configs
    PROVE  /\ c.giveback \in Nat /\ c.profile \in Profile /\ ProfileOK(c.profile)
           /\ ProfileOK([c.profile EXCEPT !.signal_price_source = "live_bidask"])
           /\ [c.profile EXCEPT !.signal_price_source = "live_bidask"].max_rr = c.profile.max_rr
  <1>1. /\ c.profile \in Profile /\ c.giveback \in Nat
        /\ c.profile.max_rr > 0 => (c.profile.max_rr \div 1000) * c.profile.tp1_trigger_pct >= 100
    BY SettingsAssumption
  <1>2. PICK p : p = c.profile
    OBVIOUS
  <1>3. PICK q : q = [p EXCEPT !.signal_price_source = "live_bidask"]
    OBVIOUS
  <1>4. /\ p.be \in BOOLEAN /\ p.tp1_trigger_pct \in 1..99 /\ p.tp1_close_pct \in 0..100
        /\ p.min_rr \in Nat /\ p.max_rr \in Nat
    BY <1>1, <1>2 DEF Profile
  <1>5. /\ q.be = p.be /\ q.tp1_trigger_pct = p.tp1_trigger_pct
        /\ q.tp1_close_pct = p.tp1_close_pct /\ q.min_rr = p.min_rr /\ q.max_rr = p.max_rr
    BY <1>1, <1>2, <1>3 DEF Profile
  <1>6. p.max_rr > 0 => (p.max_rr \div 1000) * p.tp1_trigger_pct >= 100
    BY <1>1, <1>2
  <1>7. ProfileOK(p)
    BY <1>4, <1>6 DEF ProfileOK
  <1>8. ProfileOK(q)
    BY <1>4, <1>5, <1>6 DEF ProfileOK
  <1>9. QED
    BY <1>1, <1>2, <1>3, <1>5, <1>7, <1>8

\* A setup is a zone and a candle.
LEMMA SetupTyped ==
    ASSUME IsChart(chart), NEW p \in DOMAIN Pairs, NEW setup \in Setup(p),
           setup.rejection # NoEntry
    PROVE  setup.zone \in ZoneType /\ setup.rejection \in Ohlc
  <1>1. Pairs[p] \in PairType
    BY PairsTyped
  <1>2. PICK cs \in Seq(Ohlc) : cs = Window(Pairs[p], Now)
    BY <1>1, WindowType
  <1>3. PICK zones \in Seq(ZoneType) : zones = FindHtfRanges(cs, PivotBars, MaxZones)
    BY RangesTyped
  <1>4. PICK i \in DOMAIN zones :
           setup = [zone |-> zones[i],
                    rejection |-> FindEntry(Between(Pairs[p], zones[i].broken_at, Now),
                                            SignalDirection(zones[i].bos_direction), zones[i])]
    BY <1>2, <1>3 DEF Setup
  <1>5. PICK zone : zone = zones[i]
    OBVIOUS
  <1>6. zone \in ZoneType
    BY <1>5, LenProperties, ElementOfSeq
  <1>7. PICK ltf \in Seq(Ohlc) : ltf = Between(Pairs[p], zone.broken_at, Now)
    BY <1>1, BetweenType
  <1>8. PICK dir : dir = SignalDirection(zone.bos_direction)
    OBVIOUS
  <1>9. setup = [zone |-> zone, rejection |-> FindEntry(ltf, dir, zone)]
    BY <1>4, <1>5, <1>7, <1>8, Zenon
  <1>10. PICK rejection : rejection = FindEntry(ltf, dir, zone)
    OBVIOUS
  <1>11. setup.zone = zone /\ setup.rejection = rejection
    BY <1>9, <1>10
  <1>12. rejection \in Ohlc
    BY <1>10, <1>11, EntryTyped
  <1>13. QED
    BY <1>6, <1>11, <1>12

\* The builder on a setup, with any settings and any quote.
LEMMA BuilderOrders ==
    ASSUME NEW profile, ProfileOK(profile), NEW zone \in ZoneType, NEW rejection \in Ohlc,
           NEW quote, quote = NoQuote \/ quote \in [bid : Price, ask : Price]
    PROVE  LET s == BuildSignal(zone, rejection, profile, quote)
               d == SignalDirection(zone.bos_direction)
           IN s # NoSignal =>
                /\ Beyond(d, s.tp2, s.tp1) /\ Beyond(d, s.tp1, s.entry) /\ Beyond(d, s.entry, s.sl)
                /\ Beyond(d, WickTip(rejection, d), s.sl)
                /\ profile.max_rr > 0 => s.rr <= profile.max_rr
  <1>1. PICK s : s = BuildSignal(zone, rejection, profile, quote)
    OBVIOUS
  <1>2. SUFFICES ASSUME s # NoSignal, NEW d, d = SignalDirection(zone.bos_direction)
                 PROVE  /\ Beyond(d, s.tp2, s.tp1) /\ Beyond(d, s.tp1, s.entry)
                        /\ Beyond(d, s.entry, s.sl)
                        /\ Beyond(d, WickTip(rejection, d), s.sl)
                        /\ profile.max_rr > 0 => s.rr <= profile.max_rr
    BY <1>1, Zenon
  <1>3. /\ Sound(s) /\ s.direction = SignalDirection(zone.bos_direction)
        /\ Beyond(s.direction, WickTip(rejection, s.direction), s.sl)
        /\ profile.max_rr > 0 => s.rr <= profile.max_rr
    BY <1>1, <1>2, SignalProperties
  <1>4. /\ Beyond(s.direction, s.tp2, s.tp1) /\ Beyond(s.direction, s.tp1, s.entry)
        /\ Beyond(s.direction, s.entry, s.sl)
    BY <1>3 DEF Sound
  <1>5. QED
    BY <1>2, <1>3, <1>4, Zenon

\* Whatever the quote, the levels of a signal the builder lets through are in
\* order, its stop is beyond the rejection candle and its ratio within the cap
\* (build_signal).
THEOREM LevelsAreOrdered == Spec => []LevelsOrdered
  <1>1. BaseInv => LevelsOrdered
    <2> SUFFICES ASSUME BaseInv,
                        NEW p \in DOMAIN Pairs, NEW setup \in Setup(p),
                        NEW quote \in Quotes \cup {NoQuote}, setup.rejection # NoEntry
                 PROVE  LET profile == [cfg.profile EXCEPT !.signal_price_source = "live_bidask"]
                            s == BuildSignal(setup.zone, setup.rejection, profile, quote)
                            d == SignalDirection(setup.zone.bos_direction)
                        IN s # NoSignal =>
                             /\ Beyond(d, s.tp2, s.tp1) /\ Beyond(d, s.tp1, s.entry)
                             /\ Beyond(d, s.entry, s.sl)
                             /\ Beyond(d, WickTip(setup.rejection, d), s.sl)
                             /\ profile.max_rr > 0 => s.rr <= profile.max_rr
      BY DEF LevelsOrdered
    <2>1. setup.zone \in ZoneType /\ setup.rejection \in Ohlc
      BY SetupTyped DEF BaseInv
    <2>2. ProfileOK([cfg.profile EXCEPT !.signal_price_source = "live_bidask"])
      BY ConfigProfile DEF BaseInv
    <2>3. quote = NoQuote \/ quote \in [bid : Price, ask : Price]
      BY BacktestAssumption
    <2>4. QED
      BY <2>1, <2>2, <2>3, BuilderOrders
  <1>2. QED
    BY <1>1, BaseType, PTL

-----------------------------------------------------------------------------
(***************************************************************************)
(* One candle of each simulation, case by case                             *)
(***************************************************************************)
\* Only a loss has a negative R.
Signed(outcome, rr) == outcome = "LOSS" <=> rr < 0

ResultType ==
    {r \in [outcome : SignalOutcome, rr : Int, close : Int] : Signed(r.outcome, r.rr)}

TrailType == [tp1 : BOOLEAN, sl : Int, mfe : Int, result : ResultType]

\* Rounding to the nearest gives a number.
LEMMA NearestInt ==
    ASSUME NEW a \in Int, NEW b \in Nat \ {0}
    PROVE  Nearest(a, b) \in Int
  <1>1. 2 * b \in Nat \ {0} /\ 2 * a + b \in Int
    OBVIOUS
  <1>2. PICK x \in Int, y \in Nat \ {0} : x = 2 * a + b /\ y = 2 * b
    BY <1>1
  <1>3. x \div y \in Int
    OBVIOUS
  <1>4. QED
    BY <1>2, <1>3 DEF Nearest

\* What TP1 protects is no more than the whole ratio.
LEMMA RatiosTyped ==
    ASSUME NEW signal, Sound(signal), NEW profile, ProfileOK(profile)
    PROVE  /\ ProtectedRR(signal, profile) \in Nat /\ WeightedRR(signal, profile) \in Nat
           /\ ProtectedRR(signal, profile) <= signal.rr
           /\ \A price \in Int : RrAtPrice(signal, price) \in Int
  <1>1. PICK rr \in Nat, t \in 1..99, c \in 0..100 :
           /\ rr = signal.rr /\ t = profile.tp1_trigger_pct /\ c = profile.tp1_close_pct
    BY DEF Sound, ProfileOK
  <1>2. PICK x \in Nat : x = t * c
    OBVIOUS
  <1>3. x <= 10000
    <2>1. PICK e \in Nat : t = 100 - e
      <3>1. 100 - t \in Nat /\ t = 100 - (100 - t)
        OBVIOUS
      <3>2. QED
        BY <3>1
    <2>2. x = 100 * c - e * c /\ e * c >= 0
      BY <1>2, <2>1
    <2>3. QED
      BY <2>2
  <1>4. rr * t * c = rr * x /\ rr * x \in Nat
    BY <1>2
  <1>5. rr * x <= rr * 10000
    <2>1. PICK d \in Nat : x = 10000 - d
      <3>1. 10000 - x \in Nat /\ x = 10000 - (10000 - x)
        BY <1>3
      <3>2. QED
        BY <3>1
    <2>2. rr * x = rr * 10000 - rr * d /\ rr * d >= 0
      BY <2>1
    <2>3. QED
      BY <2>2
  <1>6. PICK y \in Nat : y = rr * x
    BY <1>4
  <1>7. Nearest(y, 10000) \in Nat /\ Nearest(y, 10000) <= rr
    BY <1>5, <1>6, NearestBounds
  <1>8. ProtectedRR(signal, profile) = Nearest(y, 10000)
    BY <1>1, <1>4, <1>6 DEF ProtectedRR
  <1>9. WeightedRR(signal, profile) \in Nat
    <2>1. PICK u \in Nat : u = t * c + 100 * (100 - c)
      BY <1>2
    <2>2. PICK v \in Nat : v = rr * u
      OBVIOUS
    <2>3. WeightedRR(signal, profile) = Nearest(v, 10000)
      BY <1>1, <2>1, <2>2 DEF WeightedRR
    <2>4. QED
      BY <2>3, NearestBounds
  <1>10. ASSUME NEW price \in Int PROVE RrAtPrice(signal, price) \in Int
    <2>1. signal.entry \in Int /\ signal.risk \in Nat \ {0}
      BY DEF Sound
    <2>2. PICK a \in Int : a = IF signal.direction = "LONG" THEN price - signal.entry
                               ELSE signal.entry - price
      BY <2>1
    <2>3. 1000 * a \in Int
      OBVIOUS
    <2>4. RrAtPrice(signal, price) = Nearest(1000 * a, signal.risk)
      BY <2>2 DEF RrAtPrice
    <2>5. QED
      BY <2>1, <2>3, <2>4, NearestInt
  <1>11. QED
    BY <1>1, <1>7, <1>8, <1>9, <1>10

\* The stop that follows the best price never goes back.
LEMMA AdvanceEffect ==
    ASSUME NEW signal, Sound(signal), NEW c \in Ohlc, NEW giveback \in Nat,
           NEW trail \in TrailType, NEW t, t = Advance(trail, signal, c, giveback)
    PROVE  /\ t \in TrailType /\ t.result = trail.result /\ t.tp1 = trail.tp1
           /\ \/ t.sl = trail.sl
              \/ Beyond(signal.direction, t.sl, trail.sl)
  <1>1. /\ signal.entry \in Int /\ c.high \in Int /\ c.low \in Int /\ c.close \in Int
        /\ trail.mfe \in Int /\ trail.sl \in Int /\ trail.tp1 \in BOOLEAN
        /\ trail.result \in ResultType
    <2>1. signal.entry \in Int
      BY DEF Sound
    <2>2. c.high \in Price /\ c.low \in Price /\ c.close \in Price
      BY DEF Ohlc
    <2>3. /\ trail.mfe \in Int /\ trail.sl \in Int /\ trail.tp1 \in BOOLEAN
          /\ trail.result \in ResultType
      BY DEF TrailType
    <2>4. c.high \in Int /\ c.low \in Int /\ c.close \in Int
      <3>1. \A x \in Price : x \in Int
        BY PriceInt
      <3>2. QED
        BY <2>2, <3>1, Zenon
    <2>5. QED
      BY <2>1, <2>3, <2>4, Zenon
  <1>2. PICK best \in Int : best = IF trail.mfe = 0
                                      \/ Beyond(signal.direction,
                                                Favourable(signal.direction, c), trail.mfe)
                                   THEN Favourable(signal.direction, c) ELSE trail.mfe
    BY <1>1 DEF Favourable
  <1>3. PICK x \in Int : x = Dist(best, signal.entry) * (100 - giveback)
    BY <1>1 DEF Dist
  <1>4. PICK stop \in Int : stop = Toward(signal.direction, signal.entry, x \div 100)
    BY <1>1 DEF Toward
  <1>5. t = IF Beyond(signal.direction, best, signal.entry)
               /\ Beyond(signal.direction, stop, trail.sl)
               /\ Beyond(signal.direction, c.close, stop)
            THEN [trail EXCEPT !.mfe = best, !.sl = stop]
            ELSE [trail EXCEPT !.mfe = best]
    BY <1>2, <1>3, <1>4 DEF Advance
  <1>6. \/ t = [trail EXCEPT !.mfe = best, !.sl = stop]
           /\ Beyond(signal.direction, stop, trail.sl)
        \/ t = [trail EXCEPT !.mfe = best]
    BY <1>5
  <1>7. CASE t = [trail EXCEPT !.mfe = best, !.sl = stop]
             /\ Beyond(signal.direction, stop, trail.sl)
    <2>1. t.sl = stop /\ t.result = trail.result /\ t.tp1 = trail.tp1 /\ t \in TrailType
      BY <1>1, <1>7 DEF TrailType
    <2>2. QED
      BY <1>7, <2>1
  <1>8. CASE t = [trail EXCEPT !.mfe = best]
    BY <1>1, <1>8 DEF TrailType
  <1>9. QED
    BY <1>6, <1>7, <1>8

\* The stop a trail stands at once TP1 protects it is not before the entry.
Protected(trail, signal, profile) ==
    trail.tp1 /\ profile.be => ~Beyond(signal.direction, signal.entry, trail.sl)

\* A candle of the trail, case by case (_simulate_with_giveback_trailing).
LEMMA TrailCases ==
    ASSUME NEW signal, Sound(signal), NEW c \in Ohlc, NEW giveback \in Nat,
           NEW profile, ProfileOK(profile), NEW trail \in TrailType,
           trail.result = NeverClosed, Protected(trail, signal, profile),
           NEW dir, dir = signal.direction,
           NEW expired, expired = PastExpiry(signal.created_at, c.time),
           NEW safe, safe = (trail.tp1 /\ profile.be),
           NEW stop, stop = (IF safe THEN trail.sl ELSE signal.sl),
           NEW tp1, tp1 = (trail.tp1 \/ Reached(dir, c, signal.tp1)),
           NEW won, won = (tp1 /\ Reached(dir, c, signal.tp2)),
           NEW t, t = TrailStep(trail, signal, c, giveback, profile)
    PROVE  /\ t \in TrailType
           /\ expired => t.result = IF safe THEN Result("BREAKEVEN", ProtectedRR(signal, profile), c.time)
                                    ELSE Result("EXPIRED", 0, c.time)
           /\ ~expired /\ won => t.result = Result("WIN_FULL", signal.rr, c.time)
           /\ ~expired /\ ~won /\ Stopped(dir, c, stop) /\ ~safe =>
                t.result = Result("LOSS", -1000, c.time)
           /\ ~expired /\ ~won /\ Stopped(dir, c, stop) /\ safe =>
                \E rr \in Int : /\ rr >= ProtectedRR(signal, profile)
                                /\ t.result = Result("BREAKEVEN", rr, c.time)
           /\ ~expired /\ ~won /\ ~Stopped(dir, c, stop) =>
                t.result = NeverClosed /\ t.tp1 = tp1 /\ Protected(t, signal, profile)
  <1> DEFINE Closed(o, r) == [trail EXCEPT !.result = Result(o, r, c.time)]
             moved == IF tp1 /\ ~trail.tp1
                      THEN [trail EXCEPT !.tp1 = TRUE,
                                 !.sl = IF profile.be THEN signal.entry ELSE signal.sl]
                      ELSE trail
  <1>1. /\ signal.entry \in Int /\ signal.sl \in Int /\ signal.rr \in Nat /\ c.time \in Nat
        /\ trail.mfe \in Int /\ trail.sl \in Int /\ trail.tp1 \in BOOLEAN
        /\ trail.result \in ResultType /\ profile.be \in BOOLEAN
    BY DEF Sound, Ohlc, TrailType, ProfileOK
  <1>2. ASSUME NEW o \in SignalOutcome, NEW r \in Int, Signed(o, r)
        PROVE  Closed(o, r) \in TrailType /\ Closed(o, r).result = Result(o, r, c.time)
    <2>1. PICK x : x = Result(o, r, c.time)
      OBVIOUS
    <2>2. x.outcome = o /\ x.rr = r /\ x \in [outcome : SignalOutcome, rr : Int, close : Int]
      BY <1>1, <2>1 DEF Result
    <2>3. x \in ResultType
      BY <1>2, <2>2, Zenon DEF ResultType
    <2>4. QED
      BY <1>1, <2>1, <2>3 DEF TrailType
  <1>3. PICK P \in Nat : P = ProtectedRR(signal, profile)
    BY RatiosTyped
  <1>4. CASE expired
    <2>1. t = IF safe THEN Closed("BREAKEVEN", P) ELSE Closed("EXPIRED", 0)
      BY <1>3, <1>4 DEF TrailStep
    <2> HIDE DEF Closed
    <2>2. QED
      BY <1>2, <1>3, <1>4, <2>1 DEF SignalOutcome, Signed
  <1>5. CASE ~expired /\ won
    <2>1. t = Closed("WIN_FULL", signal.rr)
      BY <1>5 DEF TrailStep
    <2> HIDE DEF Closed
    <2>2. QED
      BY <1>1, <1>2, <1>5, <2>1 DEF SignalOutcome, Signed
  <1>6. CASE ~expired /\ ~won /\ Stopped(dir, c, stop)
    <2>1. PICK q \in Int : q = RrAtPrice(signal, stop)
      BY <1>1, RatiosTyped
    <2>2. PICK r \in Int : r = Larger(P, q) /\ r >= P
      BY DEF Larger
    <2>3. t = IF safe THEN Closed("BREAKEVEN", r) ELSE Closed("LOSS", -1000)
      <3>1. t = IF safe THEN Closed("BREAKEVEN", Larger(ProtectedRR(signal, profile),
                                                        RrAtPrice(signal, stop)))
                ELSE Closed("LOSS", -1000)
        <4>1. CASE safe
          BY <1>6, <4>1 DEF TrailStep
        <4>2. CASE ~safe
          BY <1>6, <4>2 DEF TrailStep
        <4>3. QED
          BY <4>1, <4>2
      <3>2. QED
        BY <1>3, <2>1, <2>2, <3>1
    <2> HIDE DEF Closed
    <2>4. QED
      BY <1>2, <1>3, <1>6, <2>2, <2>3 DEF SignalOutcome, Signed
  <1>7. CASE ~expired /\ ~won /\ ~Stopped(dir, c, stop)
    <2>1. t = IF moved.tp1 /\ profile.be THEN Advance(moved, signal, c, giveback) ELSE moved
      BY <1>7 DEF TrailStep
    <2>2. /\ moved \in TrailType /\ moved.tp1 = tp1 /\ moved.result = NeverClosed
          /\ Protected(moved, signal, profile)
      <3>1. CASE tp1 /\ ~trail.tp1
        <4>1. PICK sl \in Int : sl = IF profile.be THEN signal.entry ELSE signal.sl
          BY <1>1
        <4>2. moved = [trail EXCEPT !.tp1 = TRUE, !.sl = sl]
          BY <3>1, <4>1
        <4>3. /\ moved \in TrailType /\ moved.tp1 = TRUE /\ moved.sl = sl
              /\ moved.result = NeverClosed
          BY <1>1, <4>2 DEF TrailType
        <4> HIDE DEF moved
        <4>4. Protected(moved, signal, profile)
          BY <1>1, <4>1, <4>3 DEF Protected, Beyond
        <4>5. QED
          BY <3>1, <4>3, <4>4
      <3>2. CASE ~(tp1 /\ ~trail.tp1)
        <4>1. moved = trail
          BY <3>2
        <4>2. tp1 = trail.tp1
          BY <1>1, <3>2
        <4> HIDE DEF moved
        <4>3. QED
          BY <4>1, <4>2
      <3>3. QED
        BY <3>1, <3>2
    <2> HIDE DEF moved
    <2>3. CASE moved.tp1 /\ profile.be
      <3>1. t = Advance(moved, signal, c, giveback)
        BY <2>1, <2>3
      <3>2. /\ t \in TrailType /\ t.result = moved.result /\ t.tp1 = moved.tp1
            /\ t.sl = moved.sl \/ Beyond(signal.direction, t.sl, moved.sl)
        BY <2>2, <3>1, AdvanceEffect
      <3>3. t.sl \in Int /\ moved.sl \in Int
        BY <2>2, <3>2 DEF TrailType
      <3>4. ~Beyond(signal.direction, signal.entry, moved.sl)
        BY <2>2, <2>3 DEF Protected
      <3>5. ~Beyond(signal.direction, signal.entry, t.sl)
        BY <1>1, <3>2, <3>3, <3>4 DEF Beyond
      <3>6. QED
        BY <1>7, <2>2, <3>2, <3>5 DEF Protected
    <2>4. CASE ~(moved.tp1 /\ profile.be)
      <3>1. t = moved
        BY <2>1, <2>4
      <3>2. QED
        BY <1>7, <2>2, <3>1
    <2>5. QED
      BY <2>3, <2>4
  <1>8. QED
    BY <1>4, <1>5, <1>6, <1>7

\* The levels lie in order, so a candle that reaches a far one has reached
\* those before it.
LEMMA LevelsInOrder ==
    ASSUME NEW signal, Sound(signal), NEW c \in Ohlc, NEW dir, dir = signal.direction
    PROVE  /\ Reached(dir, c, signal.tp2) => Reached(dir, c, signal.tp1)
           /\ Stopped(dir, c, signal.sl) => Stopped(dir, c, signal.entry)
           /\ \A sl \in Int : ~Beyond(dir, signal.entry, sl) /\ Stopped(dir, c, signal.entry)
                              => Stopped(dir, c, sl)
  <1>1. /\ signal.entry \in Int /\ signal.sl \in Int /\ signal.tp1 \in Int /\ signal.tp2 \in Int
        /\ dir \in {"LONG", "SHORT"}
        /\ Beyond(dir, signal.tp2, signal.tp1) /\ Beyond(dir, signal.entry, signal.sl)
    BY DEF Sound
  <1>2. c.high \in Price /\ c.low \in Price
    BY DEF Ohlc
  <1>3. PICK hi \in Int, lo \in Int : hi = c.high /\ lo = c.low
    <2>1. \A x \in Price : x \in Int
      BY PriceInt
    <2>2. c.high \in Int /\ c.low \in Int
      BY <1>2, <2>1, Zenon
    <2>3. QED
      BY <2>2
  <1>4. PICK e \in Int, s \in Int, t \in Int, u \in Int :
           e = signal.entry /\ s = signal.sl /\ t = signal.tp1 /\ u = signal.tp2
    BY <1>1
  <1>5. Beyond(dir, u, t) /\ Beyond(dir, e, s)
    BY <1>1, <1>4
  <1>6. Reached(dir, c, u) => Reached(dir, c, t)
    BY <1>1, <1>3, <1>5 DEF Reached, Favourable, Beyond
  <1>7. Stopped(dir, c, s) => Stopped(dir, c, e)
    BY <1>1, <1>3, <1>5 DEF Stopped, Adverse, Beyond
  <1>8. \A sl \in Int : ~Beyond(dir, e, sl) /\ Stopped(dir, c, e) => Stopped(dir, c, sl)
    BY <1>1, <1>3 DEF Stopped, Adverse, Beyond
  <1>9. QED
    BY <1>4, <1>6, <1>7, <1>8

\* The candle as the lifecycle policy sees it.
LEMMA SeenCases ==
    ASSUME NEW signal, Sound(signal), NEW c \in Ohlc, NEW dir, dir = signal.direction,
           NEW k, k = Seen(signal, c)
    PROVE  /\ k.toward = "tp2" <=> Reached(dir, c, signal.tp2)
           /\ k.toward = "tp1" <=> Reached(dir, c, signal.tp1) /\ ~Reached(dir, c, signal.tp2)
           /\ k.against = "stop" <=> Stopped(dir, c, signal.sl)
           /\ k.against # "none" <=> Stopped(dir, c, signal.entry)
  <1>1. /\ Stopped(dir, c, signal.sl) => Stopped(dir, c, signal.entry)
    BY LevelsInOrder
  <1>2. k.toward = CASE Reached(dir, c, signal.tp2) -> "tp2"
                      [] ~Reached(dir, c, signal.tp2) /\ Reached(dir, c, signal.tp1) -> "tp1"
                      [] OTHER -> "none"
    BY DEF Seen
  <1>3. k.against = CASE Stopped(dir, c, signal.sl) -> "stop"
                      [] ~Stopped(dir, c, signal.sl) /\ Stopped(dir, c, signal.entry) -> "entry"
                      [] OTHER -> "none"
    BY DEF Seen
  <1>4. /\ Reached(dir, c, signal.tp2) => k.toward = "tp2"
        /\ Reached(dir, c, signal.tp1) /\ ~Reached(dir, c, signal.tp2) => k.toward = "tp1"
        /\ ~Reached(dir, c, signal.tp1) /\ ~Reached(dir, c, signal.tp2) => k.toward = "none"
    BY <1>2
  <1>5. /\ Stopped(dir, c, signal.sl) => k.against = "stop"
        /\ Stopped(dir, c, signal.entry) /\ ~Stopped(dir, c, signal.sl) => k.against = "entry"
        /\ ~Stopped(dir, c, signal.entry) /\ ~Stopped(dir, c, signal.sl) => k.against = "none"
    BY <1>3
  <1>6. QED
    BY <1>1, <1>4, <1>5

\* A trade that is over, and how.
Over(w, outcome, rr, now) ==
    ~IsOpen(w) /\ w.outcome = outcome /\ w.realized_rr = rr /\ w.closed_at = now

Running(w, created) ==
    w \in Trade /\ IsOpen(w) /\ w.outcome = "none" /\ w.created_at = created

\* Settling a trade closes it with the outcome, the R and the time given.
LEMMA SettleEffect ==
    ASSUME NEW w \in Trade, NEW st \in ClosedStatus, NEW o \in SignalOutcome,
           NEW r \in RealizedRR, NEW now \in Int, NEW v, v = Settle(w, st, o, r, now)
    PROVE  v \in Trade /\ v.created_at = w.created_at /\ Over(v, o, r, now)
  <1>1. v = [w EXCEPT !.status = st, !.outcome = o, !.realized_rr = r, !.closed_at = now]
    BY DEF Settle
  <1>2. /\ v.created_at = w.created_at /\ v.status = st /\ v.outcome = o
        /\ v.realized_rr = r /\ v.closed_at = now
    BY <1>1 DEF Trade
  <1>3. st \in OpenStatus \cup ClosedStatus /\ o \in SignalOutcome \cup {"none"}
        /\ r \in RealizedRR \cup {"none"}
    OBVIOUS
  <1>4. v \in Trade
    BY <1>1, <1>3 DEF Trade
  <1>5. ~IsOpen(v)
    BY <1>2 DEF IsOpen, OpenStatus, ClosedStatus
  <1>6. QED
    BY <1>2, <1>4, <1>5 DEF Over

\* A candle of the plain replay, case by case (step_signal_state).
LEMMA ReplayCases ==
    ASSUME NEW signal, Sound(signal), NEW c \in Ohlc, NEW be \in BOOLEAN,
           NEW w, Running(w, signal.created_at), NEW dir, dir = signal.direction,
           NEW expired, expired = PastExpiry(signal.created_at, c.time),
           NEW hit, hit = (w.status = "TP1_HIT"),
           NEW v, v = StepSignalState(w, Seen(signal, c), be, c.time)
    PROVE  /\ v \in Trade /\ v.created_at = signal.created_at
           /\ expired /\ hit /\ be => Over(v, "BREAKEVEN", "protected", c.time)
           /\ expired /\ ~(hit /\ be) => Over(v, "EXPIRED", "zero", c.time)
           /\ ~expired /\ Reached(dir, c, signal.tp2) => Over(v, "WIN_FULL", "weighted", c.time)
           /\ ~expired /\ ~Reached(dir, c, signal.tp2) /\ ~(hit /\ be) /\ Stopped(dir, c, signal.sl)
              => Over(v, "LOSS", "minus_one", c.time)
           /\ ~expired /\ ~Reached(dir, c, signal.tp2) /\ hit /\ be /\ Stopped(dir, c, signal.entry)
              => Over(v, "BREAKEVEN", "protected", c.time)
           /\ ~expired /\ ~Reached(dir, c, signal.tp2) /\ ~hit /\ ~Stopped(dir, c, signal.sl)
              => Running(v, signal.created_at)
                 /\ (v.status = "TP1_HIT" <=> Reached(dir, c, signal.tp1))
           /\ ~expired /\ ~Reached(dir, c, signal.tp2) /\ hit /\ ~be /\ ~Stopped(dir, c, signal.sl)
              => v = w
           /\ ~expired /\ ~Reached(dir, c, signal.tp2) /\ hit /\ be /\ ~Stopped(dir, c, signal.entry)
              => v = w
  <1>1. PICK k : k = Seen(signal, c)
    OBVIOUS
  <1>2. /\ k.toward = "tp2" <=> Reached(dir, c, signal.tp2)
        /\ k.toward = "tp1" <=> Reached(dir, c, signal.tp1) /\ ~Reached(dir, c, signal.tp2)
        /\ k.against = "stop" <=> Stopped(dir, c, signal.sl)
        /\ k.against # "none" <=> Stopped(dir, c, signal.entry)
    BY <1>1, SeenCases
  <1>3. /\ w \in Trade /\ w.status \in OpenStatus /\ w.outcome = "none"
        /\ w.created_at = signal.created_at
    BY DEF Running, IsOpen
  <1>4. PICK now \in Nat : now = c.time
    <2>1. c.time \in Nat
      BY DEF Ohlc
    <2>2. QED
      BY <2>1
  <1>5. ASSUME NEW st \in ClosedStatus, NEW o \in SignalOutcome, NEW r \in RealizedRR,
               v = Settle(w, st, o, r, now)
        PROVE  v \in Trade /\ v.created_at = signal.created_at /\ Over(v, o, r, now)
    BY <1>3, <1>5, SettleEffect
  <1>6. v = StepSignalState(w, k, be, now)
    BY <1>1, <1>4
  <1>7. expired = PastExpiry(w.created_at, now)
    BY <1>3, <1>4
  <1>8. w.status = "TRIGGERED" \/ w.status = "TP1_HIT"
    BY <1>3 DEF OpenStatus
  <1>9. CASE expired
    <2>1. v = Expire(w, be, now)
      BY <1>6, <1>7, <1>9 DEF StepSignalState
    <2>2. CASE hit /\ be
      <3>1. v = Settle(w, "EXPIRED", "BREAKEVEN", "protected", now)
        BY <2>1, <2>2 DEF Expire
      <3>2. QED
        BY <1>4, <1>5, <1>9, <2>2, <3>1 DEF ClosedStatus, SignalOutcome, RealizedRR
    <2>3. CASE ~(hit /\ be)
      <3>1. v = Settle(w, "EXPIRED", "EXPIRED", "zero", now)
        BY <1>8, <2>1, <2>3 DEF Expire
      <3>2. QED
        BY <1>4, <1>5, <1>9, <2>3, <3>1 DEF ClosedStatus, SignalOutcome, RealizedRR
    <2>4. QED
      BY <2>2, <2>3
  <1>10. CASE ~expired /\ ~hit
    <2>1. v = StepTriggered(w, k, now)
      BY <1>6, <1>7, <1>8, <1>10 DEF StepSignalState
    <2>2. CASE k.toward = "tp2"
      <3>1. v = Settle(w, "TP2_HIT", "WIN_FULL", "weighted", now)
        BY <2>1, <2>2 DEF StepTriggered
      <3>2. QED
        BY <1>2, <1>4, <1>5, <1>10, <2>2, <3>1 DEF ClosedStatus, SignalOutcome, RealizedRR
    <2>3. CASE k.toward # "tp2" /\ k.against = "stop"
      <3>1. v = Settle(w, "SL_HIT", "LOSS", "minus_one", now)
        BY <2>1, <2>3 DEF StepTriggered
      <3>2. QED
        BY <1>2, <1>4, <1>5, <1>10, <2>3, <3>1 DEF ClosedStatus, SignalOutcome, RealizedRR
    <2>4. CASE k.toward = "tp1" /\ k.against # "stop"
      <3>1. v = [w EXCEPT !.status = "TP1_HIT"]
        BY <2>1, <2>4 DEF StepTriggered
      <3>2. /\ v \in Trade /\ v.created_at = w.created_at /\ v.status = "TP1_HIT"
            /\ v.outcome = "none"
        BY <1>3, <3>1 DEF Trade, OpenStatus
      <3>3. Running(v, signal.created_at)
        BY <1>3, <3>2 DEF Running, IsOpen, OpenStatus
      <3>4. QED
        BY <1>2, <1>3, <1>10, <2>4, <3>2, <3>3
    <2>5. CASE k.toward # "tp2" /\ k.toward # "tp1" /\ k.against # "stop"
      <3>1. v = w
        BY <2>1, <2>5 DEF StepTriggered
      <3>2. QED
        BY <1>2, <1>3, <1>10, <2>5, <3>1
    <2>6. QED
      BY <2>2, <2>3, <2>4, <2>5
  <1>11. CASE ~expired /\ hit
    <2>1. v = StepTp1Hit(w, k, be, now)
      BY <1>6, <1>7, <1>11 DEF StepSignalState
    <2>2. CASE k.toward = "tp2"
      <3>1. v = Settle(w, "TP2_HIT", "WIN_FULL", "weighted", now)
        BY <2>1, <2>2 DEF StepTp1Hit
      <3>2. QED
        BY <1>2, <1>4, <1>5, <1>11, <2>2, <3>1 DEF ClosedStatus, SignalOutcome, RealizedRR
    <2>3. CASE k.toward # "tp2" /\ be /\ k.against # "none"
      <3>1. v = Settle(w, "SL_HIT", "BREAKEVEN", "protected", now)
        BY <2>1, <2>3 DEF StepTp1Hit
      <3>2. QED
        BY <1>2, <1>4, <1>5, <1>11, <2>3, <3>1 DEF ClosedStatus, SignalOutcome, RealizedRR
    <2>4. CASE k.toward # "tp2" /\ ~be /\ k.against = "stop"
      <3>1. v = Settle(w, "SL_HIT", "LOSS", "minus_one", now)
        BY <2>1, <2>4 DEF StepTp1Hit
      <3>2. QED
        BY <1>2, <1>4, <1>5, <1>11, <2>4, <3>1 DEF ClosedStatus, SignalOutcome, RealizedRR
    <2>5. CASE k.toward # "tp2" /\ ~(be /\ k.against # "none") /\ ~(~be /\ k.against = "stop")
      <3>1. v = w
        BY <2>1, <2>5 DEF StepTp1Hit
      <3>2. QED
        BY <1>2, <1>3, <1>11, <2>5, <3>1
    <2>6. QED
      BY <2>2, <2>3, <2>4, <2>5
  <1>12. QED
    BY <1>9, <1>10, <1>11

-----------------------------------------------------------------------------
(***************************************************************************)
(* The simulations, candle after candle                                    *)
(***************************************************************************)
\* The result of a trade that never closed.
LEMMA NeverClosedTyped ==
    NeverClosed \in ResultType /\ NeverClosed.close = NoClose /\ NoClose \in Int
    /\ NeverClosed.outcome = "EXPIRED" /\ NeverClosed.rr = 0
  BY DEF NeverClosed, Result, ResultType, SignalOutcome, NoClose, Signed

\* The fields of a result.
LEMMA ResultFields ==
    ASSUME NEW o, NEW r, NEW c
    PROVE  Result(o, r, c).outcome = o /\ Result(o, r, c).rr = r /\ Result(o, r, c).close = c
  BY DEF Result

\* A candle closes the trail at its own time or leaves it open.
LEMMA TrailStepCloses ==
    ASSUME NEW signal, Sound(signal), NEW c \in Ohlc, NEW giveback \in Nat,
           NEW profile, ProfileOK(profile), NEW trail \in TrailType,
           trail.result = NeverClosed, Protected(trail, signal, profile),
           NEW t, t = TrailStep(trail, signal, c, giveback, profile)
    PROVE  /\ t \in TrailType
           /\ \/ t.result = NeverClosed /\ Protected(t, signal, profile)
              \/ t.result # NeverClosed /\ t.result.close = c.time
  <1>1. PICK dir : dir = signal.direction
    OBVIOUS
  <1>2. PICK expired : expired = PastExpiry(signal.created_at, c.time)
    OBVIOUS
  <1>3. PICK safe : safe = (trail.tp1 /\ profile.be)
    OBVIOUS
  <1>4. PICK stop : stop = (IF safe THEN trail.sl ELSE signal.sl)
    OBVIOUS
  <1>5. PICK tp1 : tp1 = (trail.tp1 \/ Reached(dir, c, signal.tp1))
    OBVIOUS
  <1>6. PICK won : won = (tp1 /\ Reached(dir, c, signal.tp2))
    OBVIOUS
  <1>7. /\ t \in TrailType
        /\ expired => t.result = IF safe THEN Result("BREAKEVEN", ProtectedRR(signal, profile), c.time)
                                 ELSE Result("EXPIRED", 0, c.time)
        /\ ~expired /\ won => t.result = Result("WIN_FULL", signal.rr, c.time)
        /\ ~expired /\ ~won /\ Stopped(dir, c, stop) /\ ~safe =>
             t.result = Result("LOSS", -1000, c.time)
        /\ ~expired /\ ~won /\ Stopped(dir, c, stop) /\ safe =>
             \E rr \in Int : /\ rr >= ProtectedRR(signal, profile)
                             /\ t.result = Result("BREAKEVEN", rr, c.time)
        /\ ~expired /\ ~won /\ ~Stopped(dir, c, stop) =>
             t.result = NeverClosed /\ t.tp1 = tp1 /\ Protected(t, signal, profile)
    BY <1>1, <1>2, <1>3, <1>4, <1>5, <1>6, TrailCases
  <1>8. \/ t.result = NeverClosed /\ Protected(t, signal, profile)
        \/ \E o, r : t.result = Result(o, r, c.time)
    BY <1>7
  <1>9. c.time \in Nat
    BY DEF Ohlc
  <1>10. ASSUME NEW o, NEW r, t.result = Result(o, r, c.time)
         PROVE  t.result # NeverClosed /\ t.result.close = c.time
    <2>1. t.result.close = c.time
      BY <1>10, ResultFields
    <2>2. NeverClosed.close = -1
      BY NeverClosedTyped DEF NoClose
    <2>3. QED
      BY <1>9, <2>1, <2>2
  <1>11. QED
    BY <1>7, <1>8, <1>10

\* The trail is open and protected, or closed at the time of a candle it read.
LEMMA TrailWalkProperties ==
    ASSUME NEW signal, Sound(signal), NEW future \in Seq(Ohlc), NEW giveback \in Nat,
           NEW profile, ProfileOK(profile),
           NEW F, F = TrailWalk(signal, future, giveback, profile)
    PROVE  \A i \in 0..Len(future) :
             /\ F[i] \in TrailType
             /\ \/ F[i].result = NeverClosed /\ Protected(F[i], signal, profile)
                \/ /\ F[i].result # NeverClosed
                   /\ \E k \in 1..i : /\ F[i].result.close = future[k].time
                                      /\ \A j \in k..i : F[j] = F[i]
  <1> DEFINE Ok(i) ==
             /\ F[i] \in TrailType
             /\ \/ F[i].result = NeverClosed /\ Protected(F[i], signal, profile)
                \/ /\ F[i].result # NeverClosed
                   /\ \E k \in 1..i : /\ F[i].result.close = future[k].time
                                      /\ \A j \in k..i : F[j] = F[i]
             S == {i \in 0..Len(future) : Ok(i)}
  <1>1. Len(future) \in Nat /\ \A i \in 1..Len(future) : future[i] \in Ohlc
    BY LenProperties, ElementOfSeq
  <1>2. /\ F[0] = NewTrail(signal)
        /\ \A i \in 1..Len(future) :
             F[i] = IF F[i - 1].result = NeverClosed
                    THEN TrailStep(F[i - 1], signal, future[i], giveback, profile) ELSE F[i - 1]
    BY TrailEquations
  <1>3. 0 \in S
    <2>1. signal.sl \in Int
      BY DEF Sound
    <2>2. NewTrail(signal) \in TrailType /\ NewTrail(signal).result = NeverClosed
          /\ NewTrail(signal).tp1 = FALSE
      BY <2>1, NeverClosedTyped DEF NewTrail, TrailType
    <2>3. Protected(NewTrail(signal), signal, profile)
      BY <2>2 DEF Protected
    <2>4. QED
      BY <1>1, <1>2, <2>2, <2>3
  <1>4. ASSUME NEW i \in 1..Len(future), i - 1 \in S PROVE i \in S
    <2>1. Ok(i - 1) /\ i - 1 \in 0..Len(future) /\ i \in 0..Len(future) /\ i \in Nat
      BY <1>1, <1>4
    <2>2. CASE F[i - 1].result = NeverClosed
      <3>1. F[i] = TrailStep(F[i - 1], signal, future[i], giveback, profile)
        BY <1>2, <2>2
      <3>2. F[i - 1] \in TrailType /\ Protected(F[i - 1], signal, profile)
        BY <2>1, <2>2
      <3>3. PICK u, t, c : u = F[i - 1] /\ t = F[i] /\ c = future[i]
        OBVIOUS
      <3>4. c \in Ohlc /\ u \in TrailType /\ u.result = NeverClosed /\ Protected(u, signal, profile)
            /\ t = TrailStep(u, signal, c, giveback, profile)
        BY <1>1, <2>2, <3>1, <3>2, <3>3
      <3>5. /\ t \in TrailType
            /\ \/ t.result = NeverClosed /\ Protected(t, signal, profile)
               \/ t.result # NeverClosed /\ t.result.close = c.time
        BY <3>4, TrailStepCloses
      <3>6. CASE t.result = NeverClosed /\ Protected(t, signal, profile)
        BY <2>1, <3>3, <3>5, <3>6
      <3>7. CASE t.result # NeverClosed /\ t.result.close = c.time
        <4>1. F[i].result.close = future[i].time /\ \A j \in i..i : F[j] = F[i]
          BY <2>1, <3>3, <3>7
        <4>2. i \in 1..i
          BY <2>1
        <4>3. \E k \in 1..i : /\ F[i].result.close = future[k].time
                              /\ \A j \in k..i : F[j] = F[i]
          BY <4>1, <4>2
        <4>4. QED
          BY <2>1, <3>3, <3>5, <3>7, <4>3
      <3>8. QED
        BY <3>5, <3>6, <3>7
    <2>3. CASE F[i - 1].result # NeverClosed
      <3>1. F[i] = F[i - 1]
        BY <1>2, <2>3
      <3>2. PICK k \in 1..(i - 1) : /\ F[i - 1].result.close = future[k].time
                                    /\ \A j \in k..(i - 1) : F[j] = F[i - 1]
        BY <2>1, <2>3
      <3>3. k \in 1..i /\ \A j \in k..i : j = i \/ j \in k..(i - 1)
        BY <2>1
      <3>4. \A j \in k..i : F[j] = F[i]
        BY <3>1, <3>2, <3>3
      <3>5. F[i].result.close = future[k].time
        BY <3>1, <3>2
      <3>6. QED
        BY <2>1, <2>3, <3>1, <3>3, <3>4, <3>5
    <2>4. QED
      BY <2>2, <2>3
  <1>5. 0..Len(future) \subseteq S
    <2> HIDE DEF S
    <2>1. QED
      BY <1>1, <1>3, <1>4, IntervalInduction
  <1>6. QED
    BY <1>5

\* The lifecycle's tag of a loss.
LossIsMinusOne(t) == t.outcome = "LOSS" <=> t.realized_rr = "minus_one"

\* The replay closes at a candle and stays closed.
LEMMA ReplayWalkProperties ==
    ASSUME NEW signal, Sound(signal), NEW future \in Seq(Ohlc),
           NEW profile, ProfileOK(profile),
           NEW F, F = ReplayWalk(signal, future, profile)
    PROVE  \A i \in 0..Len(future) :
             \/ Running(F[i], signal.created_at)
             \/ /\ ~IsOpen(F[i]) /\ F[i].outcome \in SignalOutcome
                /\ F[i].realized_rr \in RealizedRR /\ LossIsMinusOne(F[i])
                /\ \E k \in 1..i : /\ F[i].closed_at = future[k].time
                                   /\ \A j \in k..i : F[j] = F[i]
  <1> DEFINE Ok(i) ==
             \/ Running(F[i], signal.created_at)
             \/ /\ ~IsOpen(F[i]) /\ F[i].outcome \in SignalOutcome
                /\ F[i].realized_rr \in RealizedRR /\ LossIsMinusOne(F[i])
                /\ \E k \in 1..i : /\ F[i].closed_at = future[k].time
                                   /\ \A j \in k..i : F[j] = F[i]
             S == {i \in 0..Len(future) : Ok(i)}
  <1>1. Len(future) \in Nat /\ \A i \in 1..Len(future) : future[i] \in Ohlc
    BY LenProperties, ElementOfSeq
  <1>2. /\ F[0] = NewTrade(signal.created_at)
        /\ \A i \in 1..Len(future) :
             F[i] = IF IsOpen(F[i - 1])
                    THEN StepSignalState(F[i - 1], Seen(signal, future[i]), profile.be, future[i].time)
                    ELSE F[i - 1]
    BY ReplayEquations
  <1>3. 0 \in S
    <2>1. signal.created_at \in Nat
      BY DEF Sound
    <2>2. PICK c \in Nat : c = signal.created_at
      BY <2>1
    <2>3. Running(NewTrade(c), c)
      BY DEF Running, NewTrade, Trade, IsOpen, OpenStatus
    <2>4. QED
      BY <1>1, <1>2, <2>2, <2>3
  <1>4. ASSUME NEW i \in 1..Len(future), i - 1 \in S PROVE i \in S
    <2>1. Ok(i - 1) /\ i - 1 \in 0..Len(future) /\ i \in 0..Len(future) /\ i \in Nat
      BY <1>1, <1>4
    <2>2. CASE IsOpen(F[i - 1])
      <3>1. F[i] = StepSignalState(F[i - 1], Seen(signal, future[i]), profile.be, future[i].time)
        BY <1>2, <2>2
      <3>2. Running(F[i - 1], signal.created_at)
        BY <2>1, <2>2
      <3>3. PICK u, t, c : u = F[i - 1] /\ t = F[i] /\ c = future[i]
        OBVIOUS
      <3>4. /\ c \in Ohlc /\ Running(u, signal.created_at)
            /\ t = StepSignalState(u, Seen(signal, c), profile.be, c.time)
        BY <1>1, <3>1, <3>2, <3>3
      <3>5. \/ Running(t, signal.created_at)
            \/ \E o \in SignalOutcome, r \in RealizedRR :
                 Over(t, o, r, c.time) /\ (o = "LOSS" <=> r = "minus_one")
        <4>1. PICK be \in BOOLEAN : be = profile.be
          BY DEF ProfileOK
        <4>2. PICK dir : dir = signal.direction
          OBVIOUS
        <4>3. PICK expired : expired = PastExpiry(signal.created_at, c.time)
          OBVIOUS
        <4>4. PICK hit : hit = (u.status = "TP1_HIT")
          OBVIOUS
        <4>5. t = StepSignalState(u, Seen(signal, c), be, c.time)
          BY <3>4, <4>1
        <4>6. /\ expired /\ hit /\ be => Over(t, "BREAKEVEN", "protected", c.time)
              /\ expired /\ ~(hit /\ be) => Over(t, "EXPIRED", "zero", c.time)
              /\ ~expired /\ Reached(dir, c, signal.tp2) => Over(t, "WIN_FULL", "weighted", c.time)
              /\ ~expired /\ ~Reached(dir, c, signal.tp2) /\ ~(hit /\ be) /\ Stopped(dir, c, signal.sl)
                 => Over(t, "LOSS", "minus_one", c.time)
              /\ ~expired /\ ~Reached(dir, c, signal.tp2) /\ hit /\ be /\ Stopped(dir, c, signal.entry)
                 => Over(t, "BREAKEVEN", "protected", c.time)
              /\ ~expired /\ ~Reached(dir, c, signal.tp2) /\ ~hit /\ ~Stopped(dir, c, signal.sl)
                 => Running(t, signal.created_at)
              /\ ~expired /\ ~Reached(dir, c, signal.tp2) /\ hit /\ ~be /\ ~Stopped(dir, c, signal.sl)
                 => t = u
              /\ ~expired /\ ~Reached(dir, c, signal.tp2) /\ hit /\ be /\ ~Stopped(dir, c, signal.entry)
                 => t = u
          BY <3>4, <4>2, <4>3, <4>4, <4>5, ReplayCases
        <4>7. QED
          BY <3>4, <4>6 DEF SignalOutcome, RealizedRR
      <3>6. CASE Running(t, signal.created_at)
        BY <2>1, <3>3, <3>6
      <3>7. CASE \E o \in SignalOutcome, r \in RealizedRR :
                   Over(t, o, r, c.time) /\ (o = "LOSS" <=> r = "minus_one")
        <4>1. ~IsOpen(t) /\ t.outcome \in SignalOutcome /\ t.realized_rr \in RealizedRR
              /\ t.closed_at = c.time /\ LossIsMinusOne(t)
          BY <3>7 DEF Over, LossIsMinusOne
        <4>2. i \in 1..i /\ F[i].closed_at = future[i].time /\ \A j \in i..i : F[j] = F[i]
          BY <2>1, <3>3, <4>1
        <4>3. \E k \in 1..i : F[i].closed_at = future[k].time /\ \A j \in k..i : F[j] = F[i]
          BY <4>2
        <4>4. QED
          BY <2>1, <3>3, <4>1, <4>3
      <3>8. QED
        BY <3>5, <3>6, <3>7
    <2>3. CASE ~IsOpen(F[i - 1])
      <3>1. F[i] = F[i - 1]
        BY <1>2, <2>3
      <3>2. /\ F[i - 1].outcome \in SignalOutcome /\ F[i - 1].realized_rr \in RealizedRR
            /\ LossIsMinusOne(F[i - 1])
            /\ \E k \in 1..(i - 1) : /\ F[i - 1].closed_at = future[k].time
                                     /\ \A j \in k..(i - 1) : F[j] = F[i - 1]
        BY <2>1, <2>3 DEF Running
      <3>3. PICK k \in 1..(i - 1) : /\ F[i - 1].closed_at = future[k].time
                                    /\ \A j \in k..(i - 1) : F[j] = F[i - 1]
        BY <3>2
      <3>4. k \in 1..i /\ \A j \in k..i : j = i \/ j \in k..(i - 1)
        BY <2>1
      <3>5. \A j \in k..i : F[j] = F[i]
        BY <3>1, <3>3, <3>4
      <3>6. F[i].closed_at = future[k].time
        BY <3>1, <3>3
      <3>7. QED
        BY <2>1, <2>3, <3>1, <3>2, <3>4, <3>5, <3>6
    <2>4. QED
      BY <2>2, <2>3
  <1>5. 0..Len(future) \subseteq S
    <2> HIDE DEF S
    <2>1. QED
      BY <1>1, <1>3, <1>4, IntervalInduction
  <1>6. QED
    BY <1>5

\* Some first candles of a future.
FirstOf(part, future) ==
    /\ part \in Seq(Ohlc) /\ Len(part) <= Len(future)
    /\ \A i \in 1..Len(part) : part[i] = future[i]

\* The runs the walks are.
IsTrail(F, signal, future, giveback, profile) ==
    /\ F[0] = NewTrail(signal)
    /\ \A i \in 1..Len(future) :
         F[i] = IF F[i - 1].result = NeverClosed
                THEN TrailStep(F[i - 1], signal, future[i], giveback, profile) ELSE F[i - 1]

IsReplay(F, signal, future, profile) ==
    /\ F[0] = NewTrade(signal.created_at)
    /\ \A i \in 1..Len(future) :
         F[i] = IF IsOpen(F[i - 1])
                THEN StepSignalState(F[i - 1], Seen(signal, future[i]), profile.be, future[i].time)
                ELSE F[i - 1]

\* The trail is such a run.
LEMMA TrailRuns ==
    ASSUME NEW signal, NEW future \in Seq(Ohlc), NEW giveback, NEW profile
    PROVE  IsTrail(TrailWalk(signal, future, giveback, profile), signal, future, giveback, profile)
  BY TrailEquations DEF IsTrail

\* The replay is such a run.
LEMMA ReplayRuns ==
    ASSUME NEW signal, NEW future \in Seq(Ohlc), NEW profile
    PROVE  IsReplay(ReplayWalk(signal, future, profile), signal, future, profile)
  BY ReplayEquations DEF IsReplay

\* Over the first candles of a future a simulation does what it does over all
\* of it.
LEMMA TrailPrefix ==
    ASSUME NEW signal, NEW future \in Seq(Ohlc), NEW part, FirstOf(part, future),
           NEW giveback, NEW profile, NEW F, IsTrail(F, signal, future, giveback, profile),
           NEW G, IsTrail(G, signal, part, giveback, profile), NEW m, m = Len(part)
    PROVE  \A i \in 0..m : G[i] = F[i]
  <1> DEFINE S == {i \in 0..m : G[i] = F[i]}
  <1>1. part \in Seq(Ohlc) /\ m \in Nat /\ Len(future) \in Nat /\ m <= Len(future)
    BY LenProperties DEF FirstOf
  <1>2. 0 \in S
    BY <1>1 DEF IsTrail
  <1>3. ASSUME NEW i \in 1..m, i - 1 \in S PROVE i \in S
    <2>1. G[i - 1] = F[i - 1] /\ i \in 1..Len(future) /\ i \in 0..m /\ i \in 1..Len(part)
      BY <1>1, <1>3
    <2>2. part[i] = future[i]
      BY <2>1 DEF FirstOf
    <2>3. G[i] = F[i]
      BY <2>1, <2>2, Zenon DEF IsTrail
    <2>4. QED
      BY <2>1, <2>3
  <1>4. 0..m \subseteq S
    <2> HIDE DEF S
    <2>1. QED
      BY <1>1, <1>2, <1>3, IntervalInduction
  <1>5. QED
    BY <1>4

\* The same of the replay.
LEMMA ReplayPrefix ==
    ASSUME NEW signal, NEW future \in Seq(Ohlc), NEW part, FirstOf(part, future),
           NEW profile, NEW F, IsReplay(F, signal, future, profile),
           NEW G, IsReplay(G, signal, part, profile), NEW m, m = Len(part)
    PROVE  \A i \in 0..m : G[i] = F[i]
  <1> DEFINE S == {i \in 0..m : G[i] = F[i]}
  <1>1. part \in Seq(Ohlc) /\ m \in Nat /\ Len(future) \in Nat /\ m <= Len(future)
    BY LenProperties DEF FirstOf
  <1>2. 0 \in S
    BY <1>1 DEF IsReplay
  <1>3. ASSUME NEW i \in 1..m, i - 1 \in S PROVE i \in S
    <2>1. G[i - 1] = F[i - 1] /\ i \in 1..Len(future) /\ i \in 0..m /\ i \in 1..Len(part)
      BY <1>1, <1>3
    <2>2. part[i] = future[i]
      BY <2>1 DEF FirstOf
    <2>3. G[i] = F[i]
      BY <2>1, <2>2, Zenon DEF IsReplay
    <2>4. QED
      BY <2>1, <2>3
  <1>4. 0..m \subseteq S
    <2> HIDE DEF S
    <2>1. QED
      BY <1>1, <1>2, <1>3, IntervalInduction
  <1>5. QED
    BY <1>4

\* What a simulation returns; and by the time it says the trade closed, the
\* candles opened so far are enough to say so.
LEMMA TrailResult ==
    ASSUME NEW signal, Sound(signal), NEW future, Ordered(future), NEW giveback \in Nat,
           NEW profile, ProfileOK(profile), NEW r, r = Trail(signal, future, giveback, profile)
    PROVE  /\ r \in ResultType
           /\ \A now \in Int : r.close # NoClose /\ r.close <= now =>
                Trail(signal, Until(future, now), giveback, profile).close # NoClose
  <1>1. PICK F : F = TrailWalk(signal, future, giveback, profile)
    OBVIOUS
  <1>2. PICK n \in Nat : n = Len(future)
    BY LenProperties DEF Ordered
  <1>3. r = F[n].result /\ future \in Seq(Ohlc)
    BY <1>1, <1>2 DEF Trail, Ordered
  <1>4. \A i \in 0..n :
             /\ F[i] \in TrailType
             /\ \/ F[i].result = NeverClosed /\ Protected(F[i], signal, profile)
                \/ /\ F[i].result # NeverClosed
                   /\ \E k \in 1..i : /\ F[i].result.close = future[k].time
                                      /\ \A j \in k..i : F[j] = F[i]
    BY <1>1, <1>2, <1>3, TrailWalkProperties
  <1>5. r \in ResultType
    <2>1. F[n] \in TrailType
      BY <1>4
    <2>2. QED
      BY <1>3, <2>1 DEF TrailType
  <1>6. ASSUME NEW now \in Int, r.close # NoClose, r.close <= now
        PROVE  Trail(signal, Until(future, now), giveback, profile).close # NoClose
    <2>1. r # NeverClosed
      BY <1>6, NeverClosedTyped
    <2>2. PICK k \in 1..n : F[n].result.close = future[k].time /\ \A j \in k..n : F[j] = F[n]
      BY <1>3, <1>4, <2>1
    <2>3. PICK part : part = Until(future, now)
      OBVIOUS
    <2>4. /\ Ordered(part) /\ Len(part) \in 0..n
          /\ \A i \in 1..Len(part) : part[i] = future[i]
          /\ \A i \in 1..n : future[i].time <= now <=> i <= Len(part)
      BY <1>2, <2>3, UntilOrdered
    <2>5. k <= Len(part)
      BY <1>3, <1>6, <2>2, <2>4
    <2>6. FirstOf(part, future)
      BY <1>2, <2>4 DEF Ordered, FirstOf
    <2>7. PICK G : G = TrailWalk(signal, part, giveback, profile)
      OBVIOUS
    <2>8. \A i \in 0..Len(part) : G[i] = F[i]
      <3>1. part \in Seq(Ohlc)
        BY <2>6 DEF FirstOf
      <3>2. IsTrail(F, signal, future, giveback, profile)
        BY <1>1, <1>3, TrailRuns
      <3>3. IsTrail(G, signal, part, giveback, profile)
        BY <2>7, <3>1, TrailRuns
      <3>4. PICK m : m = Len(part)
        OBVIOUS
      <3>5. \A i \in 0..m : G[i] = F[i]
        BY <1>3, <2>6, <3>2, <3>3, <3>4, TrailPrefix
      <3>6. QED
        BY <3>4, <3>5
    <2>9. G[Len(part)] = F[n]
      BY <2>2, <2>4, <2>5, <2>8
    <2>10. Trail(signal, part, giveback, profile) = r
      BY <1>3, <2>7, <2>9 DEF Trail
    <2>11. QED
      BY <1>6, <2>3, <2>10
  <1>7. QED
    BY <1>5, <1>6

\* The same of the replay.
LEMMA ReplayResult ==
    ASSUME NEW signal, Sound(signal), NEW future, Ordered(future),
           NEW profile, ProfileOK(profile), NEW r, r = Replay(signal, future, profile)
    PROVE  /\ r \in ResultType
           /\ \A now \in Int : r.close # NoClose /\ r.close <= now =>
                Replay(signal, Until(future, now), profile).close # NoClose
  <1>1. PICK F : F = ReplayWalk(signal, future, profile)
    OBVIOUS
  <1>2. PICK n \in Nat : n = Len(future)
    BY LenProperties DEF Ordered
  <1>3. future \in Seq(Ohlc)
    BY DEF Ordered
  <1>4. r = IF F[n].outcome = "none" THEN NeverClosed
            ELSE Result(F[n].outcome, RealizedR(F[n].realized_rr, signal, profile), F[n].closed_at)
    BY <1>1, <1>2 DEF Replay
  <1>5. \A i \in 0..n :
             \/ Running(F[i], signal.created_at)
             \/ /\ ~IsOpen(F[i]) /\ F[i].outcome \in SignalOutcome
                /\ F[i].realized_rr \in RealizedRR /\ LossIsMinusOne(F[i])
                /\ \E k \in 1..i : /\ F[i].closed_at = future[k].time
                                   /\ \A j \in k..i : F[j] = F[i]
    BY <1>1, <1>2, <1>3, ReplayWalkProperties
  <1>6. CASE Running(F[n], signal.created_at)
    <2>1. r = NeverClosed
      BY <1>4, <1>6 DEF Running
    <2>2. QED
      BY <2>1, NeverClosedTyped
  <1>7. CASE ~Running(F[n], signal.created_at)
    <2>1. /\ ~IsOpen(F[n]) /\ F[n].outcome \in SignalOutcome
          /\ F[n].realized_rr \in RealizedRR /\ LossIsMinusOne(F[n])
          /\ \E k \in 1..n : /\ F[n].closed_at = future[k].time
                             /\ \A j \in k..n : F[j] = F[n]
      BY <1>5, <1>7
    <2>2. PICK k \in 1..n : F[n].closed_at = future[k].time /\ \A j \in k..n : F[j] = F[n]
      BY <2>1
    <2>3. r = Result(F[n].outcome, RealizedR(F[n].realized_rr, signal, profile), F[n].closed_at)
      BY <1>4, <2>1 DEF SignalOutcome
    <2>4. future[k].time \in Nat
      <3>1. future[k] \in Ohlc
        BY <1>2, <1>3, ElementOfSeq
      <3>2. QED
        BY <3>1 DEF Ohlc
    <2>5. /\ RealizedR(F[n].realized_rr, signal, profile) \in Int
          /\ RealizedR(F[n].realized_rr, signal, profile) < 0
               <=> F[n].realized_rr = "minus_one"
      <3>1. ProtectedRR(signal, profile) \in Nat /\ WeightedRR(signal, profile) \in Nat
        BY RatiosTyped
      <3>2. QED
        BY <3>1 DEF RealizedR
    <2>6. r \in ResultType /\ r.close = future[k].time
      <3>1. PICK o \in SignalOutcome : o = F[n].outcome
        BY <2>1
      <3>2. PICK x \in Int : x = RealizedR(F[n].realized_rr, signal, profile)
        BY <2>5
      <3>3. PICK t \in Nat : t = future[k].time
        BY <2>4
      <3>4. r = Result(o, x, t)
        BY <2>2, <2>3, <3>1, <3>2, <3>3
      <3>5. Signed(o, x)
        BY <2>1, <2>5, <3>1, <3>2 DEF Signed, LossIsMinusOne
      <3>6. /\ r \in [outcome : SignalOutcome, rr : Int, close : Int]
            /\ r.outcome = o /\ r.rr = x /\ r.close = t
        BY <3>3, <3>4 DEF Result
      <3>7. QED
        BY <3>3, <3>5, <3>6, Zenon DEF ResultType
    <2>7. ASSUME NEW now \in Int, r.close # NoClose, r.close <= now
          PROVE  Replay(signal, Until(future, now), profile).close # NoClose
      <3>1. PICK part : part = Until(future, now)
        OBVIOUS
      <3>2. /\ Ordered(part) /\ Len(part) \in 0..n
            /\ \A i \in 1..Len(part) : part[i] = future[i]
            /\ \A i \in 1..n : future[i].time <= now <=> i <= Len(part)
        BY <1>2, <3>1, UntilOrdered
      <3>3. k <= Len(part)
        BY <2>6, <2>7, <3>2
      <3>4. FirstOf(part, future)
        BY <1>2, <3>2 DEF Ordered, FirstOf
      <3>5. PICK G : G = ReplayWalk(signal, part, profile)
        OBVIOUS
      <3>6. \A i \in 0..Len(part) : G[i] = F[i]
        <4>1. part \in Seq(Ohlc)
          BY <3>4 DEF FirstOf
        <4>2. IsReplay(F, signal, future, profile)
          BY <1>1, <1>3, ReplayRuns
        <4>3. IsReplay(G, signal, part, profile)
          BY <3>5, <4>1, ReplayRuns
        <4>4. PICK m : m = Len(part)
          OBVIOUS
        <4>5. \A i \in 0..m : G[i] = F[i]
          BY <1>3, <3>4, <4>2, <4>3, <4>4, ReplayPrefix
        <4>6. QED
          BY <4>4, <4>5
      <3>7. G[Len(part)] = F[n]
        BY <2>2, <3>2, <3>3, <3>6
      <3>8. Replay(signal, part, profile) = r
        BY <1>4, <3>5, <3>7 DEF Replay
      <3>9. QED
        BY <2>7, <3>1, <3>8
    <2>8. QED
      BY <2>6, <2>7
  <1>8. QED
    BY <1>6, <1>7

\* What a simulation finds is well formed, and a close that has happened by a
\* time is found from the candles up to that time alone.
LEMMA SimulateResult ==
    ASSUME NEW signal, Sound(signal), NEW future, Ordered(future), NEW giveback \in Nat,
           NEW profile, ProfileOK(profile),
           NEW r, r = Simulate(signal, future, giveback, profile)
    PROVE  /\ r \in ResultType
           /\ \A now \in Int : r.close # NoClose /\ r.close <= now =>
                Simulate(signal, Until(future, now), giveback, profile).close # NoClose
  <1>1. CASE giveback > 0
    <2>1. \A f : Simulate(signal, f, giveback, profile) = Trail(signal, f, giveback, profile)
      BY <1>1 DEF Simulate
    <2>2. r = Trail(signal, future, giveback, profile)
      BY <2>1
    <2>3. QED
      BY <2>1, <2>2, TrailResult
  <1>2. CASE ~(giveback > 0)
    <2>1. \A f : Simulate(signal, f, giveback, profile) = Replay(signal, f, profile)
      BY <1>2 DEF Simulate
    <2>2. r = Replay(signal, future, profile)
      BY <2>1
    <2>3. QED
      BY <2>1, <2>2, ReplayResult
  <1>3. QED
    BY <1>1, <1>2

-----------------------------------------------------------------------------
(***************************************************************************)
(* The trail beside the plain replay of the same signal.  Both are open;   *)
(* or both closed at one candle; or the trail is out, protected, and the   *)
(* replay can no longer lose.                                              *)
(***************************************************************************)
BothOpen(T, W, signal, profile) ==
    /\ T \in TrailType /\ T.result = NeverClosed /\ Protected(T, signal, profile)
    /\ Running(W, signal.created_at)
    /\ T.tp1 <=> W.status = "TP1_HIT"

BothOver(T, W, P) ==
    /\ ~IsOpen(W) /\ T.result # NeverClosed
    /\ T.result.outcome = W.outcome /\ T.result.close = W.closed_at
    /\ \/ W.outcome \in {"WIN_FULL", "BREAKEVEN"} /\ T.result.rr >= P
       \/ W.outcome = "LOSS" /\ T.result.rr = -1000 /\ W.realized_rr = "minus_one"
       \/ W.outcome = "EXPIRED" /\ T.result.rr = 0 /\ W.realized_rr = "zero"

TrailOut(T, W, signal, profile, P, now) ==
    /\ profile.be /\ T.result # NeverClosed
    /\ T.result.outcome = "BREAKEVEN" /\ T.result.rr >= P
    /\ T.result.close \in Int /\ T.result.close <= now
    /\ \/ Running(W, signal.created_at) /\ W.status = "TP1_HIT"
       \/ /\ ~IsOpen(W) /\ W.outcome \in {"WIN_FULL", "BREAKEVEN"}
          /\ T.result.close <= W.closed_at

\* How a simulated trade ends.
Ends(T, outcome, rr, now) ==
    /\ T.result # NeverClosed /\ T.result.outcome = outcome
    /\ T.result.rr = rr /\ T.result.close = now

\* A trail closed with a result ends so.
LEMMA EndsWith ==
    ASSUME NEW T, NEW o, NEW r, NEW now \in Nat, T.result = Result(o, r, now)
    PROVE  Ends(T, o, r, now)
  <1>1. T.result.outcome = o /\ T.result.rr = r /\ T.result.close = now
    BY ResultFields
  <1>2. NeverClosed.close = -1
    BY NeverClosedTyped DEF NoClose
  <1>3. QED
    BY <1>1, <1>2 DEF Ends

\* Trail and replay closed by one candle with one outcome are both over.
LEMMA OverTogether ==
    ASSUME NEW T, NEW W, NEW P \in Int, NEW o, NEW r \in Int, NEW tag, NEW now,
           Ends(T, o, r, now), Over(W, o, tag, now),
           \/ o \in {"WIN_FULL", "BREAKEVEN"} /\ r >= P
           \/ o = "LOSS" /\ r = -1000 /\ tag = "minus_one"
           \/ o = "EXPIRED" /\ r = 0 /\ tag = "zero"
    PROVE  BothOver(T, W, P)
  BY DEF Ends, Over, BothOver

\* The cases of the replay's candle, as one fact.
ReplayMove(v, w, signal, c, be, dir, expired, hit) ==
    /\ expired /\ hit /\ be => Over(v, "BREAKEVEN", "protected", c.time)
    /\ expired /\ ~(hit /\ be) => Over(v, "EXPIRED", "zero", c.time)
    /\ ~expired /\ Reached(dir, c, signal.tp2) => Over(v, "WIN_FULL", "weighted", c.time)
    /\ ~expired /\ ~Reached(dir, c, signal.tp2) /\ ~(hit /\ be) /\ Stopped(dir, c, signal.sl)
       => Over(v, "LOSS", "minus_one", c.time)
    /\ ~expired /\ ~Reached(dir, c, signal.tp2) /\ hit /\ be /\ Stopped(dir, c, signal.entry)
       => Over(v, "BREAKEVEN", "protected", c.time)
    /\ ~expired /\ ~Reached(dir, c, signal.tp2) /\ ~hit /\ ~Stopped(dir, c, signal.sl)
       => Running(v, signal.created_at)
          /\ (v.status = "TP1_HIT" <=> Reached(dir, c, signal.tp1))
    /\ ~expired /\ ~Reached(dir, c, signal.tp2) /\ hit /\ ~be /\ ~Stopped(dir, c, signal.sl)
       => v = w
    /\ ~expired /\ ~Reached(dir, c, signal.tp2) /\ hit /\ be /\ ~Stopped(dir, c, signal.entry)
       => v = w

\* The cases of the replay under one name.
LEMMA ReplayMoves ==
    ASSUME NEW signal, Sound(signal), NEW c \in Ohlc, NEW be \in BOOLEAN,
           NEW w, Running(w, signal.created_at),
           NEW dir, dir = signal.direction,
           NEW expired, expired = PastExpiry(signal.created_at, c.time),
           NEW hit, hit = (w.status = "TP1_HIT"),
           NEW v, v = StepSignalState(w, Seen(signal, c), be, c.time)
    PROVE  ReplayMove(v, w, signal, c, be, dir, expired, hit)
  BY ReplayCases DEF ReplayMove

\* A candle of two open trades leaves them open, closes both with one
\* outcome, or takes the trail out ahead.
LEMMA BothStep ==
    ASSUME NEW signal, Sound(signal), NEW c \in Ohlc, NEW giveback \in Nat,
           NEW profile, ProfileOK(profile), NEW P \in Nat, P = ProtectedRR(signal, profile),
           NEW T, NEW W, BothOpen(T, W, signal, profile),
           NEW T1, T1 = TrailStep(T, signal, c, giveback, profile),
           NEW W1, W1 = StepSignalState(W, Seen(signal, c), profile.be, c.time)
    PROVE  \/ BothOpen(T1, W1, signal, profile)
           \/ BothOver(T1, W1, P)
           \/ TrailOut(T1, W1, signal, profile, P, c.time)
  <1>1. PICK dir : dir = signal.direction
    OBVIOUS
  <1>2. PICK expired : expired = PastExpiry(signal.created_at, c.time)
    OBVIOUS
  <1>3. profile.be \in BOOLEAN
    BY DEF ProfileOK
  <1>4. /\ T \in TrailType /\ T.result = NeverClosed /\ Protected(T, signal, profile)
        /\ Running(W, signal.created_at) /\ T.tp1 \in BOOLEAN /\ T.sl \in Int
        /\ (T.tp1 <=> W.status = "TP1_HIT")
    BY DEF BothOpen, TrailType
  <1>5. PICK hit \in BOOLEAN : hit = (W.status = "TP1_HIT")
    OBVIOUS
  <1>6. PICK safe \in BOOLEAN : safe = (T.tp1 /\ profile.be)
    OBVIOUS
  <1>7. PICK stop : stop = (IF safe THEN T.sl ELSE signal.sl)
    OBVIOUS
  <1>8. PICK tp1 \in BOOLEAN : tp1 = (T.tp1 \/ Reached(dir, c, signal.tp1))
    OBVIOUS
  <1>9. PICK won \in BOOLEAN : won = (tp1 /\ Reached(dir, c, signal.tp2))
    OBVIOUS
  <1>10. /\ T1 \in TrailType
         /\ expired => T1.result = IF safe THEN Result("BREAKEVEN", P, c.time)
                                   ELSE Result("EXPIRED", 0, c.time)
         /\ ~expired /\ won => T1.result = Result("WIN_FULL", signal.rr, c.time)
         /\ ~expired /\ ~won /\ Stopped(dir, c, stop) /\ ~safe =>
              T1.result = Result("LOSS", -1000, c.time)
         /\ ~expired /\ ~won /\ Stopped(dir, c, stop) /\ safe =>
              \E rr \in Int : rr >= P /\ T1.result = Result("BREAKEVEN", rr, c.time)
         /\ ~expired /\ ~won /\ ~Stopped(dir, c, stop) =>
              T1.result = NeverClosed /\ T1.tp1 = tp1 /\ Protected(T1, signal, profile)
    BY <1>1, <1>2, <1>4, <1>6, <1>7, <1>8, <1>9, TrailCases
  <1>11. W1 = StepSignalState(W, Seen(signal, c), profile.be, c.time)
    BY <1>3
  <1>12. /\ expired /\ hit /\ profile.be => Over(W1, "BREAKEVEN", "protected", c.time)
         /\ expired /\ ~(hit /\ profile.be) => Over(W1, "EXPIRED", "zero", c.time)
         /\ ~expired /\ Reached(dir, c, signal.tp2) => Over(W1, "WIN_FULL", "weighted", c.time)
         /\ ~expired /\ ~Reached(dir, c, signal.tp2) /\ ~(hit /\ profile.be) /\ Stopped(dir, c, signal.sl)
            => Over(W1, "LOSS", "minus_one", c.time)
         /\ ~expired /\ ~Reached(dir, c, signal.tp2) /\ hit /\ profile.be /\ Stopped(dir, c, signal.entry)
            => Over(W1, "BREAKEVEN", "protected", c.time)
         /\ ~expired /\ ~Reached(dir, c, signal.tp2) /\ ~hit /\ ~Stopped(dir, c, signal.sl)
            => Running(W1, signal.created_at)
               /\ (W1.status = "TP1_HIT" <=> Reached(dir, c, signal.tp1))
         /\ ~expired /\ ~Reached(dir, c, signal.tp2) /\ hit /\ ~profile.be /\ ~Stopped(dir, c, signal.sl)
            => W1 = W
         /\ ~expired /\ ~Reached(dir, c, signal.tp2) /\ hit /\ profile.be /\ ~Stopped(dir, c, signal.entry)
            => W1 = W
    <2>1. ReplayMove(W1, W, signal, c, profile.be, dir, expired, hit)
      BY <1>1, <1>2, <1>3, <1>4, <1>5, ReplayMoves
    <2>2. QED
      BY <2>1 DEF ReplayMove
  <1>13. hit = T.tp1 /\ safe = (hit /\ profile.be)
    BY <1>3, <1>4, <1>5, <1>6
  <1>14. /\ Reached(dir, c, signal.tp2) => Reached(dir, c, signal.tp1)
         /\ safe /\ Stopped(dir, c, signal.entry) => Stopped(dir, c, stop)
    <2>1. /\ Reached(dir, c, signal.tp2) => Reached(dir, c, signal.tp1)
          /\ \A sl \in Int : ~Beyond(dir, signal.entry, sl) /\ Stopped(dir, c, signal.entry)
                              => Stopped(dir, c, sl)
      BY <1>1, LevelsInOrder
    <2>2. ASSUME safe PROVE ~Beyond(dir, signal.entry, T.sl) /\ stop = T.sl
      BY <1>1, <1>4, <1>6, <1>7, <2>2 DEF Protected
    <2>3. QED
      BY <1>4, <2>1, <2>2
  <1>15. won <=> Reached(dir, c, signal.tp2)
    BY <1>8, <1>9, <1>14
  <1>16. PICK now \in Nat : now = c.time
    <2>1. c.time \in Nat
      BY DEF Ohlc
    <2>2. QED
      BY <2>1
  <1>17. PICK rr \in Nat : rr = signal.rr /\ rr >= P
    BY RatiosTyped DEF Sound
  <1>18. CASE expired /\ safe
    <2>1. Ends(T1, "BREAKEVEN", P, now) /\ Over(W1, "BREAKEVEN", "protected", now)
      BY <1>10, <1>12, <1>13, <1>16, <1>18, EndsWith
    <2>2. QED
      BY <2>1, OverTogether
  <1>19. CASE expired /\ ~safe
    <2>1. Ends(T1, "EXPIRED", 0, now) /\ Over(W1, "EXPIRED", "zero", now)
      BY <1>10, <1>12, <1>13, <1>16, <1>19, EndsWith
    <2>2. QED
      BY <2>1, OverTogether
  <1>20. CASE ~expired /\ won
    <2>1. Ends(T1, "WIN_FULL", rr, now) /\ Over(W1, "WIN_FULL", "weighted", now)
      BY <1>10, <1>12, <1>15, <1>16, <1>17, <1>20, EndsWith
    <2>2. QED
      BY <1>17, <2>1, OverTogether
  <1>21. CASE ~expired /\ ~won /\ ~safe /\ Stopped(dir, c, stop)
    <2>1. stop = signal.sl
      BY <1>7, <1>21
    <2>2. Ends(T1, "LOSS", -1000, now) /\ Over(W1, "LOSS", "minus_one", now)
      BY <1>10, <1>12, <1>13, <1>15, <1>16, <1>21, <2>1, EndsWith
    <2>3. QED
      BY <2>2, OverTogether
  <1>22. CASE ~expired /\ ~won /\ ~safe /\ ~Stopped(dir, c, stop)
    <2>1. stop = signal.sl
      BY <1>7, <1>22
    <2>2. T1.result = NeverClosed /\ T1.tp1 = tp1 /\ Protected(T1, signal, profile)
      BY <1>10, <1>22
    <2>3. CASE hit
      <3>1. W1 = W
        BY <1>12, <1>13, <1>15, <1>22, <2>1, <2>3
      <3>2. tp1 /\ W.status = "TP1_HIT"
        BY <1>5, <1>8, <1>13, <2>3
      <3>3. QED
        BY <1>4, <1>10, <2>2, <3>1, <3>2 DEF BothOpen
    <2>4. CASE ~hit
      <3>1. Running(W1, signal.created_at)
            /\ (W1.status = "TP1_HIT" <=> Reached(dir, c, signal.tp1))
        BY <1>12, <1>15, <1>22, <2>1, <2>4
      <3>2. tp1 <=> Reached(dir, c, signal.tp1)
        BY <1>8, <1>13, <2>4
      <3>3. QED
        BY <1>10, <2>2, <3>1, <3>2 DEF BothOpen
    <2>5. QED
      BY <2>3, <2>4
  <1>23. CASE ~expired /\ ~won /\ safe /\ Stopped(dir, c, stop)
    <2>1. PICK r \in Int : r >= P /\ T1.result = Result("BREAKEVEN", r, c.time)
      BY <1>10, <1>23
    <2>2. Ends(T1, "BREAKEVEN", r, now)
      BY <1>16, <2>1, EndsWith
    <2>3. CASE Stopped(dir, c, signal.entry)
      <3>1. Over(W1, "BREAKEVEN", "protected", now)
        BY <1>12, <1>13, <1>15, <1>16, <1>23, <2>3
      <3>2. QED
        BY <2>1, <2>2, <3>1, OverTogether
    <2>4. CASE ~Stopped(dir, c, signal.entry)
      <3>1. W1 = W
        BY <1>12, <1>13, <1>15, <1>23, <2>4
      <3>2. W1.status = "TP1_HIT" /\ Running(W1, signal.created_at) /\ profile.be
        BY <1>3, <1>4, <1>5, <1>13, <1>23, <3>1
      <3>3. /\ T1.result # NeverClosed /\ T1.result.outcome = "BREAKEVEN" /\ T1.result.rr >= P
            /\ T1.result.close \in Int /\ T1.result.close <= c.time
        BY <1>16, <2>1, <2>2 DEF Ends
      <3>4. TrailOut(T1, W1, signal, profile, P, c.time)
        BY <3>2, <3>3 DEF TrailOut
      <3>5. QED
        BY <3>4
    <2>5. QED
      BY <2>3, <2>4
  <1>24. CASE ~expired /\ ~won /\ safe /\ ~Stopped(dir, c, stop)
    <2>1. T1.result = NeverClosed /\ T1.tp1 = tp1 /\ Protected(T1, signal, profile)
      BY <1>10, <1>24
    <2>2. W1 = W
      BY <1>12, <1>13, <1>14, <1>15, <1>24
    <2>3. tp1 /\ W.status = "TP1_HIT"
      BY <1>5, <1>8, <1>13, <1>24
    <2>4. QED
      BY <1>4, <1>10, <2>1, <2>2, <2>3 DEF BothOpen
  <1>25. QED
    BY <1>18, <1>19, <1>20, <1>21, <1>22, <1>23, <1>24

\* Once the trail is out, the replay neither loses nor closes before it.
LEMMA OutStep ==
    ASSUME NEW signal, Sound(signal), NEW c \in Ohlc, NEW before \in Int, before < c.time,
           NEW profile, ProfileOK(profile), NEW P \in Nat,
           NEW T, NEW W, TrailOut(T, W, signal, profile, P, before), IsOpen(W),
           NEW W1, W1 = StepSignalState(W, Seen(signal, c), profile.be, c.time)
    PROVE  TrailOut(T, W1, signal, profile, P, c.time)
  <1>1. /\ profile.be /\ T.result # NeverClosed
        /\ T.result.outcome = "BREAKEVEN" /\ T.result.rr >= P
        /\ T.result.close \in Int /\ T.result.close <= before
        /\ Running(W, signal.created_at) /\ W.status = "TP1_HIT"
    BY DEF TrailOut
  <1>2. profile.be \in BOOLEAN
    BY DEF ProfileOK
  <1>3. PICK now \in Nat : now = c.time
    <2>1. c.time \in Nat
      BY DEF Ohlc
    <2>2. QED
      BY <2>1
  <1>4. PICK dir : dir = signal.direction
    OBVIOUS
  <1>5. PICK expired : expired = PastExpiry(signal.created_at, c.time)
    OBVIOUS
  <1>6. PICK hit : hit = (W.status = "TP1_HIT")
    OBVIOUS
  <1>7. W1 = StepSignalState(W, Seen(signal, c), profile.be, c.time)
    BY <1>2
  <1>8. /\ expired /\ hit /\ profile.be => Over(W1, "BREAKEVEN", "protected", c.time)
        /\ ~expired /\ Reached(dir, c, signal.tp2) => Over(W1, "WIN_FULL", "weighted", c.time)
        /\ ~expired /\ ~Reached(dir, c, signal.tp2) /\ hit /\ profile.be /\ Stopped(dir, c, signal.entry)
           => Over(W1, "BREAKEVEN", "protected", c.time)
        /\ ~expired /\ ~Reached(dir, c, signal.tp2) /\ hit /\ profile.be /\ ~Stopped(dir, c, signal.entry)
           => W1 = W
    <2>1. ReplayMove(W1, W, signal, c, profile.be, dir, expired, hit)
      BY <1>1, <1>2, <1>4, <1>5, <1>6, ReplayMoves
    <2>2. QED
      BY <2>1 DEF ReplayMove
  <1>9. hit /\ profile.be
    BY <1>1, <1>2, <1>6
  <1>10. T.result.close <= now
    BY <1>1, <1>3
  <1>11. \/ W1 = W
         \/ \E tag : Over(W1, "WIN_FULL", tag, now)
         \/ \E tag : Over(W1, "BREAKEVEN", tag, now)
    BY <1>3, <1>8, <1>9
  <1>12. CASE W1 = W
    BY <1>1, <1>3, <1>10, <1>12 DEF TrailOut
  <1>13. CASE \/ \E tag : Over(W1, "WIN_FULL", tag, now)
              \/ \E tag : Over(W1, "BREAKEVEN", tag, now)
    <2>1. ~IsOpen(W1) /\ W1.outcome \in {"WIN_FULL", "BREAKEVEN"} /\ W1.closed_at = now
      BY <1>13 DEF Over
    <2>2. QED
      BY <1>1, <1>3, <1>10, <2>1 DEF TrailOut
  <1>14. QED
    BY <1>11, <1>12, <1>13

Beside(T, W, signal, profile, P, future, i) ==
    \/ BothOpen(T, W, signal, profile)
    \/ BothOver(T, W, P)
    \/ i > 0 /\ TrailOut(T, W, signal, profile, P, future[i].time)

\* Each candle keeps the two simulations beside each other.
LEMMA BesideStep ==
    ASSUME NEW signal, Sound(signal), NEW future, Ordered(future), NEW giveback \in Nat,
           NEW profile, ProfileOK(profile), NEW P \in Nat, P = ProtectedRR(signal, profile),
           NEW i \in 1..Len(future),
           NEW T, NEW W, Beside(T, W, signal, profile, P, future, i - 1),
           NEW T1, T1 = IF T.result = NeverClosed
                        THEN TrailStep(T, signal, future[i], giveback, profile) ELSE T,
           NEW W1, W1 = IF IsOpen(W)
                        THEN StepSignalState(W, Seen(signal, future[i]), profile.be, future[i].time)
                        ELSE W
    PROVE  Beside(T1, W1, signal, profile, P, future, i)
  <1>1. Len(future) \in Nat /\ \A j \in 1..Len(future) : future[j] \in Ohlc
    BY LenProperties, ElementOfSeq DEF Ordered
  <1>2. i \in Nat /\ i > 0
    BY <1>1
  <1>3. PICK c \in Ohlc : c = future[i]
    BY <1>1
  <1>4. c.time \in Nat
    BY DEF Ohlc
  <1>5. CASE BothOpen(T, W, signal, profile)
    <2>1. T.result = NeverClosed /\ IsOpen(W)
      BY <1>5 DEF BothOpen, Running
    <2>2. /\ T1 = TrailStep(T, signal, c, giveback, profile)
          /\ W1 = StepSignalState(W, Seen(signal, c), profile.be, c.time)
      BY <1>3, <2>1
    <2>3. \/ BothOpen(T1, W1, signal, profile)
          \/ BothOver(T1, W1, P)
          \/ TrailOut(T1, W1, signal, profile, P, c.time)
      BY <1>5, <2>2, BothStep
    <2>4. QED
      BY <1>2, <1>3, <2>3 DEF Beside
  <1>6. CASE BothOver(T, W, P)
    <2>1. T.result # NeverClosed /\ ~IsOpen(W)
      BY <1>6 DEF BothOver
    <2>2. T1 = T /\ W1 = W
      BY <2>1
    <2>3. QED
      BY <1>6, <2>2 DEF Beside
  <1>7. CASE i - 1 > 0 /\ TrailOut(T, W, signal, profile, P, future[i - 1].time)
    <2>1. i - 1 \in 1..Len(future) /\ i - 1 < i
      BY <1>1, <1>7
    <2>2. future[i - 1].time < future[i].time
      BY <2>1 DEF Ordered
    <2>3. PICK before \in Nat : before = future[i - 1].time
      <3>1. future[i - 1] \in Ohlc
        BY <1>1, <2>1
      <3>2. QED
        BY <3>1 DEF Ohlc
    <2>4. before < c.time /\ TrailOut(T, W, signal, profile, P, before)
      BY <1>3, <1>7, <2>2, <2>3
    <2>5. T1 = T
      BY <2>4 DEF TrailOut
    <2>6. CASE IsOpen(W)
      <3>1. W1 = StepSignalState(W, Seen(signal, c), profile.be, c.time)
        BY <1>3, <2>6
      <3>2. TrailOut(T, W1, signal, profile, P, c.time)
        BY <2>4, <2>6, <3>1, OutStep
      <3>3. QED
        BY <1>2, <1>3, <2>5, <3>2 DEF Beside
    <2>7. CASE ~IsOpen(W)
      <3>1. W1 = W
        BY <2>7
      <3>2. TrailOut(T, W, signal, profile, P, c.time)
        BY <1>4, <2>4 DEF TrailOut
      <3>3. QED
        BY <1>2, <1>3, <2>5, <3>1, <3>2 DEF Beside
    <2>8. QED
      BY <2>6, <2>7
  <1>8. QED
    BY <1>5, <1>6, <1>7 DEF Beside

\* So they stay to the end.
LEMMA BesideAlways ==
    ASSUME NEW signal, Sound(signal), NEW future, Ordered(future), NEW giveback \in Nat,
           NEW profile, ProfileOK(profile), NEW P \in Nat, P = ProtectedRR(signal, profile),
           NEW F, IsTrail(F, signal, future, giveback, profile),
           NEW G, IsReplay(G, signal, future, profile), NEW n, n = Len(future)
    PROVE  Beside(F[n], G[n], signal, profile, P, future, n)
  <1> DEFINE S == {i \in 0..n : Beside(F[i], G[i], signal, profile, P, future, i)}
  <1>1. n \in Nat
    BY LenProperties DEF Ordered
  <1>2. 0 \in S
    <2>1. signal.sl \in Int /\ signal.created_at \in Nat
      BY DEF Sound
    <2>2. /\ NewTrail(signal) \in TrailType /\ NewTrail(signal).result = NeverClosed
          /\ NewTrail(signal).tp1 = FALSE
      BY <2>1, NeverClosedTyped DEF NewTrail, TrailType
    <2>3. Protected(NewTrail(signal), signal, profile)
      BY <2>2 DEF Protected
    <2>4. PICK a \in Nat : a = signal.created_at
      BY <2>1
    <2>5. Running(NewTrade(a), a) /\ NewTrade(a).status = "TRIGGERED"
      BY DEF Running, NewTrade, Trade, IsOpen, OpenStatus
    <2>6. BothOpen(NewTrail(signal), NewTrade(a), signal, profile)
      BY <2>2, <2>3, <2>4, <2>5 DEF BothOpen
    <2>7. F[0] = NewTrail(signal) /\ G[0] = NewTrade(a)
      BY <2>4 DEF IsTrail, IsReplay
    <2>8. Beside(F[0], G[0], signal, profile, P, future, 0)
      BY <2>6, <2>7 DEF Beside
    <2>9. QED
      BY <1>1, <2>8
  <1>3. ASSUME NEW i \in 1..n, i - 1 \in S PROVE i \in S
    <2>1. Beside(F[i - 1], G[i - 1], signal, profile, P, future, i - 1) /\ i \in 0..n
      BY <1>1, <1>3
    <2>2. PICK T, W, T1, W1 : T = F[i - 1] /\ W = G[i - 1] /\ T1 = F[i] /\ W1 = G[i]
      OBVIOUS
    <2>3. T1 = IF T.result = NeverClosed
               THEN TrailStep(T, signal, future[i], giveback, profile) ELSE T
      BY <2>2 DEF IsTrail
    <2>4. W1 = IF IsOpen(W)
               THEN StepSignalState(W, Seen(signal, future[i]), profile.be, future[i].time) ELSE W
      BY <2>2 DEF IsReplay
    <2>5. Beside(T, W, signal, profile, P, future, i - 1)
      BY <2>1, <2>2
    <2>6. Beside(T1, W1, signal, profile, P, future, i)
      BY <2>3, <2>4, <2>5, BesideStep
    <2>7. QED
      BY <2>1, <2>2, <2>6
  <1>4. 0..n \subseteq S
    <2> HIDE DEF S
    <2>1. QED
      BY <1>1, <1>2, <1>3, IntervalInduction
  <1>5. QED
    BY <1>1, <1>4

\* The smaller of two numbers.
LEMMA MinOfTwo ==
    ASSUME NEW a \in Int, NEW b \in Int
    PROVE  Min({a, b}) \in Int /\ Min({a, b}) <= a /\ Min({a, b}) <= b
  BY DEF Min

\* One signal, replayed with and without the trail.
LEMMA TrailAgainstReplay ==
    ASSUME NEW signal, Sound(signal), NEW future, Ordered(future), NEW giveback \in Nat,
           NEW profile, ProfileOK(profile),
           NEW trail, trail = Trail(signal, future, giveback, profile),
           NEW plain, plain = Replay(signal, future, profile)
    PROVE  /\ trail.outcome = "LOSS" <=> plain.outcome = "LOSS"
           /\ plain.close # NoClose => trail.close # NoClose /\ trail.close <= plain.close
           /\ trail.rr >= Min({plain.rr, ProtectedRR(signal, profile)})
  <1>1. PICK P \in Nat : P = ProtectedRR(signal, profile)
    BY RatiosTyped
  <1>2. PICK n : n = Len(future)
    OBVIOUS
  <1>3. future \in Seq(Ohlc)
    BY DEF Ordered
  <1>4. PICK F : F = TrailWalk(signal, future, giveback, profile)
    OBVIOUS
  <1>5. PICK G : G = ReplayWalk(signal, future, profile)
    OBVIOUS
  <1>6. IsTrail(F, signal, future, giveback, profile)
    BY <1>3, <1>4, TrailRuns
  <1>7. IsReplay(G, signal, future, profile)
    BY <1>3, <1>5, ReplayRuns
  <1>8. PICK T, W : T = F[n] /\ W = G[n]
    OBVIOUS
  <1>9. Beside(T, W, signal, profile, P, future, n)
    <2>1. Beside(F[n], G[n], signal, profile, P, future, n)
      BY <1>1, <1>2, <1>6, <1>7, BesideAlways
    <2>2. QED
      BY <1>8, <2>1
  <1>10. trail = T.result
    BY <1>2, <1>4, <1>8 DEF Trail
  <1>11. plain = IF W.outcome = "none" THEN NeverClosed
                 ELSE Result(W.outcome, RealizedR(W.realized_rr, signal, profile), W.closed_at)
    BY <1>2, <1>5, <1>8 DEF Replay
  <1>12. trail \in ResultType /\ plain \in ResultType
    BY TrailResult, ReplayResult
  <1>13. trail.rr \in Int /\ plain.rr \in Int /\ trail.close \in Int /\ plain.close \in Int
    BY <1>12 DEF ResultType
  <1>14. PICK low \in Int : low = Min({plain.rr, P}) /\ low <= plain.rr /\ low <= P
    <2>1. PICK a \in Int : a = plain.rr
      BY <1>13
    <2>2. P \in Int
      OBVIOUS
    <2>3. Min({a, P}) \in Int /\ Min({a, P}) <= a /\ Min({a, P}) <= P
      BY <2>2, MinOfTwo
    <2>4. Min({plain.rr, P}) = Min({a, P})
      BY <2>1
    <2>5. QED
      BY <2>1, <2>3, <2>4
  <1>15. SUFFICES /\ trail.outcome = "LOSS" <=> plain.outcome = "LOSS"
                  /\ plain.close # NoClose => trail.close # NoClose /\ trail.close <= plain.close
                  /\ trail.rr >= plain.rr \/ trail.rr >= P
    BY <1>1, <1>13, <1>14
  <1>16. CASE BothOpen(T, W, signal, profile)
    <2>1. trail = NeverClosed /\ plain = NeverClosed
      BY <1>10, <1>11, <1>16 DEF BothOpen, Running
    <2>2. QED
      BY <1>13, <2>1
  <1>17. CASE BothOver(T, W, P)
    <2>1. W.outcome # "none"
      BY <1>17 DEF BothOver
    <2>2. /\ plain.outcome = W.outcome /\ plain.close = W.closed_at
          /\ plain.rr = RealizedR(W.realized_rr, signal, profile)
      BY <1>11, <2>1, ResultFields
    <2>3. trail.outcome = plain.outcome /\ trail.close = plain.close
      BY <1>10, <1>17, <2>2 DEF BothOver
    <2>4. trail.rr >= plain.rr \/ trail.rr >= P
      <3>1. \/ trail.rr >= P
            \/ trail.rr = -1000 /\ W.realized_rr = "minus_one"
            \/ trail.rr = 0 /\ W.realized_rr = "zero"
        BY <1>10, <1>17 DEF BothOver
      <3>2. RealizedR("minus_one", signal, profile) = -1000 /\ RealizedR("zero", signal, profile) = 0
        BY DEF RealizedR
      <3>3. QED
        BY <1>13, <2>2, <3>1, <3>2
    <2>5. QED
      BY <1>13, <2>3, <2>4
  <1>18. CASE TrailOut(T, W, signal, profile, P, future[n].time)
    <2>1. trail.outcome = "BREAKEVEN" /\ trail.rr >= P /\ trail # NeverClosed
      BY <1>10, <1>18 DEF TrailOut
    <2>2. CASE Running(W, signal.created_at)
      <3>1. plain = NeverClosed
        BY <1>11, <2>2 DEF Running
      <3>2. plain.outcome = "EXPIRED" /\ plain.close = NoClose
        BY <3>1, NeverClosedTyped
      <3>3. QED
        BY <2>1, <3>2
    <2>3. CASE /\ ~IsOpen(W) /\ W.outcome \in {"WIN_FULL", "BREAKEVEN"}
               /\ T.result.close <= W.closed_at
      <3>1. W.outcome # "none"
        BY <2>3
      <3>2. plain.outcome = W.outcome /\ plain.close = W.closed_at
        BY <1>11, <3>1, ResultFields
      <3>3. trail.close <= plain.close
        BY <1>10, <2>3, <3>2
      <3>4. trail.close # NoClose
        <4>1. n \in Nat
          BY <1>2, <1>3, LenProperties
        <4>2. \E k \in 1..n : F[n].result.close = future[k].time
          BY <1>2, <1>3, <1>4, <1>8, <1>10, <2>1, <4>1, TrailWalkProperties
        <4>3. PICK k \in 1..n : trail.close = future[k].time
          BY <1>8, <1>10, <4>2
        <4>4. future[k] \in Ohlc
          BY <1>2, <1>3, <4>1, ElementOfSeq
        <4>5. future[k].time \in Nat
          BY <4>4 DEF Ohlc
        <4>6. QED
          BY <4>3, <4>5 DEF NoClose
      <3>5. QED
        BY <2>1, <2>3, <3>2, <3>3, <3>4
    <2>4. QED
      BY <1>18, <2>2, <2>3 DEF TrailOut
  <1>19. QED
    BY <1>9, <1>16, <1>17, <1>18 DEF Beside

-----------------------------------------------------------------------------
(***************************************************************************)
(* The scan                                                                *)
(***************************************************************************)
\* A list of some kind, and what Append makes of it.
IsList(r) == \E S : r \in Seq(S)

\* Append adds one element at the end.
LEMMA ListGrows ==
    ASSUME NEW r, IsList(r), NEW e
    PROVE  /\ Len(r) \in Nat /\ IsList(Append(r, e)) /\ Len(Append(r, e)) = Len(r) + 1
           /\ Append(r, e)[Len(r) + 1] = e /\ \A i \in 1..Len(r) : Append(r, e)[i] = r[i]
  <1>1. PICK S : r \in Seq(S)
    BY DEF IsList
  <1>2. PICK U : U = S \cup {e}
    OBVIOUS
  <1>3. Len(r) \in Nat /\ DOMAIN r = 1..Len(r) /\ \A i \in 1..Len(r) : r[i] \in S
    BY <1>1, LenProperties, ElementOfSeq
  <1>4. r \in Seq(U) /\ e \in U
    BY <1>1, <1>2, <1>3
  <1>5. /\ Append(r, e) \in Seq(U) /\ Len(Append(r, e)) = Len(r) + 1
        /\ Append(r, e)[Len(r) + 1] = e /\ \A i \in 1..Len(r) : Append(r, e)[i] = r[i]
    BY <1>3, <1>4, AppendProperties
  <1>6. QED
    BY <1>3, <1>5 DEF IsList

\* The domain of a list.
LEMMA ListDomain ==
    ASSUME NEW r, IsList(r)
    PROVE  Len(r) \in Nat /\ DOMAIN r = 1..Len(r)
  BY LenProperties DEF IsList

\* A scan has its six fields.
ScanRec(s) ==
    s = [results |-> s.results, seen_rej |-> s.seen_rej, counts |-> s.counts,
         open_dir |-> s.open_dir, zone_lo |-> s.zone_lo, ms_cache |-> s.ms_cache]

\* A trade of the scan: a sound signal, and the close its simulation found.
TradeOK(r, now) ==
    /\ r.pair \in 1..Len(Pairs) /\ Sound(r.signal)
    /\ r.taken \in Int /\ r.taken <= now
    /\ r.rr \in Int /\ r.outcome \in SignalOutcome /\ r.close \in Int
    /\ Signed(r.outcome, r.rr)
    /\ r.close = Simulate(r.signal, Future(Pairs[r.pair], r.taken), cfg.giveback,
                          cfg.profile).close

KeyOf(r) == LockKey(r.pair, r.signal.direction)

FreeAt(r) == LockUntil(r, r.signal)

\* The lock a trade set is still there, or has served its time.
Held(locks, r, now) ==
    \/ KeyOf(r) \in DOMAIN locks /\ locks[KeyOf(r)] >= FreeAt(r)
    \/ FreeAt(r) <= now

Apart(q, r) ==
    /\ KeyOf(q) = KeyOf(r) => FreeAt(q) <= r.taken
    /\ q.pair = r.pair => q.signal.created_at # r.signal.created_at

InZone(rs, z) == {j \in 1..Len(rs) : rs[j].zone = z}

Trades(s, now) ==
    /\ IsList(s.results)
    /\ \A i \in 1..Len(s.results) :
         /\ TradeOK(s.results[i], now)
         /\ <<s.results[i].pair, s.results[i].signal.created_at>> \in s.seen_rej
         /\ Held(s.open_dir, s.results[i], now)
    /\ \A i, j \in 1..Len(s.results) : i < j => Apart(s.results[i], s.results[j])

Counted(s) ==
    \A z : /\ Known(s.counts, z) = Cardinality(InZone(s.results, z))
           /\ Known(s.counts, z) <= MaxSignalCount

Locks(s) == \A k \in DOMAIN s.open_dir : s.open_dir[k] \in Int

ScanInv(s, now) == ScanRec(s) /\ Trades(s, now) /\ Counted(s) /\ Locks(s)

\* The moment a trade frees its direction is a number.
LEMMA FreeAtInt ==
    ASSUME NEW now, NEW r, TradeOK(r, now)
    PROVE  FreeAt(r) \in Int
  <1>1. r.close \in Int /\ r.signal.created_at \in Nat /\ SignalExpiry \in Nat
    BY SignalExpiryAssumption DEF TradeOK, Sound
  <1>2. QED
    BY <1>1 DEF FreeAt, LockUntil

\* A step that leaves the trades, the counts and the locks alone.
LEMMA SameScan ==
    ASSUME NEW s, NEW now, ScanInv(s, now), NEW t, ScanRec(t),
           t.results = s.results, t.seen_rej = s.seen_rej, t.counts = s.counts,
           t.open_dir = s.open_dir
    PROVE  ScanInv(t, now)
  BY Zenon DEF ScanInv, Trades, Counted, Locks

\* Expiring the locks frees only what has served its time.
LEMMA UnlockedInv ==
    ASSUME NEW s, NEW before \in Int, ScanInv(s, before), NEW now \in Int, before <= now,
           NEW t, t = Unlocked(s, now)
    PROVE  ScanInv(t, now)
  <1>1. PICK locks : locks = [k \in {l \in DOMAIN s.open_dir : s.open_dir[l] > now} |-> s.open_dir[k]]
    OBVIOUS
  <1>2. t = [s EXCEPT !.open_dir = locks]
    BY <1>1 DEF Unlocked
  <1>3. /\ ScanRec(t) /\ t.results = s.results /\ t.seen_rej = s.seen_rej
        /\ t.counts = s.counts /\ t.open_dir = locks
    BY <1>2 DEF ScanInv, ScanRec
  <1>4. Locks(s) /\ Trades(s, before) /\ Counted(s)
    BY DEF ScanInv
  <1>5. Locks(t)
    BY <1>1, <1>3, <1>4 DEF Locks
  <1>6. Counted(t)
    BY <1>3, <1>4 DEF Counted
  <1>7. ASSUME NEW r, TradeOK(r, before), Held(s.open_dir, r, before)
        PROVE  TradeOK(r, now) /\ Held(locks, r, now)
    <2>1. TradeOK(r, now)
      BY <1>7 DEF TradeOK
    <2>2. PICK u \in Int : u = FreeAt(r)
      BY <1>7, FreeAtInt
    <2>3. PICK k : k = KeyOf(r)
      OBVIOUS
    <2>4. (k \in DOMAIN s.open_dir /\ s.open_dir[k] >= u) \/ u <= before
      BY <1>7, <2>2, <2>3 DEF Held
    <2>5. CASE u <= before
      BY <2>1, <2>2, <2>5 DEF Held
    <2>6. CASE k \in DOMAIN s.open_dir /\ s.open_dir[k] >= u
      <3>1. PICK x \in Int : x = s.open_dir[k]
        BY <1>4, <2>6 DEF Locks
      <3>2. CASE x > now
        <4>1. k \in DOMAIN locks /\ locks[k] = x
          BY <1>1, <2>6, <3>1, <3>2
        <4>2. QED
          BY <2>1, <2>2, <2>3, <2>6, <3>1, <4>1 DEF Held
      <3>3. CASE ~(x > now)
        <4>1. u <= now
          BY <2>6, <3>1, <3>3
        <4>2. QED
          BY <2>1, <2>2, <4>1 DEF Held
      <3>4. QED
        BY <3>2, <3>3
    <2>7. QED
      BY <2>4, <2>5, <2>6
  <1>8. Trades(t, now)
    BY <1>3, <1>4, <1>7 DEF Trades
  <1>9. QED
    BY <1>3, <1>5, <1>6, <1>8 DEF ScanInv

\* One more trade of a zone.
LEMMA CountOneMore ==
    ASSUME NEW rs, IsList(rs), NEW e, NEW z
    PROVE  /\ IsFiniteSet(InZone(rs, z))
           /\ Cardinality(InZone(Append(rs, e), z))
                = IF e.zone = z THEN Cardinality(InZone(rs, z)) + 1 ELSE Cardinality(InZone(rs, z))
  <1>1. PICK q : q = Append(rs, e)
    OBVIOUS
  <1>2. PICK n : n = Len(rs)
    OBVIOUS
  <1>3. /\ n \in Nat /\ IsList(q) /\ Len(q) = n + 1
        /\ q[n + 1] = e /\ \A i \in 1..n : q[i] = rs[i]
    BY <1>1, <1>2, ListGrows
  <1>4. PICK A : A = InZone(rs, z)
    OBVIOUS
  <1>5. A \in SUBSET (1..n)
    BY <1>2, <1>4 DEF InZone
  <1>6. IsFiniteSet(1..n)
    BY <1>3, FS_Interval
  <1>7. IsFiniteSet(A)
    BY <1>5, <1>6, FS_Subset
  <1>8. \A j : j \in 1..(n + 1) <=> j \in 1..n \/ j = n + 1
    BY <1>3
  <1>9. InZone(q, z) = IF e.zone = z THEN A \cup {n + 1} ELSE A
    <2>1. \A j : j \in InZone(q, z) <=> j \in 1..(n + 1) /\ q[j].zone = z
      BY <1>3 DEF InZone
    <2>2. \A j : j \in A <=> j \in 1..n /\ rs[j].zone = z
      BY <1>2, <1>4 DEF InZone
    <2>3. \A j : j \in InZone(q, z) <=> j \in A \/ (j = n + 1 /\ e.zone = z)
      BY <1>3, <1>8, <2>1, <2>2
    <2>4. QED
      BY <2>3
  <1>10. n + 1 \notin A
    BY <1>3, <1>5
  <1>11. Cardinality(A \cup {n + 1}) = Cardinality(A) + 1
    BY <1>7, <1>10, FS_AddElement
  <1>12. QED
    BY <1>1, <1>4, <1>7, <1>9, <1>11

\* What Take writes.
TakenScan(s, t, e, p, z, signal) ==
    /\ ScanRec(t) /\ t.results = Append(s.results, e)
    /\ t.seen_rej = s.seen_rej \cup {<<p, signal.created_at>>}
    /\ t.counts = With(s.counts, z, Known(s.counts, z) + 1)
    /\ t.open_dir = With(s.open_dir, KeyOf(e), FreeAt(e))

\* Take adds one sound trade and writes so.
LEMMA TakeEffect ==
    ASSUME NEW s, NEW now \in Int, ScanRec(s), IsChart(chart), cfg \in Configs,
           NEW p \in 1..Len(Pairs), NEW z, NEW signal, Sound(signal),
           NEW t, t = Take(s, p, z, signal, now)
    PROVE  \E e : /\ TakenScan(s, t, e, p, z, signal) /\ TradeOK(e, now)
                  /\ e.pair = p /\ e.zone = z /\ e.signal = signal /\ e.taken = now
  <1>1. PICK result : result = Simulate(signal, Future(Pairs[p], now), cfg.giveback, cfg.profile)
    OBVIOUS
  <1>2. PICK a : a = Known(s.counts, z) + 1
    OBVIOUS
  <1>3. PICK e : e = [pair |-> p, zone |-> z, signal |-> signal, attempt |-> a, taken |-> now,
                      outcome |-> result.outcome, rr |-> result.rr, close |-> result.close]
    OBVIOUS
  <1>4. /\ e.pair = p /\ e.zone = z /\ e.signal = signal /\ e.taken = now
        /\ e.outcome = result.outcome /\ e.rr = result.rr /\ e.close = result.close
    BY <1>3
  <1>5. PICK lo : lo = IF a >= MaxSignalCount
                       THEN [y \in (DOMAIN s.zone_lo) \ {z} |-> s.zone_lo[y]] ELSE s.zone_lo
    OBVIOUS
  <1>6. PICK key, until : key = LockKey(p, signal.direction) /\ until = LockUntil(result, signal)
    OBVIOUS
  <1>7. t = [s EXCEPT !.results = Append(s.results, e),
                      !.seen_rej = s.seen_rej \cup {<<p, signal.created_at>>},
                      !.counts = With(s.counts, z, a), !.zone_lo = lo,
                      !.open_dir = With(s.open_dir, key, until)]
    BY <1>1, <1>2, <1>3, <1>5, <1>6 DEF Take
  <1>8. /\ ScanRec(t) /\ t.results = Append(s.results, e)
        /\ t.seen_rej = s.seen_rej \cup {<<p, signal.created_at>>}
        /\ t.counts = With(s.counts, z, a) /\ t.open_dir = With(s.open_dir, key, until)
    BY <1>7 DEF ScanRec
  <1>9. key = KeyOf(e)
    BY <1>4, <1>6 DEF KeyOf
  <1>10. until = FreeAt(e)
    BY <1>4, <1>6 DEF FreeAt, LockUntil
  <1>11. TakenScan(s, t, e, p, z, signal)
    BY <1>2, <1>8, <1>9, <1>10 DEF TakenScan
  <1>12. TradeOK(e, now)
    <2>1. Pairs[p] \in PairType
      BY PairsTyped
    <2>2. PICK future : future = Future(Pairs[p], now)
      OBVIOUS
    <2>3. Ordered(future)
      BY <2>1, <2>2, FutureOrdered
    <2>4. PICK g, pr : g = cfg.giveback /\ pr = cfg.profile
      OBVIOUS
    <2>5. g \in Nat /\ ProfileOK(pr)
      BY <2>4, ConfigProfile
    <2>6. result = Simulate(signal, future, g, pr)
      BY <1>1, <2>2, <2>4
    <2>7. result \in ResultType
      BY <2>3, <2>5, <2>6, SimulateResult
    <2>8. result.outcome \in SignalOutcome /\ result.rr \in Int /\ result.close \in Int
          /\ Signed(result.outcome, result.rr)
      BY <2>7 DEF ResultType
    <2>9. e.close = Simulate(e.signal, Future(Pairs[e.pair], e.taken), cfg.giveback, cfg.profile).close
      BY <1>1, <1>4, Zenon
    <2>10. QED
      BY <1>4, <2>8, <2>9 DEF TradeOK
  <1>13. QED
    BY <1>4, <1>11, <1>12

\* A trade taken under a free lock, on a new rejection, in a zone with tries
\* left.
LEMMA TakeInv ==
    ASSUME NEW s, NEW now \in Int, ScanInv(s, now), IsChart(chart), cfg \in Configs,
           NEW p \in 1..Len(Pairs), NEW z, NEW signal, Sound(signal),
           <<p, signal.created_at>> \notin s.seen_rej,
           LockKey(p, signal.direction) \notin DOMAIN s.open_dir,
           Known(s.counts, z) < MaxSignalCount,
           NEW t, t = Take(s, p, z, signal, now)
    PROVE  ScanInv(t, now)
  <1>1. ScanRec(s) /\ Trades(s, now) /\ Counted(s) /\ Locks(s)
    BY DEF ScanInv
  <1>2. PICK e : /\ TakenScan(s, t, e, p, z, signal) /\ TradeOK(e, now)
                 /\ e.pair = p /\ e.zone = z /\ e.signal = signal /\ e.taken = now
    BY <1>1, TakeEffect
  <1>3. PICK rs, locks, n : rs = s.results /\ locks = s.open_dir /\ n = Len(rs)
    OBVIOUS
  <1>4. PICK q : q = Append(rs, e)
    OBVIOUS
  <1>5. /\ ScanRec(t) /\ t.results = q
        /\ t.seen_rej = s.seen_rej \cup {<<p, signal.created_at>>}
        /\ t.counts = With(s.counts, z, Known(s.counts, z) + 1)
        /\ t.open_dir = With(locks, KeyOf(e), FreeAt(e))
    BY <1>2, <1>3, <1>4 DEF TakenScan
  <1>6. IsList(rs)
    BY <1>1, <1>3 DEF Trades
  <1>7. /\ n \in Nat /\ IsList(q) /\ Len(q) = n + 1
        /\ q[n + 1] = e /\ \A i \in 1..n : q[i] = rs[i]
    BY <1>3, <1>4, <1>6, ListGrows
  <1>8. \A i \in 1..(n + 1) : i \in 1..n \/ i = n + 1
    BY <1>7
  <1>9. PICK key, free : key = KeyOf(e) /\ free = FreeAt(e)
    OBVIOUS
  <1>10. free \in Int
    BY <1>2, <1>9, FreeAtInt
  <1>11. key \notin DOMAIN locks
    BY <1>2, <1>3, <1>9 DEF KeyOf
  <1>12. PICK locks1 : locks1 = With(locks, key, free)
    OBVIOUS
  <1>13. t.open_dir = locks1
    BY <1>5, <1>9, <1>12
  <1>14. /\ DOMAIN locks1 = DOMAIN locks \cup {key} /\ locks1[key] = free
         /\ \A k \in DOMAIN locks : k # key => locks1[k] = locks[k]
    BY <1>12 DEF With
  <1>15. \A i \in 1..n : /\ TradeOK(rs[i], now)
                         /\ <<rs[i].pair, rs[i].signal.created_at>> \in s.seen_rej
                         /\ Held(locks, rs[i], now)
    BY <1>1, <1>3 DEF Trades
  <1>16. ASSUME NEW i \in 1..n
         PROVE  Held(locks1, rs[i], now) /\ Apart(rs[i], e)
    <2>1. PICK r : r = rs[i]
      OBVIOUS
    <2>2. TradeOK(r, now) /\ <<r.pair, r.signal.created_at>> \in s.seen_rej /\ Held(locks, r, now)
      BY <1>15, <2>1
    <2>3. (KeyOf(r) \in DOMAIN locks /\ locks[KeyOf(r)] >= FreeAt(r)) \/ FreeAt(r) <= now
      BY <2>2 DEF Held
    <2>4. Held(locks1, r, now)
      BY <1>11, <1>14, <2>3 DEF Held
    <2>5. KeyOf(r) = KeyOf(e) => FreeAt(r) <= e.taken
      BY <1>2, <1>9, <1>11, <2>3
    <2>6. r.pair = e.pair => r.signal.created_at # e.signal.created_at
      BY <1>2, <2>2
    <2>7. QED
      BY <2>1, <2>4, <2>5, <2>6 DEF Apart
  <1>17. Held(locks1, e, now)
    BY <1>9, <1>10, <1>14 DEF Held
  <1>18. <<e.pair, e.signal.created_at>> \in t.seen_rej
    BY <1>2, <1>5
  <1>19. \A i \in 1..(n + 1) : /\ TradeOK(q[i], now)
                               /\ <<q[i].pair, q[i].signal.created_at>> \in t.seen_rej
                               /\ Held(locks1, q[i], now)
    <2>1. ASSUME NEW i \in 1..n
          PROVE  /\ TradeOK(q[i], now)
                 /\ <<q[i].pair, q[i].signal.created_at>> \in t.seen_rej
                 /\ Held(locks1, q[i], now)
      <3>1. q[i] = rs[i]
        BY <1>7
      <3>2. <<rs[i].pair, rs[i].signal.created_at>> \in t.seen_rej
        BY <1>5, <1>15
      <3>3. QED
        BY <1>15, <1>16, <3>1, <3>2
    <2>2. QED
      BY <1>2, <1>7, <1>8, <1>17, <1>18, <2>1
  <1>20. \A i, j \in 1..(n + 1) : i < j => Apart(q[i], q[j])
    <2> SUFFICES ASSUME NEW i \in 1..(n + 1), NEW j \in 1..(n + 1), i < j
                 PROVE  Apart(q[i], q[j])
      OBVIOUS
    <2>1. i \in 1..n /\ q[i] = rs[i]
      BY <1>7
    <2>2. CASE j = n + 1
      BY <1>7, <1>16, <2>1, <2>2
    <2>3. CASE j \in 1..n
      <3>1. q[j] = rs[j]
        BY <1>7, <2>3
      <3>2. Apart(rs[i], rs[j])
        BY <1>1, <1>3, <2>1, <2>3 DEF Trades
      <3>3. QED
        BY <2>1, <3>1, <3>2
    <2>4. QED
      BY <1>8, <2>2, <2>3
  <1>21. Trades(t, now)
    BY <1>5, <1>7, <1>13, <1>19, <1>20 DEF Trades
  <1>22. Locks(t)
    <2>1. \A k \in DOMAIN locks : locks[k] \in Int
      BY <1>1, <1>3 DEF Locks
    <2>2. \A k \in DOMAIN locks1 : locks1[k] \in Int
      BY <1>10, <1>14, <2>1
    <2>3. QED
      BY <1>13, <2>2 DEF Locks
  <1>23. Counted(t)
    <2> SUFFICES ASSUME NEW y
                 PROVE  /\ Known(t.counts, y) = Cardinality(InZone(t.results, y))
                        /\ Known(t.counts, y) <= MaxSignalCount
      BY DEF Counted
    <2>1. PICK c, k : c = Known(s.counts, y) /\ k = Known(s.counts, z)
      OBVIOUS
    <2>2. /\ c = Cardinality(InZone(rs, y)) /\ c <= MaxSignalCount
          /\ k = Cardinality(InZone(rs, z)) /\ k < MaxSignalCount
      BY <1>1, <1>3, <2>1 DEF Counted
    <2>3. Known(t.counts, y) = IF y = z THEN k + 1 ELSE c
      <3>1. Known(With(s.counts, z, k + 1), y) = IF y = z THEN k + 1 ELSE Known(s.counts, y)
        BY DEF With, Known
      <3>2. QED
        BY <1>5, <2>1, <3>1
    <2>4. /\ IsFiniteSet(InZone(rs, y))
          /\ Cardinality(InZone(q, y)) = IF e.zone = y THEN Cardinality(InZone(rs, y)) + 1
                                         ELSE Cardinality(InZone(rs, y))
      BY <1>4, <1>6, CountOneMore
    <2>5. c \in Nat
      BY <2>2, <2>4, FS_CardinalityType
    <2>6. MaxSignalCount \in Nat
      BY BacktestAssumption
    <2>7. y = z => c = k
      BY <2>1
    <2>8. QED
      BY <1>2, <1>5, <2>2, <2>3, <2>4, <2>5, <2>6, <2>7
  <1>24. QED
    BY <1>5, <1>21, <1>22, <1>23 DEF ScanInv

ZoneRec(s) == s = [scan |-> s.scan, fired |-> s.fired]

\* A zone keeps the invariant, whether or not it fires.
LEMMA ScanZoneInv ==
    ASSUME NEW now \in Int, IsChart(chart), cfg \in Configs, NEW p \in 1..Len(Pairs),
           NEW zone \in ZoneType, NEW bias, NEW s, ZoneRec(s), ScanInv(s.scan, now),
           NEW t, t = ScanZone(s, p, zone, bias, now)
    PROVE  ZoneRec(t) /\ ScanInv(t.scan, now)
  <1>1. PICK z, dir : z = <<p, zone.timestamp, zone.bos_direction>>
                      /\ dir = SignalDirection(zone.bos_direction)
    OBVIOUS
  <1>2. PICK s0 : s0 = s.scan
    OBVIOUS
  <1>3. PICK s1 : s1 = IF z \in DOMAIN s0.zone_lo THEN s0
                       ELSE [s0 EXCEPT !.zone_lo = With(s0.zone_lo, z, zone.broken_at)]
    OBVIOUS
  <1>4. ScanInv(s0, now)
    BY <1>2
  <1>5. /\ ScanRec(s1) /\ s1.results = s0.results /\ s1.seen_rej = s0.seen_rej
        /\ s1.counts = s0.counts /\ s1.open_dir = s0.open_dir
    <2>1. ScanRec(s0)
      BY <1>4 DEF ScanInv
    <2>2. PICK x : x = With(s0.zone_lo, z, zone.broken_at)
      OBVIOUS
    <2>3. s1 = s0 \/ s1 = [s0 EXCEPT !.zone_lo = x]
      BY <1>3, <2>2
    <2>4. QED
      BY <2>1, <2>3 DEF ScanRec
  <1>6. ScanInv(s1, now)
    BY <1>4, <1>5, SameScan
  <1>7. PICK rejection : rejection = FindEntry(Between(Pairs[p], s1.zone_lo[z], now), dir, zone)
    OBVIOUS
  <1>8. PICK fresh \in BOOLEAN :
          fresh = (/\ cfg.trend => bias = dir
                   /\ rejection # NoEntry
                   /\ <<p, rejection.time>> \notin s1.seen_rej
                   /\ LockKey(p, dir) \notin DOMAIN s1.open_dir
                   /\ PairNow(Pairs[p], now) - rejection.time <= 2 * Pairs[p].ltf)
    OBVIOUS
  <1>9. PICK signal : signal = BuildSignal(zone, rejection, cfg.profile, NoQuote)
    OBVIOUS
  <1>10. PICK full \in BOOLEAN : full = (s.fired \/ Known(s0.counts, z) >= MaxSignalCount)
    OBVIOUS
  <1>11. t = CASE s.fired \/ Known(s0.counts, z) >= MaxSignalCount -> s
               [] ~s.fired /\ Known(s0.counts, z) < MaxSignalCount
                  /\ fresh /\ signal # NoSignal ->
                    [scan |-> Take(s1, p, z, signal, now), fired |-> TRUE]
               [] OTHER -> [s EXCEPT !.scan = s1]
    BY <1>1, <1>2, <1>3, <1>7, <1>8, <1>9, Zenon DEF ScanZone
  <1>12. \/ t = s
         \/ /\ Known(s0.counts, z) < MaxSignalCount /\ fresh /\ signal # NoSignal
            /\ t = [scan |-> Take(s1, p, z, signal, now), fired |-> TRUE]
         \/ t = [s EXCEPT !.scan = s1]
    BY <1>11
  <1>13. CASE t = s
    BY <1>13
  <1>14. CASE t = [s EXCEPT !.scan = s1]
    <2>1. t = [scan |-> s1, fired |-> s.fired]
      BY <1>14 DEF ZoneRec
    <2>2. QED
      BY <1>6, <2>1 DEF ZoneRec
  <1>15. CASE /\ Known(s0.counts, z) < MaxSignalCount /\ fresh /\ signal # NoSignal
              /\ t = [scan |-> Take(s1, p, z, signal, now), fired |-> TRUE]
    <2>1. /\ rejection # NoEntry /\ <<p, rejection.time>> \notin s1.seen_rej
          /\ LockKey(p, dir) \notin DOMAIN s1.open_dir
      BY <1>8, <1>15
    <2>2. rejection \in Ohlc
      <3>1. Pairs[p] \in PairType
        BY PairsTyped
      <3>2. PICK ltf \in Seq(Ohlc) : ltf = Between(Pairs[p], s1.zone_lo[z], now)
        BY <3>1, BetweenType
      <3>3. rejection = FindEntry(ltf, dir, zone)
        BY <1>7, <3>2
      <3>4. QED
        BY <2>1, <3>3, EntryTyped
    <2>3. PICK profile : profile = cfg.profile
      OBVIOUS
    <2>4. ProfileOK(profile)
      BY <2>3, ConfigProfile
    <2>5. signal = BuildSignal(zone, rejection, profile, NoQuote) /\ signal # NoSignal
      BY <1>9, <1>15, <2>3
    <2>6. PICK quote : quote = NoQuote
      OBVIOUS
    <2>7. /\ Sound(signal) /\ signal.created_at = rejection.time
          /\ signal.direction = SignalDirection(zone.bos_direction)
      <3>1. signal = BuildSignal(zone, rejection, profile, quote)
        BY <2>5, <2>6
      <3>2. quote = NoQuote \/ quote \in [bid : Price, ask : Price]
        BY <2>6
      <3> HIDE <2>6
      <3>3. QED
        BY <2>2, <2>4, <2>5, <3>1, <3>2, SignalProperties
    <2>8. /\ <<p, signal.created_at>> \notin s1.seen_rej
          /\ LockKey(p, signal.direction) \notin DOMAIN s1.open_dir
          /\ Known(s1.counts, z) < MaxSignalCount
      BY <1>1, <1>5, <1>15, <2>1, <2>7
    <2>9. PICK taken : taken = Take(s1, p, z, signal, now)
      OBVIOUS
    <2>10. ScanInv(taken, now)
      BY <1>6, <2>7, <2>8, <2>9, TakeInv
    <2>11. t = [scan |-> taken, fired |-> TRUE]
      BY <1>15, <2>9
    <2>12. QED
      BY <2>10, <2>11 DEF ZoneRec
  <1>16. QED
    BY <1>12, <1>13, <1>14, <1>15

\* The zones of a pair.
LEMMA ScanZonesInv ==
    ASSUME NEW now \in Int, IsChart(chart), cfg \in Configs, NEW p \in 1..Len(Pairs),
           NEW zones \in Seq(ZoneType), NEW bias, NEW s, ScanInv(s, now)
    PROVE  ScanInv(ScanZones(s, p, zones, bias, now)[Len(zones)].scan, now)
  <1>1. PICK F : F = ScanZones(s, p, zones, bias, now)
    OBVIOUS
  <1>2. PICK n \in Nat : n = Len(zones)
    BY LenProperties
  <1>3. \A i \in 1..n : zones[i] \in ZoneType
    BY <1>2, ElementOfSeq
  <1>4. PICK ZT : ZT = ZoneType
    OBVIOUS
  <1>5. zones \in Seq(ZT)
    BY <1>4
  <1>6. ZonesRun(F, s, p, zones, bias, now)
    BY <1>1, <1>5, ZonesRuns, Zenon
  <1>7. F[0] = [scan |-> s, fired |-> FALSE]
    BY <1>6 DEF ZonesRun
  <1>8. \A i \in 1..n : F[i] = ScanZone(F[i - 1], p, zones[i], bias, now) \/ F[i] = F[i - 1]
    BY <1>2, <1>6, Zenon DEF ZonesRun
  <1> DEFINE S == {i \in 0..n : ZoneRec(F[i]) /\ ScanInv(F[i].scan, now)}
  <1>9. 0 \in S
    BY <1>7 DEF ZoneRec
  <1>10. ASSUME NEW i \in 1..n, i - 1 \in S PROVE i \in S
    <2>1. PICK u, v, zone : u = F[i - 1] /\ v = F[i] /\ zone = zones[i]
      OBVIOUS
    <2>2. ZoneRec(u) /\ ScanInv(u.scan, now) /\ zone \in ZoneType /\ i \in 0..n
      BY <1>3, <1>10, <2>1
    <2>3. v = ScanZone(u, p, zone, bias, now) \/ v = u
      BY <1>8, <2>1
    <2>4. ZoneRec(v) /\ ScanInv(v.scan, now)
      BY <2>2, <2>3, ScanZoneInv
    <2>5. QED
      BY <2>1, <2>2, <2>4
  <1>11. 0..n \subseteq S
    <2> HIDE DEF S
    <2>1. QED
      BY <1>9, <1>10, IntervalInduction
  <1>12. ScanInv(F[n].scan, now)
    BY <1>11
  <1>13. QED
    BY <1>1, <1>2, <1>12

\* So does a pair.
LEMMA ScanPairInv ==
    ASSUME NEW now \in Int, IsChart(chart), cfg \in Configs, NEW p \in 1..Len(Pairs),
           NEW s, ScanInv(s, now)
    PROVE  ScanInv(ScanPair(s, p, now), now)
  <1>1. Pairs[p] \in PairType
    BY PairsTyped
  <1>2. PICK window \in Seq(Ohlc) : window = Window(Pairs[p], now)
    BY <1>1, WindowType
  <1>3. PICK zones \in Seq(ZoneType) : zones = FindHtfRanges(window, PivotBars, MaxZones)
    BY RangesTyped
  <1>4. PICK ms : ms = BiasOf(s, Pairs[p], window)
    OBVIOUS
  <1>5. PICK s1 : s1 = IF cfg.trend THEN [s EXCEPT !.ms_cache = With(s.ms_cache, Pairs[p].htf, ms)]
                       ELSE s
    OBVIOUS
  <1>6. ScanInv(s1, now)
    <2>1. ScanRec(s)
      BY DEF ScanInv
    <2>2. PICK x : x = With(s.ms_cache, Pairs[p].htf, ms)
      OBVIOUS
    <2>3. s1 = s \/ s1 = [s EXCEPT !.ms_cache = x]
      BY <1>5, <2>2
    <2>4. /\ ScanRec(s1) /\ s1.results = s.results /\ s1.seen_rej = s.seen_rej
          /\ s1.counts = s.counts /\ s1.open_dir = s.open_dir
      BY <2>1, <2>3 DEF ScanRec
    <2>5. QED
      BY <2>4, SameScan
  <1>7. PICK bias : bias = ms.bias
    OBVIOUS
  <1>8. \/ ScanPair(s, p, now) = s \/ ScanPair(s, p, now) = s1
        \/ ScanPair(s, p, now) = ScanZones(s1, p, zones, bias, now)[Len(zones)].scan
    <2>1. ScanPair(s, p, now) =
            IF Len(window) < Pairs[p].lookback \div 3 THEN s
            ELSE IF (cfg.trend /\ ms.bias = "NEUTRAL") \/ PairNow(Pairs[p], now) < 0 THEN s1
            ELSE ScanZones(s1, p, zones, ms.bias, now)[Len(zones)].scan
      BY <1>2, <1>3, <1>4, <1>5, Zenon DEF ScanPair
    <2>2. QED
      BY <1>7, <2>1
  <1>9. ScanInv(ScanZones(s1, p, zones, bias, now)[Len(zones)].scan, now)
    BY <1>6, ScanZonesInv
  <1>10. QED
    BY <1>6, <1>8, <1>9

\* So do the pairs in their order.
LEMMA ScanPairsInv ==
    ASSUME NEW now \in Int, IsChart(chart), cfg \in Configs, NEW s, ScanInv(s, now)
    PROVE  ScanInv(ScanPairs(s, now)[Len(Pairs)], now)
  <1>1. PICK F : F = ScanPairs(s, now)
    OBVIOUS
  <1>2. PICK n \in Nat : n = Len(Pairs)
    BY PairsTyped
  <1>3. F[0] = s /\ \A i \in 1..n : F[i] = ScanPair(F[i - 1], i, now)
    BY <1>1, <1>2, PairsEquations
  <1> DEFINE S == {i \in 0..n : ScanInv(F[i], now)}
  <1>4. 0 \in S
    BY <1>3
  <1>5. ASSUME NEW i \in 1..n, i - 1 \in S PROVE i \in S
    <2>1. PICK u : u = F[i - 1]
      OBVIOUS
    <2>2. ScanInv(u, now) /\ i \in 1..Len(Pairs) /\ i \in 0..n
      BY <1>2, <1>5, <2>1
    <2>3. ScanInv(ScanPair(u, i, now), now)
      BY <2>2, ScanPairInv
    <2>4. QED
      BY <1>3, <2>1, <2>2, <2>3
  <1>6. 0..n \subseteq S
    <2> HIDE DEF S
    <2>1. QED
      BY <1>4, <1>5, IntervalInduction
  <1>7. QED
    BY <1>1, <1>2, <1>6

\* The invariant of the loop: what holds of the scan after the last candle.
Inv == BaseInv /\ ScanInv(scan, bar - 1)

\* The invariant holds before the first candle.
LEMMA FirstScan ==
    ASSUME NEW s, s = NewScan, NEW now
    PROVE  ScanInv(s, now)
  <1>1. /\ s.results = <<>> /\ s.counts = [z \in {} |-> 0] /\ s.open_dir = [k \in {} |-> 0]
        /\ ScanRec(s)
    BY DEF NewScan, ScanRec
  <1>2. PICK rs : rs = <<>>
    OBVIOUS
  <1>3. IsList(rs) /\ Len(rs) = 0
    BY <1>2 DEF IsList
  <1>4. Trades(s, now)
    BY <1>1, <1>2, <1>3 DEF Trades
  <1>5. ASSUME NEW z
        PROVE  Known(s.counts, z) = Cardinality(InZone(s.results, z))
               /\ Known(s.counts, z) <= MaxSignalCount
    <2>1. InZone(s.results, z) = {}
      BY <1>1, <1>2, <1>3 DEF InZone
    <2>2. Cardinality(InZone(s.results, z)) = 0
      BY <2>1, FS_EmptySet
    <2>3. Known(s.counts, z) = 0
      BY <1>1 DEF Known
    <2>4. QED
      BY <2>2, <2>3, BacktestAssumption
  <1>6. Counted(s) /\ Locks(s)
    BY <1>1, <1>5 DEF Counted, Locks
  <1>7. QED
    BY <1>1, <1>4, <1>6 DEF ScanInv

\* The invariant speaks of the chart and the settings, which do not change.
LEMMA ScanLater ==
    ASSUME chart' = chart, cfg' = cfg, NEW now, now = bar' - 1, ScanInv(scan', now)
    PROVE  ScanInv(scan, bar - 1)'
  BY Zenon DEF ScanInv, ScanRec, Trades, Counted, Locks, TradeOK, Signed, Held, Apart, KeyOf, FreeAt,
               Future, Series, LockKey

\* A step that is not a candle keeps the invariant.
LEMMA ScanKept ==
    ASSUME UNCHANGED <<chart, cfg, bar, scan>>, ScanInv(scan, bar - 1)
    PROVE  ScanInv(scan, bar - 1)'
  <1>1. PICK s, now : s = scan /\ now = bar - 1
    OBVIOUS
  <1>2. ScanInv(s, now) /\ scan' = s /\ now = bar' - 1
    BY <1>1
  <1>3. ScanInv(scan', now)
    BY <1>2, Zenon
  <1>4. QED
    BY <1>2, <1>3, ScanLater

\* A candle of the loop.
LEMMA BarInv ==
    ASSUME BaseInv, ScanInv(scan, bar - 1), Bar
    PROVE  ScanInv(scan, bar - 1)'
  <1>1. /\ IsChart(chart) /\ cfg \in Configs /\ bar \in Nat /\ bar < Len(chart)
        /\ chart' = chart /\ cfg' = cfg /\ bar' = bar + 1
    BY DEF BaseInv, Bar
  <1>2. PICK now \in Int : now = chart[bar + 1].time /\ now = bar
    <2>1. chart \in Seq(Ohlc) /\ bar + 1 \in DOMAIN chart
      BY <1>1, LenProperties DEF IsChart
    <2>2. chart[bar + 1].time = bar
      BY <1>1, <2>1 DEF IsChart
    <2>3. QED
      BY <1>1, <2>2
  <1>3. PICK s : s = Unlocked(scan, now)
    OBVIOUS
  <1>4. ScanInv(s, now)
    <2>1. PICK before \in Int : before = bar - 1
      BY <1>1
    <2>2. ScanInv(scan, before) /\ before <= now
      BY <1>2, <2>1
    <2>3. QED
      BY <1>3, <2>2, UnlockedInv
  <1>5. scan' = ScanPairs(s, now)[Len(Pairs)]
    BY <1>2, <1>3 DEF Bar
  <1>6. PICK t : t = ScanPairs(s, now)[Len(Pairs)]
    OBVIOUS
  <1>7. ScanInv(t, now)
    BY <1>1, <1>4, <1>6, ScanPairsInv
  <1>8. ScanInv(scan', now)
    BY <1>5, <1>6, <1>7, Zenon
  <1>9. now = bar' - 1
    BY <1>1, <1>2
  <1>10. QED
    BY <1>1, <1>8, <1>9, ScanLater

\* The inductive invariant of run(): every trade taken is a sound signal with
\* the close its simulation found, its direction is locked until then, and
\* every two trades, the rejections seen and the counts of the zones agree.
THEOREM ScanIsSound == Spec => []Inv
  <1>1. Init => ScanInv(scan, bar - 1)
    BY FirstScan DEF Init
  <1>2. BaseInv /\ ScanInv(scan, bar - 1) /\ [Next]_vars => ScanInv(scan, bar - 1)'
    <2> SUFFICES ASSUME BaseInv, ScanInv(scan, bar - 1), [Next]_vars
                 PROVE  ScanInv(scan, bar - 1)'
      OBVIOUS
    <2>1. CASE Bar
      BY <2>1, BarInv
    <2>2. CASE ReportRun \/ ReadRow \/ UNCHANGED vars
      <3>1. UNCHANGED <<chart, cfg, bar, scan>>
        BY <2>2 DEF ReportRun, ReadRow, vars
      <3>2. QED
        BY <3>1, ScanKept
    <2>3. QED
      BY <2>1, <2>2 DEF Next
  <1>3. QED
    BY <1>1, <1>2, BaseType, PTL DEF Spec, Inv

\* A trade whose direction is free is out of the market once the candle of its
\* interval that opens then has closed: that candle, or one before, closed the
\* trade, or it has expired.
LEMMA FreeIsOut ==
    ASSUME IsChart(chart), cfg \in Configs, NEW now, NEW r, TradeOK(r, now),
           NEW t \in Int, FreeAt(r) <= t
    PROVE  ~InMarket(r, t + Pairs[r.pair].ltf - 1)
  <1>1. PICK signal, profile, giveback, future :
           /\ signal = r.signal /\ profile = cfg.profile /\ giveback = cfg.giveback
           /\ future = Future(Pairs[r.pair], r.taken)
    OBVIOUS
  <1>2. r.close = NoClose \/ r.close # NoClose
    OBVIOUS
  <1>3. CASE r.close = NoClose
    <2>1. r.signal.created_at + SignalExpiry <= t
      BY <1>3 DEF FreeAt, LockUntil
    <2>2. r.signal.created_at \in Int /\ SignalExpiry \in Int
      BY SignalExpiryAssumption DEF TradeOK, Sound
    <2>3. Pairs[r.pair].ltf \in Nat \ {0}
      BY PairsTyped DEF TradeOK, PairType
    <2>4. ~(t + Pairs[r.pair].ltf - 1 < r.signal.created_at + SignalExpiry)
      BY <2>1, <2>2, <2>3
    <2>5. QED
      BY <2>4, Zenon DEF InMarket
  <1>4. CASE r.close # NoClose
    <2>1. r.close <= t
      BY <1>4 DEF FreeAt, LockUntil
    <2>2. PICK p : p = Pairs[r.pair]
      OBVIOUS
    <2>3. p \in PairType /\ r.taken \in Int
      BY <2>2, PairsTyped DEF TradeOK
    <2>4. future = Future(p, r.taken)
      BY <1>1, <2>2
    <2>5. Ordered(future)
      BY <2>3, <2>4, FutureOrdered
    <2>6. ProfileOK(profile) /\ giveback \in Nat
      BY <1>1, ConfigProfile
    <2>7. PICK u : u = Simulate(signal, future, giveback, profile)
      OBVIOUS
    <2>8. Sound(signal) /\ u.close = r.close
      BY <1>1, <2>7 DEF TradeOK
    <2>9. \A at \in Int : u.close # NoClose /\ u.close <= at =>
                Simulate(signal, Until(future, at), giveback, profile).close # NoClose
      BY <2>5, <2>6, <2>7, <2>8, SimulateResult
    <2>10. Simulate(signal, Until(future, t), giveback, profile).close # NoClose
      BY <1>4, <2>1, <2>8, <2>9
    <2>11. (t + p.ltf - 1) + 1 - p.ltf = t
      BY <2>3 DEF PairType
    <2>12. QED
      BY <1>1, <2>2, <2>10, <2>11, Zenon DEF InMarket
  <1>5. QED
    BY <1>3, <1>4

\* Two trades of a lock overlap by less than a candle of the first one's interval,
\* no rejection is traded twice and no zone tried more often than allowed: whatever the charts, the pairs and
\* the settings, with and without the trail.
THEOREM OverlapsAreShort == Spec => []OverlapIsShort
  <1>1. Inv => OverlapIsShort
    <2> SUFFICES ASSUME Inv PROVE OverlapIsShort
      OBVIOUS
    <2>1. PICK rs, now : rs = scan.results /\ now = bar - 1
      OBVIOUS
    <2>2. /\ IsChart(chart) /\ cfg \in Configs /\ ScanInv(scan, now)
      BY <2>1 DEF Inv, BaseInv
    <2>3. Trades(scan, now) /\ Counted(scan)
      BY <2>2 DEF ScanInv
    <2>4. DOMAIN rs = 1..Len(rs)
      BY <2>1, <2>3, ListDomain DEF Trades
    <2>5. ASSUME NEW i \in DOMAIN rs, NEW j \in DOMAIN rs, i < j
          PROVE  /\ LockKey(rs[i].pair, rs[i].signal.direction)
                        = LockKey(rs[j].pair, rs[j].signal.direction)
                    => ~InMarket(rs[i], rs[j].taken + Pairs[rs[i].pair].ltf - 1)
                 /\ rs[i].pair = rs[j].pair => rs[i].signal.created_at # rs[j].signal.created_at
      <3>1. PICK q, r : q = rs[i] /\ r = rs[j]
        OBVIOUS
      <3>2. TradeOK(q, now) /\ TradeOK(r, now) /\ Apart(q, r)
        BY <2>1, <2>3, <2>4, <2>5, <3>1 DEF Trades
      <3>3. r.taken \in Int
        BY <3>2 DEF TradeOK
      <3>4. KeyOf(q) = KeyOf(r) => ~InMarket(q, r.taken + Pairs[q.pair].ltf - 1)
        BY <2>2, <3>2, <3>3, FreeIsOut DEF Apart
      <3>5. LockKey(q.pair, q.signal.direction) = LockKey(r.pair, r.signal.direction)
            => ~InMarket(q, r.taken + Pairs[q.pair].ltf - 1)
        BY <3>4 DEF KeyOf
      <3>6. q.pair = r.pair => q.signal.created_at # r.signal.created_at
        BY <3>2 DEF Apart
      <3>7. QED
        BY <3>1, <3>5, <3>6, Zenon
    <2>6. ASSUME NEW i \in DOMAIN rs
          PROVE  Cardinality({j \in DOMAIN rs : rs[j].zone = rs[i].zone}) <= MaxSignalCount
      <3>1. PICK z : z = rs[i].zone
        OBVIOUS
      <3>2. Cardinality(InZone(rs, z)) <= MaxSignalCount
        BY <2>1, <2>3 DEF Counted
      <3>3. InZone(rs, z) = {j \in DOMAIN rs : rs[j].zone = z}
        BY <2>4 DEF InZone
      <3>4. QED
        BY <3>1, <3>2, <3>3, Zenon
    <2>7. QED
      BY <2>1, <2>5, <2>6, Zenon DEF OverlapIsShort
  <1>2. QED
    BY <1>1, ScanIsSound, PTL

\* The trail against the plain replay, for every trade of every run.
THEOREM TrailingKeepsItsLosses == Spec => []TrailingKeepsLosses
  <1>1. Inv => TrailingKeepsLosses
    <2> SUFFICES ASSUME Inv, NEW i \in DOMAIN scan.results, NEW giveback \in {20, 60},
                        NEW r, r = scan.results[i],
                        NEW seen, seen = Future(Pairs[r.pair], r.taken),
                        NEW plain, plain = Replay(r.signal, seen, cfg.profile),
                        NEW trail, trail = Trail(r.signal, seen, giveback, cfg.profile)
                 PROVE  /\ trail.outcome = "LOSS" <=> plain.outcome = "LOSS"
                        /\ plain.close # NoClose => trail.close # NoClose /\ trail.close <= plain.close
                        /\ trail.rr >= Min({plain.rr, ProtectedRR(r.signal, cfg.profile)})
      BY Zenon DEF TrailingKeepsLosses
    <2>1. PICK signal, profile, now :
             signal = r.signal /\ profile = cfg.profile /\ now = bar - 1
      OBVIOUS
    <2>2. IsChart(chart) /\ cfg \in Configs /\ Trades(scan, now)
      BY <2>1 DEF Inv, BaseInv, ScanInv
    <2>3. TradeOK(r, now)
      BY <2>2, ListDomain DEF Trades
    <2>4. Pairs[r.pair] \in PairType /\ Sound(signal)
      BY <2>1, <2>3, PairsTyped DEF TradeOK
    <2>5. Ordered(seen)
      BY <2>2, <2>4, FutureOrdered
    <2>6. ProfileOK(profile)
      BY <2>1, <2>2, ConfigProfile
    <2>7. /\ trail = Trail(signal, seen, giveback, profile) /\ plain = Replay(signal, seen, profile)
          /\ giveback \in Nat
      BY <2>1
    <2>8. /\ trail.outcome = "LOSS" <=> plain.outcome = "LOSS"
          /\ plain.close # NoClose => trail.close # NoClose /\ trail.close <= plain.close
          /\ trail.rr >= Min({plain.rr, ProtectedRR(signal, profile)})
      BY <2>4, <2>5, <2>6, <2>7, TrailAgainstReplay
    <2>9. QED
      BY <2>1, <2>8
  <1>2. QED
    BY <1>1, ScanIsSound, PTL

-----------------------------------------------------------------------------
(***************************************************************************)
(* The account and the risk sweep                                          *)
(***************************************************************************)
Account == [risk_percent : Nat, risk_type : {"fixed", "compound"},
            max_trailing_dd_pct : 0..100, max_total_loss_pct : 0..100]

\* The account with a walk of its own, and the account that never stops.
IsAccount(F, rrs, acct) ==
    /\ F[0] = NewAccount
    /\ \A i \in 1..Len(rrs) : F[i] = AccountTrade(F[i - 1], rrs[i], acct)

\* _compute_accounting is such a run.
LEMMA AccountRuns ==
    ASSUME NEW rrs \in Seq(Int), NEW acct
    PROVE  IsAccount(AccountWalk(rrs, acct), rrs, acct)
  BY AccountEquations, Zenon DEF IsAccount

\* A trade's effect does not depend on the kill conditions.
SameRisk(a, u) == a.risk_type = u.risk_type /\ a.risk_percent = u.risk_percent

\* What a trade does to the balance and to the peak.
LEMMA OneTrade ==
    ASSUME NEW a \in Account, NEW balance \in Int, NEW peak \in Int, NEW rr \in Int,
           NEW u, SameRisk(a, u), NEW one, one = TradeAccounting(balance, peak, rr, u)
    PROVE  /\ one = TradeAccounting(balance, peak, rr, a)
           /\ one.balance \in Int /\ one.peak \in Int /\ one.pnl \in Int
           /\ one.peak = Larger(peak, one.balance) /\ one.balance = balance + one.pnl
  <1>1. PICK basis : basis = IF a.risk_type = "fixed" THEN StartBalance ELSE balance
    OBVIOUS
  <1>2. basis \in Int /\ a.risk_percent \in Int
    BY <1>1, ReportAssumption DEF Account
  <1>3. PICK k \in Int : k = (basis * a.risk_percent) \div 100
    BY <1>2
  <1>4. PICK pnl \in Int : pnl = (k * rr) \div 1000
    <2>1. PICK x \in Int : x = k * rr
      BY <1>3
    <2>2. x \div 1000 \in Int
      BY <2>1
    <2>3. QED
      BY <2>1, <2>2
  <1>5. ASSUME NEW c, SameRisk(a, c)
        PROVE  TradeAccounting(balance, peak, rr, c)
                 = [balance |-> balance + pnl, peak |-> Larger(peak, balance + pnl), pnl |-> pnl]
    <2>1. PICK x : x = IF c.risk_type = "fixed" THEN StartBalance ELSE balance
      OBVIOUS
    <2>2. PICK y : y = (x * c.risk_percent) \div 100
      OBVIOUS
    <2>3. PICK z : z = (y * rr) \div 1000
      OBVIOUS
    <2>4. TradeAccounting(balance, peak, rr, c)
            = [balance |-> balance + z, peak |-> Larger(peak, balance + z), pnl |-> z]
      BY <2>1, <2>2, <2>3 DEF TradeAccounting
    <2>5. x = basis /\ c.risk_percent = a.risk_percent
      BY <1>1, <1>5, <2>1 DEF SameRisk
    <2>6. y = k
      BY <1>3, <2>2, <2>5, Zenon
    <2>7. z = pnl
      BY <1>4, <2>3, <2>6, Zenon
    <2>8. QED
      BY <2>4, <2>7, Zenon
  <1>6. one = [balance |-> balance + pnl, peak |-> Larger(peak, balance + pnl), pnl |-> pnl]
    BY <1>5
  <1>7. TradeAccounting(balance, peak, rr, a)
          = [balance |-> balance + pnl, peak |-> Larger(peak, balance + pnl), pnl |-> pnl]
    BY <1>5 DEF SameRisk
  <1>8. Larger(peak, balance + pnl) \in Int /\ balance + pnl \in Int
    BY <1>4 DEF Larger
  <1>9. QED
    BY <1>4, <1>6, <1>7, <1>8

\* An account after i trades, none of which stopped it.
Alive(account, i) ==
    /\ account.balance \in Int /\ account.peak \in Int /\ account.blown = "none"
    /\ IsList(account.balances) /\ Len(account.balances) = i + 1
    /\ IsList(account.pnls) /\ Len(account.pnls) = i

\* A trade of an account that has not stopped.
LEMMA AliveStep ==
    ASSUME NEW a \in Account, NEW u, SameRisk(a, u), NEW i \in Nat, NEW v, Alive(v, i),
           NEW rr \in Int, NEW one, one = TradeAccounting(v.balance, v.peak, rr, u),
           NEW w, w = AccountTrade(v, rr, u)
    PROVE  /\ w.balance = one.balance /\ w.peak = one.peak /\ w.blown = BlownBy(one, u)
           /\ w.balance \in Int /\ w.peak = Larger(v.peak, w.balance)
           /\ w.balances = Append(v.balances, w.balance)
           /\ w.blown = "none" => Alive(w, i + 1)
           /\ Len(w.pnls) = i + 1
  <1>1. v.blown = "none" /\ v.balance \in Int /\ v.peak \in Int
    BY DEF Alive
  <1>2. w = [balance |-> one.balance, peak |-> one.peak,
             max_dd |-> Larger(v.max_dd, one.peak - one.balance),
             pnls |-> Append(v.pnls, one.pnl),
             balances |-> Append(v.balances, one.balance),
             blown |-> BlownBy(one, u)]
    BY <1>1, Zenon DEF AccountTrade
  <1>3. one.balance \in Int /\ one.peak \in Int /\ one.peak = Larger(v.peak, one.balance)
    BY <1>1, OneTrade
  <1>4. PICK ps, bs : ps = v.pnls /\ bs = v.balances
    OBVIOUS
  <1>5. PICK p, b : p = one.pnl /\ b = one.balance
    OBVIOUS
  <1>6. IsList(ps) /\ Len(ps) = i /\ IsList(bs) /\ Len(bs) = i + 1
    BY <1>4 DEF Alive
  <1>7. IsList(Append(ps, p)) /\ Len(Append(ps, p)) = i + 1
    BY <1>6, ListGrows
  <1>8. IsList(Append(bs, b)) /\ Len(Append(bs, b)) = i + 1 + 1
    BY <1>6, ListGrows
  <1>9. /\ w.pnls = Append(ps, p) /\ w.balances = Append(bs, b) /\ w.balance = b
        /\ w.balance = one.balance /\ w.peak = one.peak /\ w.blown = BlownBy(one, u)
    BY <1>2, <1>4, <1>5
  <1>10. ASSUME w.blown = "none" PROVE Alive(w, i + 1)
    BY <1>3, <1>7, <1>8, <1>9, <1>10 DEF Alive
  <1>11. QED
    BY <1>3, <1>4, <1>7, <1>9, <1>10

\* The account that never stops: its balances, and its peak, which is one of
\* them and as high as any.
Unstopped(F, i) ==
    /\ Alive(F[i], i)
    /\ \A j \in 0..i : /\ F[j].balance \in Int /\ F[i].balances[j + 1] = F[j].balance
                       /\ F[j].balance <= F[i].peak
    /\ \E j \in 0..i : F[j].balance = F[i].peak
    /\ StartBalance <= F[i].peak

\* Without kill conditions the account never stops.
LEMMA UnstoppedWalk ==
    ASSUME NEW rrs \in Seq(Int), NEW a \in Account, NEW u, SameRisk(a, u),
           u.max_trailing_dd_pct = 0, u.max_total_loss_pct = 0,
           NEW F, IsAccount(F, rrs, u)
    PROVE  \A i \in 0..Len(rrs) : Unstopped(F, i)
  <1>1. PICK n \in Nat : n = Len(rrs)
    BY LenProperties
  <1>2. F[0] = NewAccount /\ \A i \in 1..n : F[i] = AccountTrade(F[i - 1], rrs[i], u)
    BY <1>1 DEF IsAccount
  <1> DEFINE S == {i \in 0..n : Unstopped(F, i)}
  <1>3. 0 \in S
    <2>1. /\ F[0].balance = StartBalance /\ F[0].peak = StartBalance /\ F[0].blown = "none"
          /\ F[0].balances = <<StartBalance>> /\ F[0].pnls = <<>>
      BY <1>2 DEF NewAccount
    <2>2. PICK e : e = <<>>
      OBVIOUS
    <2>3. IsList(e) /\ Len(e) = 0
      BY <2>2 DEF IsList
    <2>4. PICK b : b = <<StartBalance>>
      OBVIOUS
    <2>5. b \in Seq({StartBalance}) /\ Len(b) = 1 /\ b[1] = StartBalance
      BY <2>4
    <2>6. IsList(b)
      BY <2>5 DEF IsList
    <2>7. Alive(F[0], 0)
      BY <2>1, <2>2, <2>3, <2>4, <2>5, <2>6, ReportAssumption DEF Alive
    <2>8. Unstopped(F, 0)
      BY <2>1, <2>4, <2>5, <2>7, ReportAssumption DEF Unstopped
    <2>9. QED
      BY <2>8
  <1>4. ASSUME NEW i \in 1..n, i - 1 \in S PROVE i \in S
    <2>1. PICK v, w, rr, m : v = F[i - 1] /\ w = F[i] /\ rr = rrs[i] /\ m = i - 1
      OBVIOUS
    <2>2. m \in Nat /\ m + 1 = i /\ rr \in Int /\ Alive(v, m) /\ Unstopped(F, m)
      <3>1. m \in Nat /\ m + 1 = i
        BY <1>4, <2>1
      <3>2. rr \in Int
        BY <1>1, <2>1, ElementOfSeq
      <3>3. Unstopped(F, m)
        BY <1>4, <2>1
      <3>4. Alive(v, m)
        BY <2>1, <3>3 DEF Unstopped
      <3>5. QED
        BY <3>1, <3>2, <3>3, <3>4
    <2>3. PICK one : one = TradeAccounting(v.balance, v.peak, rr, u)
      OBVIOUS
    <2>4. BlownBy(one, u) = "none"
      BY DEF BlownBy
    <2>5. w = AccountTrade(v, rr, u)
      BY <1>2, <2>1
    <2>6. /\ w.balance \in Int /\ w.peak = Larger(v.peak, w.balance)
          /\ w.balances = Append(v.balances, w.balance) /\ Alive(w, m + 1)
      BY <2>2, <2>3, <2>4, <2>5, AliveStep
    <2>7. PICK bs, b : bs = v.balances /\ b = w.balance
      OBVIOUS
    <2>8. IsList(bs) /\ Len(bs) = m + 1 /\ v.peak \in Int /\ w.balances = Append(bs, b)
      BY <2>2, <2>6, <2>7 DEF Alive
    <2>9. Append(bs, b)[m + 1 + 1] = b /\ \A j \in 1..(m + 1) : Append(bs, b)[j] = bs[j]
      BY <2>8, ListGrows
    <2>10. /\ \A j \in 0..m : /\ F[j].balance \in Int /\ bs[j + 1] = F[j].balance
                              /\ F[j].balance <= v.peak
           /\ \E j \in 0..m : F[j].balance = v.peak
           /\ StartBalance <= v.peak
      BY <2>1, <2>2, <2>7 DEF Unstopped
    <2>11. v.peak <= w.peak /\ b <= w.peak /\ (w.peak = v.peak \/ w.peak = b) /\ w.peak \in Int
      BY <2>6, <2>7, <2>8 DEF Larger
    <2>12. ASSUME NEW j \in 0..i
           PROVE  F[j].balance \in Int /\ w.balances[j + 1] = F[j].balance /\ F[j].balance <= w.peak
      <3>1. CASE j = i
        BY <2>1, <2>2, <2>6, <2>7, <2>8, <2>9, <2>11, <3>1
      <3>2. CASE j # i
        <4>1. j \in 0..m /\ j + 1 \in 1..(m + 1)
          BY <2>2, <3>2
        <4>2. F[j].balance \in Int /\ bs[j + 1] = F[j].balance /\ F[j].balance <= v.peak
          BY <2>10, <4>1
        <4>3. QED
          BY <2>8, <2>9, <2>11, <4>1, <4>2
      <3>3. QED
        BY <3>1, <3>2
    <2>13. \E j \in 0..i : F[j].balance = w.peak
      <3>1. CASE w.peak = v.peak
        <4>1. PICK j \in 0..m : F[j].balance = v.peak
          BY <2>10
        <4>2. j \in 0..i
          BY <2>2
        <4>3. QED
          BY <3>1, <4>1, <4>2
      <3>2. CASE w.peak = b
        <4>1. i \in 0..i /\ F[i].balance = w.peak
          BY <2>1, <2>7, <3>2
        <4>2. QED
          BY <4>1
      <3>3. QED
        BY <2>11, <3>1, <3>2
    <2>14. StartBalance <= w.peak
      BY <2>8, <2>10, <2>11, ReportAssumption
    <2>15. Unstopped(F, i)
      BY <2>1, <2>2, <2>6, <2>12, <2>13, <2>14 DEF Unstopped
    <2>16. QED
      BY <2>15
  <1>5. 0..n \subseteq S
    <2> HIDE DEF S
    <2>1. QED
      BY <1>3, <1>4, IntervalInduction
  <1>6. QED
    BY <1>1, <1>5

\* A balance below a floor of the account.
Breach(balance, peak, a) ==
    \/ a.max_trailing_dd_pct > 0 /\ 100 * balance < peak * (100 - a.max_trailing_dd_pct)
    \/ a.max_total_loss_pct > 0 /\ 100 * balance < StartBalance * (100 - a.max_total_loss_pct)

\* A trade stops the account exactly when its balance is below a floor.
LEMMA BlownIffBreach ==
    ASSUME NEW one, NEW a
    PROVE  BlownBy(one, a) # "none" <=> Breach(one.balance, one.peak, a)
  BY DEF BlownBy, Breach

\* The account that stops has gone the way of the other up to its first
\* breach, and stops there.
FirstBreach(F, m, a) ==
    /\ Breach(F[m].balance, F[m].peak, a)
    /\ \A j \in 1..(m - 1) : ~Breach(F[j].balance, F[j].peak, a)

Stops(K, F, a, i) ==
    \/ /\ \A j \in 1..i : ~Breach(F[j].balance, F[j].peak, a)
       /\ Alive(K[i], i) /\ K[i].balance = F[i].balance /\ K[i].peak = F[i].peak
    \/ \E m \in 1..i : FirstBreach(F, m, a) /\ K[i].blown # "none" /\ Len(K[i].pnls) = m

\* The account that may stop, beside the one that never does.
LEMMA StoppedWalk ==
    ASSUME NEW rrs \in Seq(Int), NEW a \in Account, NEW u, SameRisk(a, u),
           u.max_trailing_dd_pct = 0, u.max_total_loss_pct = 0,
           NEW F, IsAccount(F, rrs, u), NEW K, IsAccount(K, rrs, a)
    PROVE  \A i \in 0..Len(rrs) : Stops(K, F, a, i)
  <1>1. PICK n \in Nat : n = Len(rrs)
    BY LenProperties
  <1>2. \A i \in 0..n : Alive(F[i], i)
    BY <1>1, UnstoppedWalk DEF Unstopped
  <1>3. /\ F[0] = NewAccount /\ \A i \in 1..n : F[i] = AccountTrade(F[i - 1], rrs[i], u)
        /\ K[0] = NewAccount /\ \A i \in 1..n : K[i] = AccountTrade(K[i - 1], rrs[i], a)
    BY <1>1 DEF IsAccount
  <1>4. SameRisk(a, a)
    BY DEF SameRisk
  <1> DEFINE S == {i \in 0..n : Stops(K, F, a, i)}
  <1>5. 0 \in S
    <2>1. Alive(K[0], 0) /\ K[0] = F[0] /\ 0 \in 0..n
      BY <1>1, <1>2, <1>3
    <2>2. QED
      BY <2>1 DEF Stops
  <1>6. ASSUME NEW i \in 1..n, i - 1 \in S PROVE i \in S
    <2>1. PICK v, w, f, g, rr, m : /\ v = K[i - 1] /\ w = K[i] /\ f = F[i - 1] /\ g = F[i]
                                   /\ rr = rrs[i] /\ m = i - 1
      OBVIOUS
    <2>2. /\ m \in Nat /\ m + 1 = i /\ rr \in Int /\ i \in 0..n /\ Alive(f, m)
          /\ g = AccountTrade(f, rr, u) /\ w = AccountTrade(v, rr, a) /\ Stops(K, F, a, m)
      <3>1. m \in 0..n
        BY <1>6, <2>1
      <3>2. QED
        BY <1>1, <1>2, <1>3, <1>6, <2>1, <3>1, ElementOfSeq
    <2>3. CASE \E k \in 1..m : FirstBreach(F, k, a) /\ K[m].blown # "none" /\ Len(K[m].pnls) = k
      <3>1. PICK k \in 1..m : FirstBreach(F, k, a) /\ v.blown # "none" /\ Len(v.pnls) = k
        BY <2>1, <2>3
      <3>2. w = v
        BY <2>2, <3>1 DEF AccountTrade
      <3>3. k \in 1..i /\ FirstBreach(F, k, a) /\ K[i].blown # "none" /\ Len(K[i].pnls) = k
        BY <2>1, <2>2, <3>1, <3>2
      <3>4. Stops(K, F, a, i)
        BY <3>3, Zenon DEF Stops
      <3>5. QED
        BY <2>2, <3>4
    <2>4. CASE /\ \A j \in 1..m : ~Breach(F[j].balance, F[j].peak, a)
               /\ Alive(K[m], m) /\ K[m].balance = F[m].balance /\ K[m].peak = F[m].peak
      <3>1. Alive(v, m) /\ v.balance = f.balance /\ v.peak = f.peak
        BY <2>1, <2>4
      <3>2. PICK one : one = TradeAccounting(f.balance, f.peak, rr, u)
        OBVIOUS
      <3>3. f.balance \in Int /\ f.peak \in Int
        BY <2>2 DEF Alive
      <3>4. one = TradeAccounting(f.balance, f.peak, rr, a)
        BY <2>2, <3>2, <3>3, OneTrade
      <3>5. one = TradeAccounting(v.balance, v.peak, rr, a)
        BY <3>1, <3>4
      <3>6. g.balance = one.balance /\ g.peak = one.peak
        BY <2>2, <3>2, AliveStep
      <3>7. /\ w.balance = one.balance /\ w.peak = one.peak /\ w.blown = BlownBy(one, a)
            /\ w.blown = "none" => Alive(w, m + 1)
            /\ Len(w.pnls) = m + 1
        BY <1>4, <2>2, <3>1, <3>5, AliveStep
      <3>8. w.blown # "none" <=> Breach(g.balance, g.peak, a)
        BY <3>6, <3>7, BlownIffBreach
      <3>9. CASE w.blown # "none"
        <4>1. FirstBreach(F, i, a)
          BY <2>1, <2>4, <3>8, <3>9 DEF FirstBreach
        <4>2. i \in 1..i /\ K[i].blown # "none" /\ Len(K[i].pnls) = i
          BY <2>1, <2>2, <3>7, <3>9
        <4>3. Stops(K, F, a, i)
          BY <4>1, <4>2, Zenon DEF Stops
        <4>4. QED
          BY <2>2, <4>3
      <3>10. CASE w.blown = "none"
        <4>1. ASSUME NEW j \in 1..i PROVE ~Breach(F[j].balance, F[j].peak, a)
          <5>1. j \in 1..m \/ j = i
            BY <2>2
          <5>2. QED
            BY <2>1, <2>4, <3>8, <3>10, <5>1
        <4>2. Alive(K[i], i) /\ K[i].balance = F[i].balance /\ K[i].peak = F[i].peak
          BY <2>1, <2>2, <3>6, <3>7, <3>10
        <4>3. Stops(K, F, a, i)
          BY <4>1, <4>2, Zenon DEF Stops
        <4>4. QED
          BY <2>2, <4>3
      <3>11. QED
        BY <3>9, <3>10
    <2>5. QED
      BY <2>2, <2>3, <2>4, Zenon DEF Stops
  <1>7. 0..n \subseteq S
    <2> HIDE DEF S
    <2>1. QED
      BY <1>5, <1>6, IntervalInduction
  <1>8. QED
    BY <1>1, <1>7

\* The balance of one trade against every earlier one is its balance against
\* the peak.
LEMMA BreachIsOfThePeak ==
    ASSUME NEW a \in Account, NEW F, NEW i \in Nat \ {0}, Unstopped(F, i)
    PROVE  Breach(F[i].balance, F[i].peak, a) <=>
             \/ /\ a.max_trailing_dd_pct > 0
                /\ \E j \in 0..(i - 1) :
                     100 * F[i].balance < F[j].balance * (100 - a.max_trailing_dd_pct)
             \/ /\ a.max_total_loss_pct > 0
                /\ 100 * F[i].balance < StartBalance * (100 - a.max_total_loss_pct)
  <1>1. PICK b, p, d : b = F[i].balance /\ p = F[i].peak /\ d = a.max_trailing_dd_pct
    OBVIOUS
  <1>2. b \in Int /\ p \in Int /\ d \in 0..100 /\ b <= p /\ StartBalance <= p
    <2>1. i \in 0..i
      OBVIOUS
    <2>2. QED
      BY <1>1, <2>1 DEF Unstopped, Alive, Account
  <1>3. PICK k \in Nat : k = 100 - d
    BY <1>2
  <1>4. ASSUME d > 0, 100 * b < p * k
        PROVE  \E j \in 0..(i - 1) : 100 * b < F[j].balance * k
    <2>1. PICK j \in 0..i : F[j].balance = p
      BY <1>1 DEF Unstopped
    <2>2. p > 0
      BY <1>2, ReportAssumption
    <2>3. p * k <= 100 * p
      <3>1. p * k = 100 * p - p * d
        BY <1>2, <1>3
      <3>2. p * d >= 0
        BY <1>2, <2>2
      <3>3. p * d \in Int /\ p * k \in Int
        BY <1>2, <1>3
      <3>4. QED
        BY <1>2, <3>1, <3>2, <3>3
    <2>4. b < p
      <3>1. PICK pk \in Int : pk = p * k
        BY <1>2, <1>3
      <3>2. 100 * b < pk /\ pk <= 100 * p
        BY <1>4, <2>3, <3>1
      <3>3. QED
        BY <1>2, <3>1, <3>2
    <2>5. j # i
      BY <1>1, <1>2, <2>1, <2>4
    <2>6. j \in 0..(i - 1)
      BY <2>5
    <2>7. QED
      BY <1>4, <2>1, <2>6
  <1>5. ASSUME NEW j \in 0..(i - 1), 100 * b < F[j].balance * k
        PROVE  100 * b < p * k
    <2>1. PICK c \in Int : c = F[j].balance /\ c <= p
      <3>1. j \in 0..i
        OBVIOUS
      <3>2. QED
        BY <1>1, <3>1 DEF Unstopped
    <2>2. PICK e \in Nat : p = c + e
      <3>1. p - c \in Nat /\ p = c + (p - c)
        BY <1>2, <2>1
      <3>2. QED
        BY <3>1
    <2>3. p * k = c * k + e * k
      BY <1>3, <2>1, <2>2
    <2>4. e * k \in Nat /\ c * k \in Int
      BY <1>3, <2>1, <2>2
    <2>5. PICK ck \in Int, ek \in Nat : ck = c * k /\ ek = e * k
      BY <2>4
    <2>6. 100 * b < ck /\ p * k = ck + ek
      BY <1>5, <2>1, <2>3, <2>5
    <2>7. QED
      BY <1>2, <2>5, <2>6
  <1>6. QED
    BY <1>1, <1>3, <1>4, <1>5 DEF Breach

\* The rows being reported are a list of trades with an R of their own.
RowType == [entry : Int, close : Int, rr : Int, outcome : SignalOutcome, pair : Int]

RowsInv ==
    /\ IsList(rows)
    /\ \A i \in 1..Len(rows) : rows[i] \in RowType
    /\ \A i \in 1..Len(rows) : rows[i].rr \in Int /\ Signed(rows[i].outcome, rows[i].rr)

\* A row read from a file is such a trade.
LEMMA ReadRowInv ==
    ASSUME RowsInv, ReadRow
    PROVE  RowsInv'
  <1>1. PICK row \in ResultRow : rows' = Append(rows, row)
    BY DEF ReadRow
  <1>2. PICK r, n : r = rows /\ n = Len(rows)
    OBVIOUS
  <1>3. PICK q : q = Append(r, row)
    OBVIOUS
  <1>4. /\ n \in Nat /\ IsList(q) /\ Len(q) = n + 1 /\ q[n + 1] = row
        /\ \A i \in 1..n : q[i] = r[i]
    BY <1>2, <1>3, ListGrows DEF RowsInv
  <1>5. row.rr \in Int /\ Signed(row.outcome, row.rr) /\ row \in RowType
    BY DEF ResultRow, Signed, RowType
  <1>6. ASSUME NEW i \in 1..Len(q)
        PROVE  q[i].rr \in Int /\ Signed(q[i].outcome, q[i].rr) /\ q[i] \in RowType
    <2>1. i \in 1..n \/ i = n + 1
      BY <1>4
    <2>2. QED
      BY <1>2, <1>4, <1>5, <2>1 DEF RowsInv
  <1>7. rows' = q
    BY <1>1, <1>2, <1>3
  <1>8. QED
    BY <1>4, <1>6, <1>7, Zenon DEF RowsInv, IsList, Signed, RowType

\* So are the rows of a finished run.
LEMMA ReportRunInv ==
    ASSUME Inv, ReportRun
    PROVE  RowsInv'
  <1>1. PICK rs, now : rs = scan.results /\ now = bar - 1
    OBVIOUS
  <1>2. Trades(scan, now)
    BY <1>1 DEF Inv, ScanInv
  <1>3. IsList(rs) /\ \A i \in 1..Len(rs) : TradeOK(rs[i], now)
    BY <1>1, <1>2 DEF Trades
  <1>4. PICK n \in Nat : n = Len(rs) /\ DOMAIN rs = 1..n
    BY <1>3, ListDomain
  <1>5. PICK q : q = [i \in 1..n |-> Row(rs[i])]
    OBVIOUS
  <1>6. rows' = q
    BY <1>1, <1>4, <1>5 DEF ReportRun
  <1>7. IsList(q) /\ Len(q) = n
    <2>1. PICK S : S = {Row(rs[i]) : i \in 1..n}
      OBVIOUS
    <2>2. q \in [1..n -> S]
      BY <1>5, <2>1
    <2>3. q \in Seq(S) /\ Len(q) = n
      BY <1>4, <2>2
    <2>4. QED
      BY <2>3 DEF IsList
  <1>8. ASSUME NEW i \in 1..n
        PROVE  q[i].rr \in Int /\ Signed(q[i].outcome, q[i].rr) /\ q[i] \in RowType
    <2>1. PICK r : r = rs[i]
      OBVIOUS
    <2>2. /\ r.rr \in Int /\ Signed(r.outcome, r.rr) /\ r.outcome \in SignalOutcome
          /\ r.close \in Int /\ r.pair \in 1..Len(Pairs) /\ r.signal.created_at \in Int
      BY <1>3, <1>4, <2>1 DEF TradeOK, Sound
    <2>3. Pairs[r.pair].ltf \in Int /\ r.pair \in Int
      BY <2>2, PairsTyped DEF PairType
    <2>4. q[i] = Row(r)
      BY <1>5, <2>1
    <2>5. Row(r) \in RowType
      BY <2>2, <2>3 DEF Row, RowType
    <2>6. q[i].rr = r.rr /\ q[i].outcome = r.outcome
      BY <2>4 DEF Row
    <2>7. QED
      BY <2>2, <2>4, <2>5, <2>6
  <1>9. \A i \in 1..Len(q) : q[i].rr \in Int /\ Signed(q[i].outcome, q[i].rr) /\ q[i] \in RowType
    BY <1>7, <1>8
  <1>10. QED
    BY <1>6, <1>7, <1>9, Zenon DEF RowsInv, IsList, Signed, RowType

\* Whatever is reported, a run or a file, is a list of trades with an R, negative
\* for a loss and for nothing else.
THEOREM RowsAreTrades == Spec => []RowsInv
  <1>1. Init => RowsInv
    <2> SUFFICES ASSUME Init PROVE RowsInv
      OBVIOUS
    <2>1. rows = <<>>
      BY DEF Init
    <2>2. rows \in Seq({}) /\ Len(rows) = 0
      BY <2>1
    <2>3. QED
      BY <2>2 DEF RowsInv, IsList, Signed, RowType
  <1>2. Inv /\ RowsInv /\ [Next]_vars => RowsInv'
    <2> SUFFICES ASSUME Inv, RowsInv, [Next]_vars PROVE RowsInv'
      OBVIOUS
    <2>1. CASE ReportRun
      BY <2>1, ReportRunInv
    <2>2. CASE ReadRow
      BY <2>2, ReadRowInv
    <2>3. CASE Bar \/ UNCHANGED vars
      <3>1. rows' = rows
        BY <2>3 DEF Bar, vars
      <3>2. QED
        BY <3>1, Zenon DEF RowsInv, IsList, Signed, RowType
    <2>4. QED
      BY <2>1, <2>2, <2>3 DEF Next
  <1>3. QED
    BY <1>1, <1>2, ScanIsSound, PTL DEF Spec

\* The breaches of the account that never stops, as the property counts them.
Below(b, i, a) ==
    \/ /\ a.max_trailing_dd_pct > 0
       /\ \E j \in 1..i : 100 * b[i + 1] < b[j] * (100 - a.max_trailing_dd_pct)
    \/ /\ a.max_total_loss_pct > 0
       /\ 100 * b[i + 1] < StartBalance * (100 - a.max_total_loss_pct)

\* Those are the balances below a floor of the peak.
LEMMA BreachesOf ==
    ASSUME NEW rrs \in Seq(Int), NEW n, n = Len(rrs), NEW a \in Account, NEW u, SameRisk(a, u),
           u.max_trailing_dd_pct = 0, u.max_total_loss_pct = 0,
           NEW F, IsAccount(F, rrs, u), NEW b, b = F[n].balances, NEW i \in 1..n
    PROVE  Breach(F[i].balance, F[i].peak, a) <=> Below(b, i, a)
  <1>1. n \in Nat /\ i \in Nat \ {0} /\ i \in 0..n /\ n \in 0..n
    BY LenProperties
  <1>2. Unstopped(F, i) /\ Unstopped(F, n)
    BY <1>1, UnstoppedWalk
  <1>3. \A j \in 0..n : b[j + 1] = F[j].balance
    BY <1>2 DEF Unstopped
  <1>4. PICK d : d = 100 - a.max_trailing_dd_pct
    OBVIOUS
  <1>5. b[i + 1] = F[i].balance
    BY <1>1, <1>3
  <1>6. (\E j \in 1..i : 100 * b[i + 1] < b[j] * d)
          <=> (\E j \in 0..(i - 1) : 100 * F[i].balance < F[j].balance * d)
    <2>1. ASSUME NEW j \in 1..i, 100 * b[i + 1] < b[j] * d
          PROVE  \E k \in 0..(i - 1) : 100 * F[i].balance < F[k].balance * d
      <3>1. PICK k \in 0..(i - 1) : k + 1 = j /\ k \in 0..n
        <4>1. j - 1 \in 0..(i - 1) /\ (j - 1) + 1 = j /\ j - 1 \in 0..n
          BY <1>1
        <4>2. QED
          BY <4>1
      <3>2. b[j] = F[k].balance
        BY <1>3, <3>1
      <3>3. 100 * F[i].balance < F[k].balance * d
        BY <1>5, <2>1, <3>2, Zenon
      <3>4. QED
        BY <3>1, <3>3
    <2>2. ASSUME NEW j \in 0..(i - 1), 100 * F[i].balance < F[j].balance * d
          PROVE  \E k \in 1..i : 100 * b[i + 1] < b[k] * d
      <3>1. j + 1 \in 1..i /\ j \in 0..n
        BY <1>1
      <3>2. PICK k \in 1..i : k = j + 1
        BY <3>1
      <3>3. b[k] = F[j].balance
        BY <1>3, <3>1, <3>2
      <3>4. 100 * b[i + 1] < b[k] * d
        BY <1>5, <2>2, <3>3, Zenon
      <3>5. QED
        BY <3>4
    <2>3. QED
      BY <2>1, <2>2
  <1>7. Breach(F[i].balance, F[i].peak, a) <=>
             \/ /\ a.max_trailing_dd_pct > 0
                /\ \E j \in 0..(i - 1) :
                     100 * F[i].balance < F[j].balance * (100 - a.max_trailing_dd_pct)
             \/ /\ a.max_total_loss_pct > 0
                /\ 100 * F[i].balance < StartBalance * (100 - a.max_total_loss_pct)
    BY <1>1, <1>2, BreachIsOfThePeak
  <1>8. QED
    BY <1>4, <1>5, <1>6, <1>7, Zenon DEF Below

\* One level of the sweep.
StopsAt(account, n, breaches) ==
    IF breaches = {} THEN account.blown = "none" /\ Len(account.pnls) = n
    ELSE account.blown # "none" /\ Len(account.pnls) = Min(breaches)

\* The account stops at the first of them, or runs to the end.
LEMMA StopsAtTheFirst ==
    ASSUME NEW rrs \in Seq(Int), NEW n, n = Len(rrs), NEW a \in Account, NEW u, SameRisk(a, u),
           u.max_trailing_dd_pct = 0, u.max_total_loss_pct = 0,
           NEW F, IsAccount(F, rrs, u), NEW K, IsAccount(K, rrs, a),
           NEW b, b = F[n].balances, NEW breaches, breaches = {i \in 1..n : Below(b, i, a)},
           NEW account, account = K[n]
    PROVE  StopsAt(account, n, breaches)
  <1>1. n \in Nat /\ n \in 0..n
    BY LenProperties
  <1>2. Stops(K, F, a, n)
    BY <1>1, StoppedWalk
  <1>3. ASSUME NEW i \in 1..n
        PROVE  Breach(F[i].balance, F[i].peak, a) <=> Below(b, i, a)
    BY BreachesOf
  <1>4. breaches = {i \in 1..n : Breach(F[i].balance, F[i].peak, a)}
    BY <1>3, Zenon
  <1>5. CASE \E m \in 1..n : FirstBreach(F, m, a) /\ K[n].blown # "none" /\ Len(K[n].pnls) = m
    <2>1. PICK m \in 1..n : FirstBreach(F, m, a) /\ K[n].blown # "none" /\ Len(K[n].pnls) = m
      BY <1>5
    <2>2. m \in breaches
      BY <1>4, <2>1 DEF FirstBreach
    <2>3. ASSUME NEW x \in breaches PROVE m <= x
      <3>1. ~(x \in 1..(m - 1))
        BY <1>4, <2>1, <2>3 DEF FirstBreach
      <3>2. x \in 1..n
        BY <1>4, <2>3
      <3>3. QED
        BY <1>1, <3>1, <3>2
    <2>4. breaches \subseteq Int
      BY <1>4
    <2>5. Min(breaches) = m
      <3>1. \A x \in breaches : (\A y \in breaches : x <= y) => x = m
        BY <2>2, <2>3, <2>4
      <3>2. QED
        BY <2>2, <2>3, <3>1, Zenon DEF Min
    <2>6. QED
      BY <2>1, <2>2, <2>5 DEF StopsAt
  <1>6. CASE /\ \A j \in 1..n : ~Breach(F[j].balance, F[j].peak, a)
             /\ Alive(K[n], n) /\ K[n].balance = F[n].balance /\ K[n].peak = F[n].peak
    <2>1. breaches = {}
      BY <1>6, <1>4
    <2>2. QED
      BY <1>6, <2>1 DEF Alive, StopsAt
  <1>7. QED
    BY <1>2, <1>5, <1>6, Zenon DEF Stops

\* The account of a level, and the same without its kill conditions.
LEMMA AccountFields ==
    ASSUME NEW acct \in Accounts, NEW l \in Levels, NEW a, a = [acct EXCEPT !.risk_percent = l],
           NEW u, u = [a EXCEPT !.max_trailing_dd_pct = 0, !.max_total_loss_pct = 0]
    PROVE  /\ a \in Account /\ SameRisk(a, u)
           /\ u.max_trailing_dd_pct = 0 /\ u.max_total_loss_pct = 0
  <1>1. acct \in Account /\ l \in Nat
    BY AccountsAssumption DEF Account
  <1>2. a \in Account
    BY <1>1 DEF Account
  <1>3. QED
    BY <1>2 DEF Account, SameRisk

\* The R of the rows, one to a row.
LEMMA RRsTyped ==
    ASSUME RowsInv
    PROVE  RRs(rows) \in Seq(Int) /\ Len(RRs(rows)) = Len(rows) /\ Len(rows) \in Nat
  <1>1. PICK n \in Nat : n = Len(rows) /\ DOMAIN rows = 1..n
    BY ListDomain DEF RowsInv
  <1>2. PICK q : q = [i \in 1..n |-> rows[i].rr]
    OBVIOUS
  <1>3. RRs(rows) = q
    BY <1>1, <1>2 DEF RRs
  <1>4. q \in [1..n -> Int]
    BY <1>1, <1>2 DEF RowsInv
  <1>5. q \in Seq(Int) /\ Len(q) = n
    BY <1>1, <1>4
  <1>6. QED
    BY <1>1, <1>3, <1>5

\* At every level of the sweep the account stops at the first breach of the
\* account that never stops and at no other trade, whatever the trades, the
\* levels and the kill conditions (_compute_accounting, print_risk_sweep).
THEOREM RiskSweepIsSound == Spec => []RiskSweepSound
  <1>1. RowsInv => RiskSweepSound
    <2> SUFFICES ASSUME RowsInv, NEW acct \in Accounts, NEW l \in Levels,
                        NEW account, account = Sweep(RRs(rows), acct, Levels)[l],
                        NEW breaches, breaches = Breaches([acct EXCEPT !.risk_percent = l])
                 PROVE  IF breaches = {}
                        THEN account.blown = "none" /\ Len(account.pnls) = Len(rows)
                        ELSE account.blown # "none" /\ Len(account.pnls) = Min(breaches)
      BY Zenon DEF RiskSweepSound
    <2>1. PICK a : a = [acct EXCEPT !.risk_percent = l]
      OBVIOUS
    <2>2. PICK u : u = [a EXCEPT !.max_trailing_dd_pct = 0, !.max_total_loss_pct = 0]
      OBVIOUS
    <2>3. /\ a \in Account /\ SameRisk(a, u)
          /\ u.max_trailing_dd_pct = 0 /\ u.max_total_loss_pct = 0
      BY <2>1, <2>2, AccountFields
    <2>4. PICK rrs \in Seq(Int), n \in Nat : rrs = RRs(rows) /\ n = Len(rrs) /\ n = Len(rows)
      BY RRsTyped
    <2>5. PICK F, K : F = AccountWalk(rrs, u) /\ K = AccountWalk(rrs, a)
      OBVIOUS
    <2>6. IsAccount(F, rrs, u) /\ IsAccount(K, rrs, a)
      BY <2>5, AccountRuns, Zenon
    <2>7. account = K[n]
      <3>1. account = ComputeAccounting(rrs, a)
        BY <2>1, <2>4 DEF Sweep
      <3>2. QED
        BY <2>4, <2>5, <3>1, Zenon DEF ComputeAccounting
    <2>8. PICK b : b = F[n].balances
      OBVIOUS
    <2>9. breaches = {i \in 1..n : Below(b, i, a)}
      <3>1. Unkilled(a) = b
        BY <2>2, <2>4, <2>5, <2>8, Zenon DEF Unkilled, EquityCurve, ComputeAccounting
      <3>2. breaches = Breaches(a)
        BY <2>1
      <3>3. QED
        BY <2>4, <3>1, <3>2, Zenon DEF Breaches, Below
    <2>10. StopsAt(account, n, breaches)
      BY <2>3, <2>4, <2>6, <2>7, <2>8, <2>9, StopsAtTheFirst, Zenon
    <2>11. QED
      BY <2>4, <2>10 DEF StopsAt
  <1>2. QED
    BY <1>1, RowsAreTrades, PTL

-----------------------------------------------------------------------------
(***************************************************************************)
(* Breaks of structure that are final                                      *)
(***************************************************************************)
\* The candles with pivot candles after them are pivots of the longer chart
\* too, or of neither.
LEMMA PivotsAgree ==
    ASSUME NEW before, NEW after \in Seq(Ohlc), FirstOf(before, after), NEW pivot \in Nat \ {0},
           NEW i \in 1..(Len(before) - pivot)
    PROVE  /\ i \in PivotHighs(before, pivot) <=> i \in PivotHighs(after, pivot)
           /\ i \in PivotLows(before, pivot) <=> i \in PivotLows(after, pivot)
  <1>1. before \in Seq(Ohlc)
    BY DEF FirstOf
  <1>2. PICK n \in Nat : n = Len(before)
    BY <1>1, LenProperties
  <1>3. PICK m \in Nat : m = Len(after)
    BY LenProperties
  <1>4. DOMAIN before = 1..n /\ DOMAIN after = 1..m /\ n <= m
    BY <1>1, <1>2, <1>3, LenProperties DEF FirstOf
  <1>5. \A j \in 1..n : before[j] = after[j]
    BY <1>2 DEF FirstOf
  <1>6. i \in Nat /\ i \in 1..n /\ i \in 1..m /\ i + pivot <= n /\ i + pivot <= m
    BY <1>2, <1>4
  <1>7. i \in Inner(before, pivot) <=> i \in Inner(after, pivot)
    BY <1>2, <1>3, <1>4, <1>6 DEF Inner
  <1>8. PICK N : N = Neighbours(i, pivot) \cap DOMAIN before
    OBVIOUS
  <1>9. N = Neighbours(i, pivot) \cap DOMAIN after
    <2>1. \A j \in (i - pivot)..(i + pivot) : j \in 1..n <=> j \in 1..m
      BY <1>4, <1>6
    <2>2. QED
      BY <1>4, <1>8, <2>1 DEF Neighbours
  <1>10. \A j \in N : before[j] = after[j]
    BY <1>4, <1>5, <1>8
  <1>11. before[i] = after[i]
    BY <1>5, <1>6
  <1>12. (\A j \in N : before[j].high < before[i].high) <=> (\A j \in N : after[j].high < after[i].high)
    BY <1>10, <1>11, Zenon
  <1>13. (\A j \in N : before[j].low > before[i].low) <=> (\A j \in N : after[j].low > after[i].low)
    BY <1>10, <1>11, Zenon
  <1>14. i \in PivotHighs(before, pivot) <=> i \in PivotHighs(after, pivot)
    <2>1. i \in PivotHighs(before, pivot) <=>
            i \in Inner(before, pivot) /\ \A j \in N : before[j].high < before[i].high
      BY <1>8, Zenon DEF PivotHighs
    <2>2. i \in PivotHighs(after, pivot) <=>
            i \in Inner(after, pivot) /\ \A j \in N : after[j].high < after[i].high
      BY <1>9, Zenon DEF PivotHighs
    <2>3. QED
      BY <1>7, <1>12, <2>1, <2>2, Zenon
  <1>15. i \in PivotLows(before, pivot) <=> i \in PivotLows(after, pivot)
    <2>1. i \in PivotLows(before, pivot) <=>
            i \in Inner(before, pivot) /\ \A j \in N : before[j].low > before[i].low
      BY <1>8, Zenon DEF PivotLows
    <2>2. i \in PivotLows(after, pivot) <=>
            i \in Inner(after, pivot) /\ \A j \in N : after[j].low > after[i].low
      BY <1>9, Zenon DEF PivotLows
    <2>3. QED
      BY <1>7, <1>13, <2>1, <2>2, Zenon
  <1>16. QED
    BY <1>14, <1>15

\* The walk as a run.
IsBos(F, cs, highs, lows) ==
    /\ F[0] = NoPivots
    /\ \A i \in 1..Len(cs) : F[i] = WalkCandle(cs, highs, lows, i, F[i - 1])

\* detect_bos_events is such a run.
LEMMA BosRuns ==
    ASSUME NEW cs \in Seq(Ohlc), NEW highs, NEW lows
    PROVE  IsBos(BosWalk(cs, highs, lows), cs, highs, lows)
  BY BosEquations, Zenon DEF IsBos

\* A candle of the walk reads no candle but itself and the pivots it keeps.
LEMMA SameCandle ==
    ASSUME NEW before, NEW after \in Seq(Ohlc), FirstOf(before, after),
           NEW i \in 1..Len(before), NEW hs, NEW ls, NEW hs2, NEW ls2,
           i \in hs <=> i \in hs2, i \in ls <=> i \in ls2,
           NEW v, v.high \in 0..Len(before), v.low \in 0..Len(before)
    PROVE  WalkCandle(before, hs, ls, i, v) = WalkCandle(after, hs2, ls2, i, v)
  <1>1. PICK n \in Nat : n = Len(before)
    BY LenProperties DEF FirstOf
  <1>2. \A j \in 1..n : before[j] = after[j]
    BY <1>1 DEF FirstOf
  <1>3. PICK high \in 0..n : high = IF i \in hs THEN i ELSE v.high
    BY <1>1
  <1>4. PICK low \in 0..n : low = IF i \in ls THEN i ELSE v.low
    BY <1>1
  <1>5. PICK known \in BOOLEAN : known = (high # 0 /\ low # 0)
    OBVIOUS
  <1>6. PICK bull \in BOOLEAN : bull = (known /\ i > high /\ before[i].close > before[high].high)
    OBVIOUS
  <1>7. PICK bear \in BOOLEAN : bear = (known /\ i > low /\ before[i].close < before[low].low)
    OBVIOUS
  <1>8. before[i] = after[i] /\ (known => before[high] = after[high] /\ before[low] = after[low])
    <2>1. i \in 1..n
      BY <1>1
    <2>2. known => high # 0 /\ low # 0
      BY <1>5
    <2>3. known => high \in 1..n /\ low \in 1..n
      BY <2>2
    <2>4. QED
      BY <1>2, <2>1, <2>3
  <1>9. /\ bull = (known /\ i > high /\ after[i].close > after[high].high)
        /\ bear = (known /\ i > low /\ after[i].close < after[low].low)
    BY <1>6, <1>7, <1>8
  <1>10. /\ high = IF i \in hs2 THEN i ELSE v.high
         /\ low = IF i \in ls2 THEN i ELSE v.low
    BY <1>3, <1>4
  <1>11. WalkCandle(before, hs, ls, i, v) =
          CASE bull -> [NoPivots EXCEPT !.events =
                         Append(v.events, Event(before, i, "BULLISH", before[high].high, before[low]))]
            [] bear /\ ~bull -> [NoPivots EXCEPT !.events =
                         Append(v.events, Event(before, i, "BEARISH", before[low].low, before[high]))]
            [] OTHER -> [high |-> high, low |-> low, events |-> v.events]
    BY <1>3, <1>4, <1>5, <1>6, <1>7, Zenon DEF WalkCandle
  <1>12. WalkCandle(after, hs2, ls2, i, v) =
          CASE bull -> [NoPivots EXCEPT !.events =
                         Append(v.events, Event(after, i, "BULLISH", after[high].high, after[low]))]
            [] bear /\ ~bull -> [NoPivots EXCEPT !.events =
                         Append(v.events, Event(after, i, "BEARISH", after[low].low, after[high]))]
            [] OTHER -> [high |-> high, low |-> low, events |-> v.events]
    BY <1>5, <1>9, <1>10, Zenon DEF WalkCandle
  <1>13. known => Event(before, i, "BULLISH", before[high].high, before[low])
                    = Event(after, i, "BULLISH", after[high].high, after[low])
    BY <1>8, Zenon DEF Event
  <1>14. known => Event(before, i, "BEARISH", before[low].low, before[high])
                    = Event(after, i, "BEARISH", after[low].low, after[high])
    BY <1>8, Zenon DEF Event
  <1>15. (bull => known) /\ (bear => known)
    BY <1>6, <1>7
  <1>16. QED
    BY <1>11, <1>12, <1>13, <1>14, <1>15

BosTyped(F, cs) == \A i \in 0..Len(cs) : F[i] \in BosState(cs)

\* Two charts, one the beginning of the other: the walks agree as long as the
\* pivots do.
LEMMA WalksAgree ==
    ASSUME NEW before, NEW after \in Seq(Ohlc), FirstOf(before, after), NEW pivot \in Nat \ {0},
           NEW m \in Nat, m = Len(before) - pivot,
           NEW F, IsBos(F, before, PivotHighs(before, pivot), PivotLows(before, pivot)),
           NEW G, IsBos(G, after, PivotHighs(after, pivot), PivotLows(after, pivot)),
           BosTyped(F, before)
    PROVE  F[m] = G[m]
  <1>1. PICK hs, ls : hs = PivotHighs(before, pivot) /\ ls = PivotLows(before, pivot)
    OBVIOUS
  <1>2. PICK hs2, ls2 : hs2 = PivotHighs(after, pivot) /\ ls2 = PivotLows(after, pivot)
    OBVIOUS
  <1>3. PICK n \in Nat : n = Len(before)
    BY LenProperties DEF FirstOf
  <1>4. PICK k \in Nat : k = Len(after)
    BY LenProperties
  <1>5. n <= k /\ m <= n
    BY <1>3, <1>4 DEF FirstOf
  <1>6. /\ F[0] = NoPivots /\ \A i \in 1..n : F[i] = WalkCandle(before, hs, ls, i, F[i - 1])
        /\ G[0] = NoPivots /\ \A i \in 1..k : G[i] = WalkCandle(after, hs2, ls2, i, G[i - 1])
    BY <1>1, <1>2, <1>3, <1>4, Zenon DEF IsBos
  <1> DEFINE S == {i \in 0..m : F[i] = G[i]}
  <1>7. 0 \in S
    BY <1>6
  <1>8. ASSUME NEW i \in 1..m, i - 1 \in S PROVE i \in S
    <2>1. PICK v : v = F[i - 1]
      OBVIOUS
    <2>2. v = G[i - 1] /\ i \in 1..n /\ i \in 1..k /\ i - 1 \in 0..n /\ i \in 0..m
      BY <1>5, <1>8, <2>1
    <2>3. v.high \in 0..Len(before) /\ v.low \in 0..Len(before)
      BY <1>3, <2>1, <2>2 DEF BosState, BosTyped
    <2>4. (i \in hs <=> i \in hs2) /\ (i \in ls <=> i \in ls2)
      <3>1. i \in 1..(Len(before) - pivot)
        OBVIOUS
      <3>2. QED
        BY <1>1, <1>2, <3>1, PivotsAgree
    <2>5. WalkCandle(before, hs, ls, i, v) = WalkCandle(after, hs2, ls2, i, v)
      <3>1. i \in 1..Len(before)
        BY <1>3, <2>2
      <3> HIDE <1>1, <1>2
      <3>2. QED
        BY <2>3, <2>4, <3>1, SameCandle
    <2>6. F[i] = G[i]
      BY <1>6, <2>1, <2>2, <2>5, Zenon
    <2>7. QED
      BY <2>2, <2>6
  <1>9. 0..m \subseteq S
    <2> HIDE DEF S
    <2>1. QED
      BY <1>7, <1>8, IntervalInduction
  <1>10. QED
    BY <1>9

\* A candle of the walk adds at most one event, at its own time.
LEMMA CandleEvents ==
    ASSUME NEW cs, NEW hs, NEW ls, NEW i, NEW v, NEW w, w = WalkCandle(cs, hs, ls, i, v)
    PROVE  \/ w.events = v.events
           \/ \E e : w.events = Append(v.events, e) /\ e.at = cs[i].time
  <1>1. PICK high : high = IF i \in hs THEN i ELSE v.high
    OBVIOUS
  <1>2. PICK low : low = IF i \in ls THEN i ELSE v.low
    OBVIOUS
  <1>3. PICK bull \in BOOLEAN : bull = ((high # 0 /\ low # 0) /\ i > high /\ cs[i].close > cs[high].high)
    OBVIOUS
  <1>4. PICK bear \in BOOLEAN : bear = ((high # 0 /\ low # 0) /\ i > low /\ cs[i].close < cs[low].low)
    OBVIOUS
  <1>5. PICK e : e = Event(cs, i, "BULLISH", cs[high].high, cs[low])
    OBVIOUS
  <1>6. PICK d : d = Event(cs, i, "BEARISH", cs[low].low, cs[high])
    OBVIOUS
  <1>7. e.at = cs[i].time /\ d.at = cs[i].time
    BY <1>5, <1>6 DEF Event
  <1>8. w = CASE bull -> [NoPivots EXCEPT !.events = Append(v.events, e)]
              [] bear /\ ~bull -> [NoPivots EXCEPT !.events = Append(v.events, d)]
              [] OTHER -> [high |-> high, low |-> low, events |-> v.events]
    BY <1>1, <1>2, <1>3, <1>4, <1>5, <1>6, Zenon DEF WalkCandle
  <1>9. PICK x, y : x = Append(v.events, e) /\ y = Append(v.events, d)
    OBVIOUS
  <1>10. w.events = v.events \/ w.events = x \/ w.events = y
    BY <1>8, <1>9 DEF NoPivots
  <1>11. QED
    BY <1>7, <1>9, <1>10

\* The events up to candle m, and what the walk makes of them afterwards.
Early(events, t) == IsList(events) /\ \A k \in 1..Len(events) : events[k].at <= t

Extends(events, first, t) ==
    /\ IsList(events) /\ Len(first) <= Len(events)
    /\ \A k \in 1..Len(first) : events[k] = first[k]
    /\ \A k \in (Len(first) + 1)..Len(events) : ~(events[k].at <= t)

\* One more early event.
LEMMA EarlyStep ==
    ASSUME NEW r, NEW t, Early(r, t), NEW e, e.at <= t
    PROVE  Early(Append(r, e), t)
  <1>1. PICK q : q = Append(r, e)
    OBVIOUS
  <1>2. PICK n : n = Len(r)
    OBVIOUS
  <1>3. /\ n \in Nat /\ IsList(q) /\ Len(q) = n + 1 /\ q[n + 1] = e
        /\ \A i \in 1..n : q[i] = r[i]
    BY <1>1, <1>2, ListGrows DEF Early
  <1>4. ASSUME NEW k \in 1..Len(q) PROVE q[k].at <= t
    <2>1. k \in 1..n \/ k = n + 1
      BY <1>3
    <2>2. QED
      BY <1>2, <1>3, <2>1 DEF Early
  <1>5. QED
    BY <1>1, <1>3, <1>4 DEF Early

\* One more late event.
LEMMA ExtendsStep ==
    ASSUME NEW r, NEW first, IsList(first), NEW t, Extends(r, first, t), NEW e, ~(e.at <= t)
    PROVE  Extends(Append(r, e), first, t)
  <1>1. PICK q : q = Append(r, e)
    OBVIOUS
  <1>2. PICK n, f : n = Len(r) /\ f = Len(first)
    OBVIOUS
  <1>3. /\ n \in Nat /\ IsList(q) /\ Len(q) = n + 1 /\ q[n + 1] = e
        /\ \A i \in 1..n : q[i] = r[i]
    BY <1>1, <1>2, ListGrows DEF Extends
  <1>4. f \in Nat /\ f <= n
    BY <1>2, ListDomain DEF Extends
  <1>5. \A k \in 1..f : q[k] = first[k]
    BY <1>2, <1>3, <1>4 DEF Extends
  <1>6. ASSUME NEW k \in (f + 1)..Len(q) PROVE ~(q[k].at <= t)
    <2>1. (k \in (f + 1)..n /\ k \in 1..n) \/ k = n + 1
      BY <1>3, <1>4
    <2>2. QED
      BY <1>2, <1>3, <2>1 DEF Extends
  <1>7. QED
    BY <1>1, <1>2, <1>3, <1>4, <1>5, <1>6 DEF Extends

\* The events of the first candles stay where they are, and only later
\* events follow.
LEMMA EventsSplit ==
    ASSUME NEW cs, Ordered(cs), NEW hs, NEW ls, NEW F, IsBos(F, cs, hs, ls),
           NEW m \in 1..Len(cs), NEW t, t = cs[m].time
    PROVE  Early(F[m].events, t) /\ Extends(F[Len(cs)].events, F[m].events, t)
  <1>1. cs \in Seq(Ohlc)
    BY DEF Ordered
  <1>2. PICK n \in Nat : n = Len(cs)
    BY <1>1, LenProperties
  <1>3. \A i \in 1..n : cs[i].time \in Nat
    <2>1. \A i \in 1..n : cs[i] \in Ohlc
      BY <1>1, <1>2, ElementOfSeq
    <2>2. QED
      BY <2>1 DEF Ohlc
  <1>4. m \in 1..n /\ t \in Nat
    BY <1>2, <1>3
  <1>5. \A i \in 1..n : (i <= m => cs[i].time <= t) /\ (i > m => ~(cs[i].time <= t))
    BY <1>2, <1>3, <1>4 DEF Ordered
  <1>6. /\ F[0].events = <<>>
        /\ \A i \in 1..n : F[i] = WalkCandle(cs, hs, ls, i, F[i - 1])
    BY <1>2 DEF IsBos, NoPivots
  <1>7. \A i \in 1..n : \/ F[i].events = F[i - 1].events
                        \/ \E e : F[i].events = Append(F[i - 1].events, e) /\ e.at = cs[i].time
    <2>1. ASSUME NEW i \in 1..n
          PROVE  \/ F[i].events = F[i - 1].events
                 \/ \E e : F[i].events = Append(F[i - 1].events, e) /\ e.at = cs[i].time
      <3>1. PICK v, w : v = F[i - 1] /\ w = F[i]
        OBVIOUS
      <3>2. w = WalkCandle(cs, hs, ls, i, v)
        BY <1>6, <3>1
      <3>3. \/ w.events = v.events
            \/ \E e : w.events = Append(v.events, e) /\ e.at = cs[i].time
        BY <3>2, CandleEvents
      <3>4. QED
        BY <3>1, <3>3, Zenon
    <2>2. QED
      BY <2>1
  <1>8. Early(F[m].events, t)
    <2> DEFINE S == {i \in 0..m : Early(F[i].events, t)}
    <2>1. 0 \in S
      <3>1. PICK r : r = <<>>
        OBVIOUS
      <3>2. r \in Seq({}) /\ Len(r) = 0
        BY <3>1
      <3>3. Early(r, t)
        BY <3>2 DEF Early, IsList
      <3>4. 0 \in 0..m
        BY <1>4
      <3>5. QED
        BY <1>6, <3>1, <3>3, <3>4
    <2>2. ASSUME NEW i \in 1..m, i - 1 \in S PROVE i \in S
      <3>1. PICK r, q : r = F[i - 1].events /\ q = F[i].events
        OBVIOUS
      <3>2. Early(r, t) /\ i \in 0..m /\ i \in 1..n /\ i <= m
        BY <1>4, <2>2, <3>1
      <3>3. q = r \/ \E e : q = Append(r, e) /\ e.at = cs[i].time
        BY <1>7, <3>1, <3>2
      <3>4. cs[i].time <= t
        BY <1>5, <3>2
      <3>5. CASE q = r
        BY <3>1, <3>2, <3>5
      <3>6. CASE \E e : q = Append(r, e) /\ e.at = cs[i].time
        <4>1. PICK e : q = Append(r, e) /\ e.at = cs[i].time
          BY <3>6
        <4>2. e.at <= t
          BY <3>4, <4>1
        <4>3. Early(Append(r, e), t)
          BY <3>2, <4>2, EarlyStep
        <4>4. QED
          BY <3>1, <3>2, <4>1, <4>3
      <3>7. QED
        BY <3>3, <3>5, <3>6
    <2>3. m \in Nat
      BY <1>4
    <2>4. 0..m \subseteq S
      <3> HIDE DEF S
      <3>1. QED
        BY <2>1, <2>2, <2>3, IntervalInduction
    <2>5. QED
      BY <2>3, <2>4
  <1>9. PICK first : first = F[m].events
    OBVIOUS
  <1>10. IsList(first) /\ Len(first) \in Nat
    BY <1>8, <1>9, ListDomain DEF Early
  <1>11. Extends(F[n].events, first, t)
    <2> DEFINE S == {i \in 0..n : i >= m => Extends(F[i].events, first, t)}
    <2>1. 0 \in S
      BY <1>4
    <2>2. ASSUME NEW i \in 1..n, i - 1 \in S PROVE i \in S
      <3>1. PICK r, q : r = F[i - 1].events /\ q = F[i].events
        OBVIOUS
      <3>2. i \in 0..n
        OBVIOUS
      <3>3. CASE i < m
        BY <1>4, <3>2, <3>3
      <3>4. CASE i = m
        <4>1. Extends(first, first, t)
          BY <1>10 DEF Extends
        <4>2. QED
          BY <1>9, <3>2, <3>4, <4>1
      <3>5. CASE i > m
        <4>1. i - 1 >= m
          BY <1>4, <3>5
        <4>2. Extends(r, first, t)
          BY <2>2, <3>1, <4>1
        <4>3. q = r \/ \E e : q = Append(r, e) /\ e.at = cs[i].time
          BY <1>7, <3>1
        <4>4. ~(cs[i].time <= t)
          BY <1>5, <3>5
        <4>5. CASE q = r
          BY <3>1, <3>2, <4>2, <4>5
        <4>6. CASE \E e : q = Append(r, e) /\ e.at = cs[i].time
          <5>1. PICK e : q = Append(r, e) /\ e.at = cs[i].time
            BY <4>6
          <5>2. ~(e.at <= t)
            BY <4>4, <5>1
          <5>3. Extends(Append(r, e), first, t)
            BY <1>10, <4>2, <5>2, ExtendsStep
          <5>4. QED
            BY <3>1, <3>2, <5>1, <5>3
        <4>7. QED
          BY <4>3, <4>5, <4>6
      <3>6. QED
        BY <1>4, <3>3, <3>4, <3>5
    <2>3. 0..n \subseteq S
      <3> HIDE DEF S
      <3>1. QED
        BY <2>1, <2>2, IntervalInduction
    <2>4. n \in 0..n /\ n >= m
      BY <1>4
    <2>5. QED
      BY <2>3, <2>4
  <1>12. QED
    BY <1>2, <1>8, <1>9, <1>11

\* The final events are the events of the first m candles.
UpTo(events, t) == [k \in {m \in DOMAIN events : events[m].at <= t} |-> events[k]]

Items(first) == [k \in 1..Len(first) |-> first[k]]

\* So the events up to that candle are those of the first candles.
LEMMA FinalEvents ==
    ASSUME NEW events, NEW first, NEW t, Early(first, t), Extends(events, first, t)
    PROVE  UpTo(events, t) = Items(first)
  <1>1. PICK n \in Nat : n = Len(events) /\ DOMAIN events = 1..n
    BY ListDomain DEF Extends
  <1>2. PICK f \in Nat : f = Len(first)
    BY ListDomain DEF Early
  <1>3. f <= n /\ (\A k \in 1..f : events[k] = first[k]) /\ \A k \in (f + 1)..n : ~(events[k].at <= t)
    BY <1>1, <1>2 DEF Extends
  <1>4. \A k \in 1..f : first[k].at <= t
    BY <1>2 DEF Early
  <1>5. PICK D : D = {m \in DOMAIN events : events[m].at <= t}
    OBVIOUS
  <1>6. \A k : k \in D <=> k \in 1..f
    <2>1. ASSUME NEW k \in D PROVE k \in 1..f
      <3>1. k \in 1..n /\ events[k].at <= t
        BY <1>1, <1>5, <2>1
      <3>2. ~(k \in (f + 1)..n)
        BY <1>3, <3>1
      <3>3. QED
        BY <1>1, <1>2, <3>1, <3>2
    <2>2. ASSUME NEW k \in 1..f PROVE k \in D
      <3>1. k \in 1..n
        BY <1>3, <2>2
      <3>2. QED
        BY <1>1, <1>3, <1>4, <1>5, <3>1
    <2>3. QED
      BY <2>1, <2>2
  <1>7. D = 1..f
    BY <1>6
  <1>8. [k \in D |-> events[k]] = [k \in 1..f |-> first[k]]
    BY <1>3, <1>7
  <1>9. QED
    BY <1>2, <1>5, <1>8, Zenon DEF UpTo, Items

\* A window that goes on from where it was is the old one with candles added.
LEMMA SeriesOrdered ==
    ASSUME IsChart(chart), NEW n \in Nat \ {0}
    PROVE  Ordered(Series(n))
  <1>1. PICK cs : cs = Series(n)
    OBVIOUS
  <1>2. cs \in Seq(Ohlc) /\ \A j \in 1..Len(cs) : cs[j].time = (j - 1) * n
    BY <1>1, SeriesProperties
  <1>3. Len(cs) \in Nat
    BY <1>2, LenProperties
  <1>4. ASSUME NEW i \in 1..Len(cs), NEW j \in 1..Len(cs), i < j
        PROVE  cs[i].time < cs[j].time
    <2>1. PICK x \in Nat, d \in Nat \ {0} : x = i - 1 /\ j - 1 = x + d
      <3>1. i - 1 \in Nat /\ j - i \in Nat \ {0} /\ j - 1 = (i - 1) + (j - i)
        BY <1>3, <1>4
      <3>2. QED
        BY <3>1
    <2>2. cs[i].time = x * n /\ cs[j].time = (x + d) * n
      BY <1>2, <2>1
    <2>3. (x + d) * n = x * n + d * n /\ d * n > 0 /\ x * n \in Nat /\ d * n \in Nat
      BY <2>1
    <2>4. QED
      BY <2>2, <2>3
  <1>5. QED
    BY <1>1, <1>2, <1>4 DEF Ordered

IsCut(w, cs, a, b) ==
    Ordered(w) /\ Len(w) = b - a /\ \A i \in 1..(b - a) : w[i] = cs[a + i]

\* A slice of candles in order is in order.
LEMMA SliceOrdered ==
    ASSUME NEW cs, Ordered(cs), NEW a \in Nat, NEW b \in 0..Len(cs), a <= b
    PROVE  IsCut(SubSeq(cs, a + 1, b), cs, a, b)
  <1>1. PICK w : w = SubSeq(cs, a + 1, b)
    OBVIOUS
  <1>2. cs \in Seq(Ohlc) /\ Len(cs) \in Nat
    BY LenProperties DEF Ordered
  <1>3. w \in Seq(Ohlc) /\ Len(w) = b - a /\ \A i \in 1..Len(w) : w[i] = cs[a + i]
    BY <1>1, <1>2, SliceType
  <1>4. ASSUME NEW i \in 1..Len(w), NEW j \in 1..Len(w), i < j
        PROVE  w[i].time < w[j].time
    <2>1. a + i \in 1..Len(cs) /\ a + j \in 1..Len(cs) /\ a + i < a + j
      BY <1>2, <1>3, <1>4
    <2>2. cs[a + i].time < cs[a + j].time
      BY <2>1 DEF Ordered
    <2>3. QED
      BY <1>3, <2>2
  <1>5. IsCut(w, cs, a, b)
    BY <1>3, <1>4 DEF Ordered, IsCut
  <1>6. QED
    BY <1>1, <1>5

\* The window of a pair is a slice of its candles, up to a time.
SliceOf(w, cs, t) ==
    \E a \in Nat, b \in 0..Len(cs) :
        /\ a <= b /\ (b > 0 => a < b) /\ b = BisectRight(cs, t)
        /\ IsCut(w, cs, a, b)

\* The window of a pair at a time is such a slice.
LEMMA WindowSlice ==
    ASSUME IsChart(chart), NEW pair \in PairType, NEW now \in Int,
           NEW cs, cs = Series(pair.htf), NEW t \in Int, t = now + 1 - pair.htf
    PROVE  SliceOf(Window(pair, now), cs, t)
  <1>1. pair.htf \in Nat \ {0} /\ pair.lookback \in Nat /\ pair.lookback > 2
    BY DEF PairType
  <1>2. Ordered(cs)
    BY <1>1, SeriesOrdered
  <1>3. cs \in Seq(Ohlc) /\ Len(cs) \in Nat
    BY <1>2, LenProperties DEF Ordered
  <1>4. PICK seen : seen = Visible(pair, now)
    OBVIOUS
  <1>5. seen = Until(cs, t)
    BY <1>4 DEF Visible
  <1>6. PICK b \in 0..Len(cs) : b = BisectRight(cs, t)
    BY <1>3, BisectProperties
  <1>7. seen \in Seq(Ohlc) /\ Len(seen) = b /\ \A i \in 1..b : seen[i] = cs[i]
    BY <1>3, <1>5, <1>6, UntilType
  <1>8. PICK a \in Nat : a = IF b <= pair.lookback THEN 0 ELSE b - pair.lookback
    BY <1>1, <1>3
  <1>9. a <= b /\ (b > 0 => a < b) /\ Larger(1, Len(seen) - pair.lookback + 1) = a + 1
    BY <1>1, <1>3, <1>7, <1>8 DEF Larger
  <1>10. Window(pair, now) = SubSeq(seen, a + 1, b)
    BY <1>4, <1>7, <1>9, Zenon DEF Window
  <1>11. SubSeq(seen, a + 1, b) = SubSeq(cs, a + 1, b)
    <2>1. \A i \in 1..(b - a) : a + i \in 1..b
      BY <1>3
    <2>2. PICK u : u = SubSeq(seen, a + 1, b)
      OBVIOUS
    <2>3. PICK w : w = SubSeq(cs, a + 1, b)
      OBVIOUS
    <2>4. u \in Seq(Ohlc) /\ Len(u) = b - a /\ \A i \in 1..Len(u) : u[i] = seen[a + i]
      <3>1. b \in 0..Len(seen)
        BY <1>3, <1>7
      <3>2. QED
        BY <1>7, <1>9, <2>2, <3>1, SliceType
    <2>5. w \in Seq(Ohlc) /\ Len(w) = b - a /\ \A i \in 1..Len(w) : w[i] = cs[a + i]
      BY <1>3, <1>9, <2>3, SliceType
    <2>6. \A i \in 1..Len(u) : u[i] = w[i]
      BY <1>7, <2>1, <2>4, <2>5
    <2>7. u = w
      BY <2>4, <2>5, <2>6, SeqEqual
    <2>8. QED
      BY <2>2, <2>3, <2>7
  <1>12. PICK w : w = Window(pair, now)
    OBVIOUS
  <1>13. w = SubSeq(cs, a + 1, b)
    BY <1>10, <1>11, <1>12
  <1>14. IsCut(w, cs, a, b)
    BY <1>2, <1>9, <1>13, SliceOrdered, Zenon
  <1>15. SliceOf(w, cs, t)
    BY <1>6, <1>9, <1>14 DEF SliceOf
  <1>16. QED
    BY <1>12, <1>15

\* A later slice that starts with the same candle goes on from the earlier.
LEMMA SliceGrows ==
    ASSUME NEW cs, Ordered(cs), NEW t \in Int, NEW t2 \in Int, t <= t2,
           NEW before, SliceOf(before, cs, t), NEW after, SliceOf(after, cs, t2),
           Len(before) > 0, before[1] = after[1]
    PROVE  Ordered(before) /\ Ordered(after) /\ FirstOf(before, after)
  <1>1. Ordered(cs)
    OBVIOUS
  <1>2. cs \in Seq(Ohlc) /\ Len(cs) \in Nat
    BY <1>1, LenProperties DEF Ordered
  <1>3. PICK a \in Nat, b \in 0..Len(cs) :
              /\ a <= b /\ (b > 0 => a < b) /\ b = BisectRight(cs, t)
              /\ Ordered(before) /\ Len(before) = b - a
              /\ \A i \in 1..(b - a) : before[i] = cs[a + i]
    BY Zenon DEF SliceOf, IsCut
  <1>4. PICK c \in Nat, d \in 0..Len(cs) :
              /\ c <= d /\ (d > 0 => c < d) /\ d = BisectRight(cs, t2)
              /\ Ordered(after) /\ Len(after) = d - c
              /\ \A i \in 1..(d - c) : after[i] = cs[c + i]
    BY Zenon DEF SliceOf, IsCut
  <1>5. b <= d
    <2>1. b = BisectRight(cs, t) /\ d = BisectRight(cs, t2) /\ t <= t2
      BY <1>3, <1>4
    <2>2. b \in 1..Len(cs)
      BY <1>2, <1>3
    <2>3. cs[b].time <= t
      BY <1>2, <2>1, <2>2, BisectProperties
    <2>4. cs[b].time \in Nat
      <3>1. cs[b] \in Ohlc
        BY <1>2, <2>2, ElementOfSeq
      <3>2. QED
        BY <3>1 DEF Ohlc
    <2>5. cs[b].time <= t2
      BY <2>1, <2>3, <2>4
    <2>6. QED
      BY <1>2, <2>1, <2>2, <2>5, BisectProperties
  <1>6. a = c
    <2>1. a + 1 \in 1..Len(cs) /\ c + 1 \in 1..Len(cs) /\ 1 \in 1..(b - a) /\ 1 \in 1..(d - c)
      BY <1>2, <1>3, <1>4, <1>5
    <2>2. cs[a + 1] = cs[c + 1]
      BY <1>3, <1>4, <2>1
    <2>3. cs[a + 1].time \in Nat /\ cs[c + 1].time \in Nat
      <3>1. cs[a + 1] \in Ohlc /\ cs[c + 1] \in Ohlc
        BY <1>2, <2>1, ElementOfSeq
      <3>2. QED
        BY <3>1 DEF Ohlc
    <2>4. ~(a + 1 < c + 1) /\ ~(c + 1 < a + 1)
      BY <1>1, <2>1, <2>2, <2>3 DEF Ordered
    <2>5. QED
      BY <2>4
  <1>7. FirstOf(before, after)
    <2>1. before \in Seq(Ohlc) /\ Len(before) <= Len(after)
      BY <1>2, <1>3, <1>4, <1>5, <1>6 DEF Ordered
    <2>2. ASSUME NEW i \in 1..Len(before) PROVE before[i] = after[i]
      <3>1. i \in 1..(b - a) /\ i \in 1..(d - c)
        BY <1>2, <1>3, <1>5, <1>6
      <3>2. QED
        BY <1>3, <1>4, <1>6, <3>1
    <2>3. QED
      BY <2>1, <2>2 DEF FirstOf
  <1>8. QED
    BY <1>3, <1>4, <1>7

\* So does the window of a pair, one candle later.
LEMMA WindowGrows ==
    ASSUME IsChart(chart), NEW pair \in PairType, NEW now \in Int,
           NEW before, before = Window(pair, now), NEW after, after = Window(pair, now + 1),
           Len(before) > 0, before[1] = after[1]
    PROVE  Ordered(before) /\ Ordered(after) /\ FirstOf(before, after)
  <1>1. pair.htf \in Nat \ {0}
    BY DEF PairType
  <1>2. PICK cs : cs = Series(pair.htf)
    OBVIOUS
  <1>3. Ordered(cs)
    BY <1>1, <1>2, SeriesOrdered
  <1>4. PICK t \in Int : t = now + 1 - pair.htf
    BY <1>1
  <1>5. SliceOf(before, cs, t)
    BY <1>2, <1>4, WindowSlice
  <1>6. PICK later \in Int : later = now + 1
    OBVIOUS
  <1>7. PICK t2 \in Int : t2 = later + 1 - pair.htf
    BY <1>1
  <1>8. SliceOf(after, cs, t2)
    BY <1>2, <1>6, <1>7, WindowSlice
  <1>9. t <= t2
    BY <1>1, <1>4, <1>6, <1>7
  <1>10. QED
    BY <1>3, <1>5, <1>8, <1>9, SliceGrows

\* The breaks of two windows that share their first candles.
LEMMA SameBreaks ==
    ASSUME NEW before, NEW after, Ordered(before), Ordered(after), FirstOf(before, after),
           Len(before) > PivotBars, NEW time, time = before[Len(before) - PivotBars].time
    PROVE  BreaksUntil(before, time) = BreaksUntil(after, time)
  <1>1. before \in Seq(Ohlc) /\ after \in Seq(Ohlc) /\ PivotBars \in Nat \ {0}
    BY BacktestAssumption DEF Ordered
  <1>2. Len(before) \in Nat /\ Len(after) \in Nat
    BY <1>1, LenProperties
  <1>3. PICK m \in Nat : m = Len(before) - PivotBars
    BY <1>1, <1>2
  <1>4. m \in 1..Len(before) /\ m \in 1..Len(after)
    BY <1>1, <1>2, <1>3 DEF FirstOf
  <1>5. time = before[m].time /\ time = after[m].time
    BY <1>3, <1>4 DEF FirstOf
  <1>6. PICK hs, ls : hs = PivotHighs(before, PivotBars) /\ ls = PivotLows(before, PivotBars)
    OBVIOUS
  <1>7. PICK hs2, ls2 : hs2 = PivotHighs(after, PivotBars) /\ ls2 = PivotLows(after, PivotBars)
    OBVIOUS
  <1>8. PICK F, G : F = BosWalk(before, hs, ls) /\ G = BosWalk(after, hs2, ls2)
    OBVIOUS
  <1>9. IsBos(F, before, hs, ls) /\ IsBos(G, after, hs2, ls2)
    BY <1>1, <1>8, BosRuns, Zenon
  <1>10. BosTyped(F, before)
    <2>1. hs \subseteq DOMAIN before /\ ls \subseteq DOMAIN before
      BY <1>6 DEF PivotHighs, PivotLows, Inner
    <2>2. QED
      BY <1>1, <1>8, <2>1, BosWalkTyped, Zenon DEF BosTyped
  <1>11. F[m] = G[m]
    <2>1. /\ IsBos(F, before, PivotHighs(before, PivotBars), PivotLows(before, PivotBars))
          /\ IsBos(G, after, PivotHighs(after, PivotBars), PivotLows(after, PivotBars))
      BY <1>6, <1>7, <1>9
    <2>2. PICK pivot \in Nat \ {0} : pivot = PivotBars
      BY <1>1
    <2>3. /\ IsBos(F, before, PivotHighs(before, pivot), PivotLows(before, pivot))
          /\ IsBos(G, after, PivotHighs(after, pivot), PivotLows(after, pivot))
          /\ m = Len(before) - pivot
      BY <1>3, <2>1, <2>2
    <2>4. QED
      BY <1>1, <1>10, <2>3, WalksAgree
  <1>12. Early(F[m].events, time) /\ Extends(F[Len(before)].events, F[m].events, time)
    BY <1>4, <1>5, <1>9, EventsSplit, Zenon
  <1>13. Extends(G[Len(after)].events, G[m].events, time)
    BY <1>4, <1>5, <1>9, EventsSplit, Zenon
  <1>14. PICK first, es, fs : /\ first = F[m].events /\ es = F[Len(before)].events
                              /\ fs = G[Len(after)].events
    OBVIOUS
  <1>15. Early(first, time) /\ Extends(es, first, time) /\ Extends(fs, first, time)
    BY <1>11, <1>12, <1>13, <1>14
  <1>16. DetectBosEvents(before, PivotBars) = es /\ DetectBosEvents(after, PivotBars) = fs
    BY <1>6, <1>7, <1>8, <1>14, Zenon DEF DetectBosEvents
  <1>17. BreaksUntil(before, time) = Items(first)
    <2>1. UpTo(es, time) = Items(first)
      BY <1>15, FinalEvents, Zenon
    <2>2. QED
      BY <1>16, <2>1, Zenon DEF BreaksUntil, UpTo
  <1>18. BreaksUntil(after, time) = Items(first)
    <2>1. UpTo(fs, time) = Items(first)
      BY <1>15, FinalEvents, Zenon
    <2>2. QED
      BY <1>16, <2>1, Zenon DEF BreaksUntil, UpTo
  <1>19. QED
    BY <1>17, <1>18

\* A break of structure with PivotBars closed candles after it is final, for
\* every chart, pair, lookback and number of pivot bars (detect_bos_events).
THEOREM SettledBreaksStay == Spec => SettledBreaks
  <1>1. BaseInv => BreaksStay
    <2> SUFFICES ASSUME BaseInv, NEW p \in DOMAIN Pairs,
                        NEW before, before = Window(Pairs[p], Now),
                        NEW after, after = Window(Pairs[p], Now + 1),
                        Len(before) > PivotBars, before[1] = after[1],
                        NEW time, time = before[Len(before) - PivotBars].time
                 PROVE  BreaksUntil(before, time) = BreaksUntil(after, time)
      BY DEF BreaksStay
    <2>1. PICK now \in Int : now = Now
      BY DEF BaseInv, Now
    <2>2. PICK pair \in PairType : pair = Pairs[p]
      BY PairsTyped
    <2>3. IsChart(chart)
      BY DEF BaseInv
    <2>4. before = Window(pair, now) /\ after = Window(pair, now + 1)
      BY <2>1, <2>2
    <2>5. Len(before) > 0
      <3>1. before \in Seq(Ohlc)
        BY <2>3, <2>4, WindowType
      <3>2. QED
        BY <3>1, LenProperties, BacktestAssumption
    <2>6. Ordered(before) /\ Ordered(after) /\ FirstOf(before, after)
      BY <2>3, <2>4, <2>5, WindowGrows
    <2>7. QED
      BY <2>6, SameBreaks
  <1>2. QED
    BY <1>1, BaseType, PTL DEF SettledBreaks

-----------------------------------------------------------------------------
(***************************************************************************)
(* The drawdowns                                                           *)
(***************************************************************************)
\* The running sums of a list.
LEMMA SumsEquations ==
    ASSUME NEW rrs \in Seq(Int)
    PROVE  /\ Sums(rrs)[0] = 0
           /\ \A i \in 1..Len(rrs) : Sums(rrs)[i] = Sums(rrs)[i - 1] + rrs[i]
           /\ \A i \in 0..Len(rrs) : Sums(rrs)[i] \in Int
  <1> DEFINE n == Len(rrs)
             V == Int
             A == 0
             Step(i, v) == v + rrs[i]
             Walks(f) == [i \in 0..n |-> IF i = 0 THEN A ELSE Step(i, f[i - 1])]
             F == CHOOSE f : f = Walks(f)
             step == [i \in 1..n |-> [v \in V |-> Step(i, v)]]
  <1>1. n \in Nat
    BY LenProperties
  <1>2. Sums(rrs) = F
    BY DEF Sums
  <1>3. A \in V
    OBVIOUS
  <1>4. ASSUME NEW i \in 1..n, NEW v \in V PROVE Step(i, v) \in V
    BY <1>1, ElementOfSeq
  <1>5. SUFFICES /\ F[0] = A /\ \A i \in 1..n : F[i] = Step(i, F[i - 1])
                 /\ \A i \in 0..n : F[i] \in V
    <2> HIDE DEF F
    <2>1. QED
      BY <1>2, Zenon
  <1> HIDE DEF n, V, A, Step
  <1>6. PICK h : IsRun(h, n, V, A, step)
    <2>1. step \in [1..n -> [V -> V]]
      BY <1>4
    <2> HIDE DEF step
    <2>2. QED
      BY <1>1, <1>3, <2>1, IterationExists
  <1>7. h \in [0..n -> V] /\ h[0] = A /\ \A i \in 1..n : h[i] = Step(i, h[i - 1])
    <2>1. h \in [0..n -> V] /\ h[0] = A /\ \A i \in 1..n : h[i] = step[i][h[i - 1]]
      BY <1>6 DEF IsRun
    <2>2. ASSUME NEW i \in 1..n PROVE h[i] = Step(i, h[i - 1])
      <3>1. h[i - 1] \in V
        BY <1>1, <2>1
      <3>2. QED
        BY <2>1, <3>1
    <2>3. QED
      BY <2>1, <2>2
  <1>8. ASSUME NEW g, g = Walks(g)
        PROVE  g[0] = A /\ \A i \in 1..n : g[i] = Step(i, g[i - 1])
    <2>1. \A i \in 0..n : g[i] = IF i = 0 THEN A ELSE Step(i, g[i - 1])
      <3>1. \A i \in 0..n : Walks(g)[i] = IF i = 0 THEN A ELSE Step(i, g[i - 1])
        BY Zenon
      <3>2. QED
        BY <1>8, <3>1, Zenon
    <2>2. 0 \in 0..n /\ \A i \in 1..n : i \in 0..n /\ i # 0
      BY <1>1
    <2>3. QED
      BY <2>1, <2>2, Zenon
  <1>9. h = Walks(h)
    <2>1. h = [i \in 0..n |-> h[i]]
      BY <1>7
    <2>2. ASSUME NEW i \in 0..n PROVE h[i] = IF i = 0 THEN A ELSE Step(i, h[i - 1])
      BY <1>1, <1>7
    <2>3. QED
      BY <2>1, <2>2, Zenon
  <1>10. F = Walks(F)
    <2> HIDE DEF Walks
    <2>1. \E g : g = Walks(g)
      BY <1>9
    <2>2. QED
      BY <2>1, Zenon
  <1>11. F[0] = A /\ \A i \in 1..n : F[i] = Step(i, F[i - 1])
    <2> HIDE DEF F, Walks
    <2>1. QED
      BY <1>8, <1>10
  <1>12. \A i \in 0..n : F[i] \in V
    <2> HIDE DEF F
    <2> DEFINE G == {i \in 0..n : F[i] \in V}
    <2>1. 0 \in G
      BY <1>1, <1>3, <1>11
    <2>2. ASSUME NEW i \in 1..n, i - 1 \in G PROVE i \in G
      BY <1>1, <1>4, <1>11, <2>2
    <2>3. 0..n \subseteq G
      <3> HIDE DEF G
      <3>1. QED
        BY <1>1, <2>1, <2>2, IntervalInduction
    <2>4. QED
      BY <2>3
  <1>13. QED
    BY <1>11, <1>12

\* The walk of a curve.
LEMMA FallsEquations ==
    ASSUME NEW curve \in Seq(Int), curve # <<>>
    PROVE  /\ Falls(curve)[0] = [peak |-> curve[1], dd |-> 0]
           /\ \A i \in 1..Len(curve) : Falls(curve)[i] = LET peak == Larger(Falls(curve)[i - 1].peak, curve[i])
             IN [peak |-> peak, dd |-> Larger(Falls(curve)[i - 1].dd, peak - curve[i])]
           /\ \A i \in 0..Len(curve) : Falls(curve)[i] \in [peak : Int, dd : Int]
  <1> DEFINE n == Len(curve)
             V == [peak : Int, dd : Int]
             A == [peak |-> curve[1], dd |-> 0]
             Step(i, v) == LET peak == Larger(v.peak, curve[i])
             IN [peak |-> peak, dd |-> Larger(v.dd, peak - curve[i])]
             Walks(f) == [i \in 0..n |-> IF i = 0 THEN A ELSE Step(i, f[i - 1])]
             F == CHOOSE f : f = Walks(f)
             step == [i \in 1..n |-> [v \in V |-> Step(i, v)]]
  <1>1. n \in Nat
    BY LenProperties
  <1>2. Falls(curve) = F
    BY DEF Falls
  <1>3. A \in V
    <2>1. 1 \in 1..n
      BY <1>1, EmptySeq
    <2>2. curve[1] \in Int
      BY <2>1, ElementOfSeq
    <2>3. QED
      BY <2>2
  <1>4. ASSUME NEW i \in 1..n, NEW v \in V PROVE Step(i, v) \in V
    <2>1. curve[i] \in Int
      BY <1>1, ElementOfSeq
    <2>2. QED
      BY <2>1 DEF Larger
  <1>5. SUFFICES /\ F[0] = A /\ \A i \in 1..n : F[i] = Step(i, F[i - 1])
                 /\ \A i \in 0..n : F[i] \in V
    <2> HIDE DEF F
    <2>1. QED
      BY <1>2, Zenon
  <1> HIDE DEF n, V, A, Step
  <1>6. PICK h : IsRun(h, n, V, A, step)
    <2>1. step \in [1..n -> [V -> V]]
      BY <1>4
    <2> HIDE DEF step
    <2>2. QED
      BY <1>1, <1>3, <2>1, IterationExists
  <1>7. h \in [0..n -> V] /\ h[0] = A /\ \A i \in 1..n : h[i] = Step(i, h[i - 1])
    <2>1. h \in [0..n -> V] /\ h[0] = A /\ \A i \in 1..n : h[i] = step[i][h[i - 1]]
      BY <1>6 DEF IsRun
    <2>2. ASSUME NEW i \in 1..n PROVE h[i] = Step(i, h[i - 1])
      <3>1. h[i - 1] \in V
        BY <1>1, <2>1
      <3>2. QED
        BY <2>1, <3>1
    <2>3. QED
      BY <2>1, <2>2
  <1>8. ASSUME NEW g, g = Walks(g)
        PROVE  g[0] = A /\ \A i \in 1..n : g[i] = Step(i, g[i - 1])
    <2>1. \A i \in 0..n : g[i] = IF i = 0 THEN A ELSE Step(i, g[i - 1])
      <3>1. \A i \in 0..n : Walks(g)[i] = IF i = 0 THEN A ELSE Step(i, g[i - 1])
        BY Zenon
      <3>2. QED
        BY <1>8, <3>1, Zenon
    <2>2. 0 \in 0..n /\ \A i \in 1..n : i \in 0..n /\ i # 0
      BY <1>1
    <2>3. QED
      BY <2>1, <2>2, Zenon
  <1>9. h = Walks(h)
    <2>1. h = [i \in 0..n |-> h[i]]
      BY <1>7
    <2>2. ASSUME NEW i \in 0..n PROVE h[i] = IF i = 0 THEN A ELSE Step(i, h[i - 1])
      BY <1>1, <1>7
    <2>3. QED
      BY <2>1, <2>2, Zenon
  <1>10. F = Walks(F)
    <2> HIDE DEF Walks
    <2>1. \E g : g = Walks(g)
      BY <1>9
    <2>2. QED
      BY <2>1, Zenon
  <1>11. F[0] = A /\ \A i \in 1..n : F[i] = Step(i, F[i - 1])
    <2> HIDE DEF F, Walks
    <2>1. QED
      BY <1>8, <1>10
  <1>12. \A i \in 0..n : F[i] \in V
    <2> HIDE DEF F
    <2> DEFINE G == {i \in 0..n : F[i] \in V}
    <2>1. 0 \in G
      BY <1>1, <1>3, <1>11
    <2>2. ASSUME NEW i \in 1..n, i - 1 \in G PROVE i \in G
      BY <1>1, <1>4, <1>11, <2>2
    <2>3. 0..n \subseteq G
      <3> HIDE DEF G
      <3>1. QED
        BY <1>1, <2>1, <2>2, IntervalInduction
    <2>4. QED
      BY <2>3
  <1>13. QED
    BY <1>11, <1>12

\* The streaks of a list of flags.
LEMMA StreaksEquations ==
    ASSUME NEW flags \in Seq(BOOLEAN)
    PROVE  /\ Streaks(flags)[0] = 0
           /\ \A i \in 1..Len(flags) : Streaks(flags)[i] = IF flags[i] THEN Streaks(flags)[i - 1] + 1 ELSE 0
           /\ \A i \in 0..Len(flags) : Streaks(flags)[i] \in Nat
  <1> DEFINE n == Len(flags)
             V == Nat
             A == 0
             Step(i, v) == IF flags[i] THEN v + 1 ELSE 0
             Walks(f) == [i \in 0..n |-> IF i = 0 THEN A ELSE Step(i, f[i - 1])]
             F == CHOOSE f : f = Walks(f)
             step == [i \in 1..n |-> [v \in V |-> Step(i, v)]]
  <1>1. n \in Nat
    BY LenProperties
  <1>2. Streaks(flags) = F
    BY DEF Streaks
  <1>3. A \in V
    OBVIOUS
  <1>4. ASSUME NEW i \in 1..n, NEW v \in V PROVE Step(i, v) \in V
    OBVIOUS
  <1>5. SUFFICES /\ F[0] = A /\ \A i \in 1..n : F[i] = Step(i, F[i - 1])
                 /\ \A i \in 0..n : F[i] \in V
    <2> HIDE DEF F
    <2>1. QED
      BY <1>2, Zenon
  <1> HIDE DEF n, V, A, Step
  <1>6. PICK h : IsRun(h, n, V, A, step)
    <2>1. step \in [1..n -> [V -> V]]
      BY <1>4
    <2> HIDE DEF step
    <2>2. QED
      BY <1>1, <1>3, <2>1, IterationExists
  <1>7. h \in [0..n -> V] /\ h[0] = A /\ \A i \in 1..n : h[i] = Step(i, h[i - 1])
    <2>1. h \in [0..n -> V] /\ h[0] = A /\ \A i \in 1..n : h[i] = step[i][h[i - 1]]
      BY <1>6 DEF IsRun
    <2>2. ASSUME NEW i \in 1..n PROVE h[i] = Step(i, h[i - 1])
      <3>1. h[i - 1] \in V
        BY <1>1, <2>1
      <3>2. QED
        BY <2>1, <3>1
    <2>3. QED
      BY <2>1, <2>2
  <1>8. ASSUME NEW g, g = Walks(g)
        PROVE  g[0] = A /\ \A i \in 1..n : g[i] = Step(i, g[i - 1])
    <2>1. \A i \in 0..n : g[i] = IF i = 0 THEN A ELSE Step(i, g[i - 1])
      <3>1. \A i \in 0..n : Walks(g)[i] = IF i = 0 THEN A ELSE Step(i, g[i - 1])
        BY Zenon
      <3>2. QED
        BY <1>8, <3>1, Zenon
    <2>2. 0 \in 0..n /\ \A i \in 1..n : i \in 0..n /\ i # 0
      BY <1>1
    <2>3. QED
      BY <2>1, <2>2, Zenon
  <1>9. h = Walks(h)
    <2>1. h = [i \in 0..n |-> h[i]]
      BY <1>7
    <2>2. ASSUME NEW i \in 0..n PROVE h[i] = IF i = 0 THEN A ELSE Step(i, h[i - 1])
      BY <1>1, <1>7
    <2>3. QED
      BY <2>1, <2>2, Zenon
  <1>10. F = Walks(F)
    <2> HIDE DEF Walks
    <2>1. \E g : g = Walks(g)
      BY <1>9
    <2>2. QED
      BY <2>1, Zenon
  <1>11. F[0] = A /\ \A i \in 1..n : F[i] = Step(i, F[i - 1])
    <2> HIDE DEF F, Walks
    <2>1. QED
      BY <1>8, <1>10
  <1>12. \A i \in 0..n : F[i] \in V
    <2> HIDE DEF F
    <2> DEFINE G == {i \in 0..n : F[i] \in V}
    <2>1. 0 \in G
      BY <1>1, <1>3, <1>11
    <2>2. ASSUME NEW i \in 1..n, i - 1 \in G PROVE i \in G
      BY <1>1, <1>4, <1>11, <2>2
    <2>3. 0..n \subseteq G
      <3> HIDE DEF G
      <3>1. QED
        BY <1>1, <2>1, <2>2, IntervalInduction
    <2>4. QED
      BY <2>3
  <1>13. QED
    BY <1>11, <1>12

\* d is the deepest fall of a curve: no later point is further below an
\* earlier one, and one is as far.
IsDrawdown(d, curve) ==
    /\ d \in Int
    /\ \A i \in 1..Len(curve) : \A j \in 1..i : curve[j] - curve[i] <= d
    /\ \E i \in 1..Len(curve) : \E j \in 1..i : curve[j] - curve[i] = d

\* There is only one such number.
LEMMA OneDrawdown ==
    ASSUME NEW curve \in Seq(Int), NEW c, IsDrawdown(c, curve), NEW d, IsDrawdown(d, curve)
    PROVE  c = d
  <1>1. c \in Int /\ d \in Int
    BY DEF IsDrawdown
  <1>2. c <= d
    BY DEF IsDrawdown
  <1>3. d <= c
    BY DEF IsDrawdown
  <1>4. QED
    BY <1>1, <1>2, <1>3

\* The peak of the first i points, met by the point top, and the deepest fall.
Fallen(c, n, i, top, peak, dd) ==
    /\ peak \in Int /\ dd \in Int
    /\ \A j \in 1..i : c[j] <= peak
    /\ \E j \in 1..top : c[j] = peak
    /\ \A k \in 1..i : \A j \in 1..k : c[j] - c[k] <= dd
    /\ \E k \in 1..n : \E j \in 1..k : c[j] - c[k] = dd

\* A fall from a lower point is no deeper.
LEMMA FallsFurther ==
    ASSUME NEW y \in Int, NEW p \in Int, NEW x \in Int, NEW d \in Int, y <= p, p - x <= d
    PROVE  y - x <= d
  OBVIOUS

\* A point after the first i of a curve.
LEMMA FallsStep ==
    ASSUME NEW n \in Nat, NEW c \in [1..n -> Int], NEW i \in 1..n, NEW peak, NEW dd,
           Fallen(c, n, i - 1, i, peak, dd),
           NEW p, p = Larger(peak, c[i]), NEW d, d = Larger(dd, p - c[i])
    PROVE  Fallen(c, n, i, i, p, d)
  <1> USE DEF Fallen
  <1>1. PICK x \in Int : x = c[i]
    OBVIOUS
  <1>2. p \in Int /\ peak <= p /\ x <= p /\ (p = peak \/ p = x)
    BY <1>1 DEF Larger
  <1>3. d \in Int /\ dd <= d /\ p - x <= d /\ (d = dd \/ d = p - x)
    BY <1>1, <1>2 DEF Larger
  <1>4. i \in Nat /\ i \in 1..i
    OBVIOUS
  <1>5. ASSUME NEW j \in 1..i PROVE c[j] <= p /\ c[j] \in Int
    <2>1. c[j] \in Int
      OBVIOUS
    <2>2. CASE j = i
      BY <1>1, <1>2, <2>1, <2>2
    <2>3. CASE j # i
      <3>1. j \in 1..(i - 1)
        BY <2>3
      <3>2. c[j] <= peak
        BY <3>1
      <3>3. QED
        BY <1>2, <2>1, <3>2
    <2>4. QED
      BY <2>2, <2>3
  <1>6. PICK m \in 1..i : c[m] = p
    <2>1. PICK j \in 1..i : c[j] = peak
      OBVIOUS
    <2>2. QED
      BY <1>1, <1>2, <1>4, <2>1
  <1>7. ASSUME NEW k \in 1..i, NEW j \in 1..k PROVE c[j] - c[k] <= d
    <2>1. j \in 1..i /\ c[j] \in Int /\ c[k] \in Int
      OBVIOUS
    <2>2. CASE k = i
      <3>1. c[j] <= p /\ c[k] = x
        BY <1>1, <1>5, <2>1, <2>2
      <3>2. PICK y \in Int : y = c[j]
        BY <2>1
      <3>3. y - x <= d
        <4>1. y <= p
          BY <3>1, <3>2, Zenon
        <4>2. QED
          BY <1>1, <1>2, <1>3, <4>1, FallsFurther, Zenon
      <3>4. QED
        BY <3>1, <3>2, <3>3, Zenon
    <2>3. CASE k # i
      <3>1. k \in 1..(i - 1)
        BY <2>3
      <3>2. PICK y \in Int : y = c[j] - c[k]
        BY <2>1
      <3>3. y <= dd
        BY <3>1, <3>2
      <3>4. y <= d
        BY <1>3, <3>2, <3>3
      <3>5. QED
        BY <3>2, <3>4
    <2>4. QED
      BY <2>2, <2>3
  <1>8. \E k \in 1..n : \E j \in 1..k : c[j] - c[k] = d
    <2>1. CASE d = dd
      BY <2>1
    <2>2. CASE d = p - x
      <3>1. c[m] - c[i] = d
        BY <1>1, <1>6, <2>2
      <3>2. QED
        BY <3>1
    <2>3. QED
      BY <1>3, <2>1, <2>2
  <1>9. QED
    BY <1>2, <1>3, <1>5, <1>6, <1>7, <1>8

\* The walk finds the deepest fall (summarize_result.py, max_dd).
LEMMA FallsAreDrawdowns ==
    ASSUME NEW curve \in Seq(Int), curve # <<>>
    PROVE  IsDrawdown(Falls(curve)[Len(curve)].dd, curve)
  <1>1. PICK n \in Nat : n = Len(curve) /\ 1 \in 1..n
    BY LenProperties, EmptySeq
  <1>2. PICK c \in [1..n -> Int] : c = curve
    BY <1>1
  <1>3. PICK F : F = Falls(curve)
    OBVIOUS
  <1>4. /\ F[0] = [peak |-> c[1], dd |-> 0]
        /\ \A i \in 1..n : F[i] = LET peak == Larger(F[i - 1].peak, c[i])
                                  IN [peak |-> peak, dd |-> Larger(F[i - 1].dd, peak - c[i])]
    BY <1>1, <1>2, <1>3, FallsEquations
  <1> DEFINE Ok(i) == Fallen(c, n, i, Larger(i, 1), F[i].peak, F[i].dd)
             S == {i \in 0..n : Ok(i)}
  <1>5. 0 \in S
    <2>1. F[0].peak = c[1] /\ F[0].dd = 0 /\ c[1] \in Int /\ Larger(0, 1) = 1
      BY <1>1, <1>4 DEF Larger
    <2>2. c[1] - c[1] = F[0].dd /\ 1 \in 1..1
      BY <2>1
    <2>3. \E k \in 1..n : \E j \in 1..k : c[j] - c[k] = F[0].dd
      BY <1>1, <2>2
    <2>4. Ok(0)
      BY <2>1, <2>2, <2>3 DEF Fallen
    <2>5. QED
      BY <2>4
  <1>6. ASSUME NEW i \in 1..n, i - 1 \in S PROVE i \in S
    <2>1. PICK peak, dd : peak = F[i - 1].peak /\ dd = F[i - 1].dd
      OBVIOUS
    <2>2. Fallen(c, n, i - 1, Larger(i - 1, 1), peak, dd)
      BY <1>6, <2>1, Zenon
    <2>3. \A j \in 1..Larger(i - 1, 1) : j \in 1..i
      BY DEF Larger
    <2>4. Fallen(c, n, i - 1, i, peak, dd)
      BY <2>2, <2>3, Zenon DEF Fallen
    <2>5. PICK p, d : p = Larger(peak, c[i]) /\ d = Larger(dd, p - c[i])
      OBVIOUS
    <2>6. Fallen(c, n, i, i, p, d)
      BY <2>4, <2>5, FallsStep, Zenon
    <2>7. F[i].peak = p /\ F[i].dd = d
      <3>1. F[i] = [peak |-> p, dd |-> d]
        BY <1>4, <2>1, <2>5, Zenon
      <3>2. QED
        BY <3>1
    <2>8. Larger(i, 1) = i
      BY DEF Larger
    <2>9. Ok(i)
      BY <2>6, <2>7, <2>8, Zenon
    <2>10. QED
      BY <2>9
  <1>7. n \in S
    <2> HIDE DEF S
    <2>1. 0..n \subseteq S
      BY <1>5, <1>6, IntervalInduction
    <2>2. QED
      BY <2>1
  <1>8. QED
    BY <1>1, <1>2, <1>3, <1>7 DEF IsDrawdown, Fallen

\* So does the streak analysis, which takes all falls at once (_max_dd).
LEMMA MaxDdIsDrawdown ==
    ASSUME NEW rrs \in Seq(Int), rrs # <<>>
    PROVE  IsDrawdown(-MaxDd(rrs), Equity(rrs))
  <1>1. PICK n \in Nat : n = Len(rrs) /\ DOMAIN rrs = 1..n /\ 1 \in 1..n
    BY LenProperties, EmptySeq
  <1>2. PICK c : c = Equity(rrs)
    OBVIOUS
  <1>3. c \in [1..n -> Int] /\ c \in Seq(Int) /\ Len(c) = n
    <2>1. \A i \in 1..n : Sums(rrs)[i] \in Int
      BY <1>1, SumsEquations
    <2>2. c \in [1..n -> Int]
      BY <1>1, <1>2, <2>1 DEF Equity
    <2>3. QED
      BY <1>1, <2>2
  <1> DEFINE Points(i) == {c[j] : j \in 1..i}
             Peak(i) == Max(Points(i))
             f == [i \in 1..n |-> c[i] - Peak(i)]
             T == {f[i] : i \in 1..n}
  <1>4. ASSUME NEW i \in 1..n
        PROVE  /\ Peak(i) \in Int /\ \A j \in 1..i : c[j] <= Peak(i)
               /\ \E j \in 1..i : c[j] = Peak(i)
    <2>1. PICK P : P = Points(i)
      OBVIOUS
    <2>2. P \in SUBSET Int /\ P # {}
      <3>1. i \in 1..i /\ \A j \in 1..i : c[j] \in Int
        BY <1>3
      <3>2. QED
        BY <2>1, <3>1
    <2>3. IsFiniteSet(P)
      <3>1. IsFiniteSet(1..i)
        BY FS_Interval
      <3>2. PICK g : g = [j \in 1..i |-> c[j]]
        OBVIOUS
      <3>3. P = {g[j] : j \in 1..i} /\ DOMAIN g = 1..i
        BY <2>1, <3>2
      <3>4. QED
        BY <3>1, <3>3, ValuesFinite
    <2>4. Max(P) \in P /\ \A x \in P : Max(P) >= x
      BY <2>2, <2>3, MaxOfFinite
    <2>5. PICK m : m = Max(P)
      OBVIOUS
    <2>6. m \in P /\ m \in Int /\ \A x \in P : m >= x
      BY <2>2, <2>4, <2>5
    <2>7. \E j \in 1..i : c[j] = m
      BY <2>1, <2>6
    <2>8. ASSUME NEW j \in 1..i PROVE c[j] <= m
      <3>1. c[j] \in P
        BY <2>1
      <3>2. QED
        BY <2>2, <2>6, <3>1
    <2>9. Peak(i) = m
      BY <2>1, <2>5
    <2>10. QED
      BY <2>6, <2>7, <2>8, <2>9
  <1>5. MaxDd(rrs) = Min(T)
    <2>1. MaxDd(rrs) = Min({c[i] - Peak(i) : i \in DOMAIN rrs})
      BY <1>2 DEF MaxDd
    <2>2. {c[i] - Peak(i) : i \in DOMAIN rrs} = T
      <3> HIDE DEF Peak
      <3>1. QED
        BY <1>1
    <2>3. QED
      BY <2>1, <2>2, Zenon
  <1> HIDE DEF Peak
  <1>6. PICK m : m = Min(T)
    OBVIOUS
  <1>7. m \in T /\ m \in Int /\ \A x \in T : m <= x
    <2>1. \A i \in 1..n : f[i] \in Int
      BY <1>3, <1>4
    <2>2. T \in SUBSET Int /\ f[1] \in T
      BY <1>1, <2>1
    <2>3. IsFiniteSet(T)
      <3>1. IsFiniteSet(1..n) /\ DOMAIN f = 1..n
        BY FS_Interval
      <3>2. QED
        BY <3>1, ValuesFinite
    <2> HIDE DEF T
    <2>4. QED
      BY <1>6, <2>2, <2>3, MinOfFinite
  <1>8. ASSUME NEW i \in 1..n, NEW j \in 1..i PROVE c[j] - c[i] <= -m
    <2>1. f[i] = c[i] - Peak(i) /\ f[i] \in T
      OBVIOUS
    <2>2. m <= c[i] - Peak(i)
      BY <1>7, <2>1
    <2>3. c[j] <= Peak(i) /\ c[j] \in Int /\ c[i] \in Int /\ Peak(i) \in Int
      BY <1>3, <1>4
    <2>4. QED
      BY <1>7, <2>2, <2>3
  <1>9. \E i \in 1..n : \E j \in 1..i : c[j] - c[i] = -m
    <2>1. PICK i \in 1..n : m = f[i]
      BY <1>7
    <2>2. PICK j \in 1..i : c[j] = Peak(i)
      BY <1>4
    <2>3. c[j] - c[i] = -m
      <3>1. m = c[i] - Peak(i) /\ c[i] \in Int /\ Peak(i) \in Int
        BY <1>3, <1>4, <2>1
      <3>2. QED
        BY <2>2, <3>1
    <2>4. QED
      BY <2>3
  <1> HIDE DEF T, f
  <1>10. IsDrawdown(-m, c)
    BY <1>3, <1>7, <1>8, <1>9 DEF IsDrawdown
  <1>11. QED
    BY <1>2, <1>5, <1>6, <1>10, Zenon

\* Point by point, a curve adds up a list.
AddsUp(c, rrs, n) == c[1] = rrs[1] /\ \A i \in 2..n : c[i] = c[i - 1] + rrs[i]

\* A curve begins with nothing and goes on with another.
GoesOn(e, c, n) == e[1] = 0 /\ \A i \in 1..n : e[i + 1] = c[i]

\* The equity curve of a list of trades.
LEMMA EquityTyped ==
    ASSUME NEW rrs \in Seq(Int), NEW n \in Nat \ {0}, n = Len(rrs), NEW c, c = Equity(rrs)
    PROVE  /\ n \in Nat /\ 1 \in 1..n
           /\ c \in [1..n -> Int] /\ c \in Seq(Int) /\ Len(c) = n /\ c # <<>>
           /\ AddsUp(c, rrs, n)
           /\ IsDrawdown(MaxDrawdown(rrs), c)
  <1>1. n \in Nat /\ DOMAIN rrs = 1..n /\ 1 \in 1..n
    BY LenProperties, EmptySeq
  <1>2. PICK F : F = Sums(rrs)
    OBVIOUS
  <1>3. F[0] = 0 /\ (\A i \in 1..n : F[i] = F[i - 1] + rrs[i]) /\ \A i \in 0..n : F[i] \in Int
    BY <1>2, SumsEquations
  <1>4. c = [i \in 1..n |-> F[i]]
    BY <1>1, <1>2 DEF Equity
  <1>5. c \in [1..n -> Int]
    BY <1>1, <1>3, <1>4
  <1>6. c \in Seq(Int) /\ Len(c) = n
    BY <1>1, <1>5
  <1>7. c # <<>>
    BY <1>1, <1>6
  <1>8. \A i \in 1..n : c[i] = F[i]
    BY <1>4
  <1>9. c[1] = rrs[1]
    <2>1. F[1] = F[1 - 1] + rrs[1] /\ 1 - 1 = 0 /\ rrs[1] \in Int
      BY <1>1, <1>3, ElementOfSeq
    <2>2. QED
      BY <1>1, <1>3, <1>8, <2>1
  <1>10. ASSUME NEW i \in 2..n PROVE c[i] = c[i - 1] + rrs[i]
    <2>1. i \in 1..n /\ i - 1 \in 1..n
      BY <1>1
    <2>2. QED
      BY <1>3, <1>8, <2>1
  <1>11. IsDrawdown(MaxDrawdown(rrs), c)
    BY <1>6, <1>7, FallsAreDrawdowns, Zenon DEF MaxDrawdown
  <1>12. QED
    BY <1>1, <1>2, <1>5, <1>6, <1>7, <1>8, <1>9, <1>10, <1>11 DEF AddsUp

\* A curve that starts from nothing has one point more, and the others after it.
LEMMA FromNothing ==
    ASSUME NEW rrs \in Seq(Int), NEW n \in Nat \ {0}, n = Len(rrs), NEW c, c = Equity(rrs),
           NEW z, z = << 0 >> \o rrs, NEW e, e = Equity(z)
    PROVE  /\ z \in Seq(Int) /\ Len(z) = n + 1
           /\ GoesOn(e, c, n)
  <1>1. n \in Nat /\ 1 \in 1..n /\ c[1] = rrs[1] /\ \A i \in 2..n : c[i] = c[i - 1] + rrs[i]
    <2>1. AddsUp(c, rrs, n)
      BY EquityTyped
    <2>2. QED
      BY <2>1 DEF AddsUp
  <1>2. PICK o : o = <<0>>
    OBVIOUS
  <1>3. o \in Seq(Int) /\ Len(o) = 1 /\ o[1] = 0
    BY <1>2
  <1>4. z \in Seq(Int) /\ Len(z) = n + 1 /\ z[1] = 0
    BY <1>1, <1>2, <1>3, ConcatProperties
  <1>5. ASSUME NEW i \in 1..n PROVE z[i + 1] = rrs[i]
    BY <1>1, <1>2, <1>3, ConcatProperties
  <1>6. n + 1 \in Nat \ {0}
    BY <1>1
  <1>7. e[1] = 0 /\ \A i \in 2..(n + 1) : e[i] = e[i - 1] + z[i]
    <2>1. AddsUp(e, z, n + 1)
      BY <1>4, <1>6, EquityTyped
    <2>2. QED
      BY <1>4, <2>1 DEF AddsUp
  <1> DEFINE S == {i \in 0..n : i > 0 => e[i + 1] = c[i]}
  <1>8. 0 \in S
    BY <1>1
  <1>9. ASSUME NEW i \in 1..n, i - 1 \in S PROVE i \in S
    <2>1. i + 1 \in 2..(n + 1) /\ (i + 1) - 1 = i /\ (i - 1) + 1 = i /\ i \in 0..n
      BY <1>1
    <2>2. e[i + 1] = e[i] + rrs[i] /\ rrs[i] \in Int
      BY <1>5, <1>7, <2>1, ElementOfSeq
    <2>3. CASE i = 1
      BY <1>1, <1>7, <2>1, <2>2, <2>3
    <2>4. CASE i # 1
      <3>1. i \in 2..n /\ i - 1 > 0
        BY <1>1, <2>4
      <3>2. e[i] = c[i - 1]
        BY <1>9, <2>1, <3>1
      <3>3. QED
        BY <1>1, <2>1, <2>2, <3>1, <3>2
    <2>5. QED
      BY <2>3, <2>4
  <1>10. 0..n \subseteq S
    <2> HIDE DEF S
    <2>1. QED
      BY <1>1, <1>8, <1>9, IntervalInduction
  <1>11. \A i \in 1..n : e[i + 1] = c[i]
    BY <1>10
  <1>12. QED
    BY <1>4, <1>6, <1>7, <1>11 DEF GoesOn

\* The fall from the start is the fall from the first point, or deeper by at
\* most a losing first trade.
LEMMA FallFromTheStart ==
    ASSUME NEW n \in Nat, NEW c \in [1..n -> Int], NEW d, c \in Seq(Int), Len(c) = n, 1 \in 1..n,
           IsDrawdown(d, c), NEW e \in Seq(Int), Len(e) = n + 1,
           GoesOn(e, c, n), NEW f, IsDrawdown(f, e)
    PROVE  d <= f /\ f <= d + Larger(0, -c[1])
  <1> USE DEF GoesOn
  <1>1. d \in Int /\ f \in Int /\ c[1] \in Int
    BY DEF IsDrawdown
  <1>2. d <= f
    <2>1. PICK i \in 1..n : \E j \in 1..i : c[j] - c[i] = d
      BY DEF IsDrawdown
    <2>2. PICK j \in 1..i : c[j] - c[i] = d
      BY <2>1
    <2>3. i + 1 \in 1..(n + 1) /\ j + 1 \in 1..(i + 1) /\ j \in 1..n
      OBVIOUS
    <2>4. e[j + 1] - e[i + 1] <= f
      BY <2>3 DEF IsDrawdown
    <2>5. QED
      BY <2>2, <2>3, <2>4
  <1>3. PICK i \in 1..(n + 1) : \E j \in 1..i : e[j] - e[i] = f
    BY DEF IsDrawdown
  <1>4. PICK j \in 1..i : e[j] - e[i] = f
    BY <1>3
  <1>5. \A k \in 1..n : \A m \in 1..k : c[m] - c[k] <= d
    BY DEF IsDrawdown
  <1>6. 0 <= d
    <2>1. 1 \in 1..1 /\ c[1] - c[1] = 0
      BY <1>1
    <2>2. QED
      BY <1>1, <1>5, <2>1
  <1>7. 0 <= Larger(0, -c[1]) /\ -c[1] <= Larger(0, -c[1]) /\ Larger(0, -c[1]) \in Int
    BY <1>1 DEF Larger
  <1>8. CASE i = 1
    BY <1>1, <1>2, <1>4, <1>6, <1>7, <1>8
  <1>9. CASE i # 1
    <2>1. PICK k \in 1..n : k + 1 = i
      <3>1. i - 1 \in 1..n /\ (i - 1) + 1 = i
        BY <1>9
      <3>2. QED
        BY <3>1
    <2>2. e[i] = c[k] /\ c[k] \in Int
      BY <2>1
    <2>3. CASE j = 1
      <3>1. c[1] - c[k] <= d
        BY <1>5, <2>1
      <3>2. f = 0 - c[k]
        BY <1>4, <2>2, <2>3
      <3>3. QED
        BY <1>1, <1>2, <1>7, <2>2, <3>1, <3>2
    <2>4. CASE j # 1
      <3>1. PICK m \in 1..k : m + 1 = j
        <4>1. j - 1 \in 1..k /\ (j - 1) + 1 = j
          BY <2>1, <2>4
        <4>2. QED
          BY <4>1
      <3>2. e[j] = c[m] /\ c[m] \in Int /\ c[m] - c[k] <= d
        BY <1>5, <2>1, <3>1
      <3>3. QED
        BY <1>1, <1>2, <1>4, <1>7, <2>2, <3>2
    <2>5. QED
      BY <2>3, <2>4
  <1>10. QED
    BY <1>2, <1>8, <1>9

\* The R drawdowns of the dashboard and of the streak analysis.
LEMMA RDrawdowns ==
    ASSUME NEW rrs \in Seq(Int), rrs # <<>>
    PROVE  /\ MaxDrawdown(rrs) = -MaxDd(rrs)
           /\ MaxDrawdown(rrs) <= MaxDrawdown(<<0>> \o rrs)
           /\ MaxDrawdown(<<0>> \o rrs) <= MaxDrawdown(rrs) + Larger(0, -rrs[1])
  <1>1. PICK n \in Nat \ {0} : n = Len(rrs)
    BY LenProperties, EmptySeq
  <1>2. PICK c : c = Equity(rrs)
    OBVIOUS
  <1>3. PICK z : z = <<0>> \o rrs
    OBVIOUS
  <1>4. PICK e : e = Equity(z)
    OBVIOUS
  <1>5. /\ n \in Nat /\ 1 \in 1..n /\ c \in [1..n -> Int] /\ c \in Seq(Int) /\ Len(c) = n
        /\ c[1] = rrs[1] /\ IsDrawdown(MaxDrawdown(rrs), c)
    BY <1>1, <1>2, EquityTyped DEF AddsUp
  <1>6. IsDrawdown(-MaxDd(rrs), c)
    BY <1>1, <1>2, MaxDdIsDrawdown
  <1>7. MaxDrawdown(rrs) = -MaxDd(rrs)
    BY <1>5, <1>6, OneDrawdown
  <1>8. z \in Seq(Int) /\ Len(z) = n + 1 /\ GoesOn(e, c, n)
    BY <1>1, <1>2, <1>3, <1>4, FromNothing
  <1>9. e \in Seq(Int) /\ Len(e) = n + 1 /\ IsDrawdown(MaxDrawdown(z), e)
    BY <1>4, <1>5, <1>8, EquityTyped
  <1>10. PICK d, f : d = MaxDrawdown(rrs) /\ f = MaxDrawdown(z)
    OBVIOUS
  <1>11. d <= f /\ f <= d + Larger(0, -c[1])
    BY <1>5, <1>8, <1>9, <1>10, FallFromTheStart, Zenon
  <1>12. QED
    BY <1>3, <1>5, <1>7, <1>10, <1>11, Zenon

\* One more item adds to the sum.
LEMMA TotalGrows ==
    ASSUME NEW s \in Seq(Int), NEW x \in Int
    PROVE  Total(s) \in Int /\ Total(Append(s, x)) = Total(s) + x
  <1>1. PICK n \in Nat : n = Len(s)
    BY LenProperties
  <1>2. PICK t : t = Append(s, x)
    OBVIOUS
  <1>3. /\ t \in Seq(Int) /\ Len(t) = n + 1 /\ t[n + 1] = x
        /\ \A i \in 1..n : t[i] = s[i]
    BY <1>1, <1>2, AppendProperties
  <1>4. PICK F, G : F = Sums(s) /\ G = Sums(t)
    OBVIOUS
  <1>5. F[0] = 0 /\ (\A i \in 1..n : F[i] = F[i - 1] + s[i]) /\ \A i \in 0..n : F[i] \in Int
    BY <1>1, <1>4, SumsEquations
  <1>6. G[0] = 0 /\ \A i \in 1..(n + 1) : G[i] = G[i - 1] + t[i]
    BY <1>3, <1>4, SumsEquations
  <1> DEFINE S == {i \in 0..n : G[i] = F[i]}
  <1>7. 0 \in S
    BY <1>5, <1>6
  <1>8. ASSUME NEW i \in 1..n, i - 1 \in S PROVE i \in S
    <2>1. i \in 1..(n + 1) /\ i \in 0..n
      OBVIOUS
    <2>2. G[i] = G[i - 1] + t[i] /\ F[i] = F[i - 1] + s[i] /\ t[i] = s[i] /\ G[i - 1] = F[i - 1]
      BY <1>3, <1>5, <1>6, <1>8, <2>1
    <2>3. QED
      BY <2>1, <2>2
  <1>9. n \in S
    <2> HIDE DEF S
    <2>1. 0..n \subseteq S
      BY <1>7, <1>8, IntervalInduction
    <2>2. QED
      BY <2>1
  <1>10. G[n + 1] = F[n] + x
    <2>1. n + 1 \in 1..(n + 1) /\ (n + 1) - 1 = n
      OBVIOUS
    <2>2. QED
      BY <1>3, <1>6, <1>9, <2>1
  <1>11. Total(s) = F[n] /\ Total(t) = G[n + 1]
    BY <1>1, <1>3, <1>4, Zenon DEF Total
  <1>12. QED
    BY <1>2, <1>5, <1>10, <1>11

\* A function on 1..n is a list of n items.
LEMMA FunctionIsList ==
    ASSUME NEW n \in Nat, NEW T, NEW f \in [1..n -> T]
    PROVE  f \in Seq(T) /\ Len(f) = n
  OBVIOUS

\* Gains less losses are the sum (gross_profit, gross_loss).
LEMMA GrossSplit ==
    ASSUME NEW account, NEW s \in Seq(Int), s = account.pnls
    PROVE  GrossProfit(account) - GrossLoss(account) = Total(s)
  <1>1. PICK n \in Nat : n = Len(s) /\ DOMAIN s = 1..n /\ \A i \in 1..n : s[i] \in Int
    BY LenProperties, ElementOfSeq
  <1>2. PICK up, down : /\ up = [i \in 1..n |-> Larger(s[i], 0)]
                         /\ down = [i \in 1..n |-> Larger(-s[i], 0)]
    OBVIOUS
  <1>3. GrossProfit(account) = Total(up) /\ GrossLoss(account) = Total(down)
    BY <1>1, <1>2, Zenon DEF GrossProfit, GrossLoss
  <1>4. \A i \in 1..n : up[i] \in Int /\ down[i] \in Int /\ up[i] - down[i] = s[i]
    BY <1>1, <1>2 DEF Larger
  <1>5. up \in Seq(Int) /\ Len(up) = n /\ down \in Seq(Int) /\ Len(down) = n
    <2>1. PICK f, g : f = up /\ g = down
      OBVIOUS
    <2>2. f \in [1..n -> Int] /\ g \in [1..n -> Int]
      BY <1>1, <1>2, <2>1 DEF Larger
    <2>3. f \in Seq(Int) /\ Len(f) = n
      BY <1>1, <2>2, FunctionIsList, Zenon
    <2>4. g \in Seq(Int) /\ Len(g) = n
      BY <1>1, <2>2, FunctionIsList, Zenon
    <2>5. QED
      BY <2>1, <2>3, <2>4, Zenon
  <1>6. PICK F, U, D : F = Sums(s) /\ U = Sums(up) /\ D = Sums(down)
    OBVIOUS
  <1>7. F[0] = 0 /\ (\A i \in 1..n : F[i] = F[i - 1] + s[i]) /\ \A i \in 0..n : F[i] \in Int
    BY <1>1, <1>6, SumsEquations
  <1>8. U[0] = 0 /\ (\A i \in 1..n : U[i] = U[i - 1] + up[i]) /\ \A i \in 0..n : U[i] \in Int
    BY <1>5, <1>6, SumsEquations
  <1>9. D[0] = 0 /\ (\A i \in 1..n : D[i] = D[i - 1] + down[i]) /\ \A i \in 0..n : D[i] \in Int
    BY <1>5, <1>6, SumsEquations
  <1> DEFINE S == {i \in 0..n : U[i] - D[i] = F[i]}
  <1>10. 0 \in S
    BY <1>1, <1>7, <1>8, <1>9
  <1>11. ASSUME NEW i \in 1..n, i - 1 \in S PROVE i \in S
    <2>1. i \in 0..n /\ i - 1 \in 0..n
      BY <1>1
    <2>2. PICK u, d, f, x, y, z : /\ u = U[i - 1] /\ d = D[i - 1] /\ f = F[i - 1]
                                 /\ x = up[i] /\ y = down[i] /\ z = s[i]
      OBVIOUS
    <2>3. /\ u \in Int /\ d \in Int /\ f \in Int /\ x \in Int /\ y \in Int /\ z \in Int
          /\ x - y = z /\ u - d = f
      BY <1>1, <1>4, <1>7, <1>8, <1>9, <1>11, <2>1, <2>2
    <2>4. U[i] = u + x /\ D[i] = d + y /\ F[i] = f + z
      BY <1>7, <1>8, <1>9, <2>2, Zenon
    <2>5. U[i] - D[i] = F[i]
      BY <2>3, <2>4
    <2>6. QED
      BY <2>1, <2>5
  <1>12. n \in S
    <2> HIDE DEF S
    <2>1. 0..n \subseteq S
      BY <1>1, <1>10, <1>11, IntervalInduction
    <2>2. QED
      BY <1>1, <2>1
  <1>13. Total(s) = F[n] /\ Total(up) = U[n] /\ Total(down) = D[n]
    BY <1>1, <1>5, <1>6, Zenon DEF Total
  <1>14. QED
    BY <1>3, <1>12, <1>13

\* One more point leaves the peak and the falls of the others.
LEMMA FallenGrows ==
    ASSUME NEW bs \in Seq(Int), NEW m \in Nat, m = Len(bs), NEW x \in Int,
           NEW peak, NEW dd, Fallen(bs, m, m, m, peak, dd),
           NEW p, p = Larger(peak, x), NEW d, d = Larger(dd, p - x)
    PROVE  Fallen(Append(bs, x), m + 1, m + 1, m + 1, p, d)
  <1>1. PICK n \in Nat : n = m + 1
    OBVIOUS
  <1>2. PICK c : c = Append(bs, x)
    OBVIOUS
  <1>3. /\ c \in Seq(Int) /\ Len(c) = n /\ c[n] = x
        /\ \A i \in 1..m : c[i] = bs[i]
    BY <1>1, <1>2, AppendProperties
  <1>4. c \in [1..n -> Int] /\ n \in 1..n /\ n - 1 = m
    BY <1>1, <1>3
  <1>5. peak \in Int /\ dd \in Int
    BY DEF Fallen
  <1>6. \A j \in 1..m : c[j] <= peak
    BY <1>3 DEF Fallen
  <1>7. \E j \in 1..n : c[j] = peak
    <2>1. PICK j \in 1..m : bs[j] = peak
      BY DEF Fallen
    <2>2. j \in 1..n /\ c[j] = peak
      BY <1>1, <1>3, <2>1
    <2>3. QED
      BY <2>2
  <1>8. ASSUME NEW k \in 1..m, NEW j \in 1..k PROVE c[j] - c[k] <= dd
    <2>1. bs[j] - bs[k] <= dd
      BY DEF Fallen
    <2>2. c[j] = bs[j] /\ c[k] = bs[k]
      BY <1>3
    <2>3. QED
      BY <2>1, <2>2, Zenon
  <1>9. \E k \in 1..n : \E j \in 1..k : c[j] - c[k] = dd
    <2>1. PICK k \in 1..m : \E j \in 1..k : bs[j] - bs[k] = dd
      BY DEF Fallen
    <2>2. PICK j \in 1..k : bs[j] - bs[k] = dd
      BY <2>1
    <2>3. c[j] = bs[j] /\ c[k] = bs[k] /\ k \in 1..n
      BY <1>1, <1>3
    <2>4. c[j] - c[k] = dd
      BY <2>2, <2>3, Zenon
    <2>5. QED
      BY <2>3, <2>4
  <1>10. Fallen(c, n, n - 1, n, peak, dd)
    BY <1>4, <1>5, <1>6, <1>7, <1>8, <1>9, Zenon DEF Fallen
  <1>11. Fallen(c, n, n, n, p, d)
    BY <1>3, <1>4, <1>10, FallsStep, Zenon
  <1>12. QED
    BY <1>1, <1>2, <1>11, Zenon

\* The books of an account after k trades: the balances with their peak and
\* their deepest fall, and the gains that lead to the balance.
Ledger(v, k) ==
    /\ v.balance \in Int
    /\ v.pnls \in Seq(Int) /\ Len(v.pnls) = k
    /\ v.balances \in Seq(Int) /\ Len(v.balances) = k + 1
    /\ Fallen(v.balances, k + 1, k + 1, k + 1, v.peak, v.max_dd)
    /\ v.balance = StartBalance + Total(v.pnls)

\* A new account has no trades.
LEMMA LedgerStart == Ledger(NewAccount, 0)
  <1>1. PICK b : b = <<StartBalance>>
    OBVIOUS
  <1>2. StartBalance \in Int
    BY ReportAssumption
  <1>3. b \in Seq(Int) /\ Len(b) = 1 /\ b[1] = StartBalance
    BY <1>1, <1>2
  <1>4. PICK e : e = <<>>
    OBVIOUS
  <1>5. e \in Seq(Int) /\ Len(e) = 0
    BY <1>4
  <1>6. Total(e) = 0
    <2>1. Sums(e)[0] = 0
      BY <1>5, SumsEquations
    <2>2. QED
      BY <1>5, <2>1, Zenon DEF Total
  <1>7. Fallen(b, 1, 1, 1, StartBalance, 0)
    BY <1>2, <1>3 DEF Fallen
  <1>8. PICK v : v = NewAccount
    OBVIOUS
  <1>9. /\ v.balance = StartBalance /\ v.peak = StartBalance /\ v.max_dd = 0
        /\ v.pnls = e /\ v.balances = b
    BY <1>1, <1>4, <1>8 DEF NewAccount
  <1>10. v.balance = StartBalance + Total(v.pnls)
    BY <1>2, <1>6, <1>9
  <1>11. v.balance \in Int /\ 0 + 1 = 1
    BY <1>2, <1>9
  <1>12. Ledger(v, 0)
    BY <1>3, <1>5, <1>7, <1>9, <1>10, <1>11, Zenon DEF Ledger
  <1>13. QED
    BY <1>8, <1>12

\* A trade keeps the books.
LEMMA LedgerStep ==
    ASSUME NEW a \in Account, NEW k \in Nat, NEW v, Ledger(v, k), v.blown = "none",
           NEW rr \in Int, NEW w, w = AccountTrade(v, rr, a)
    PROVE  Ledger(w, k + 1)
  <1>1. PICK bs, ps, balance, peak, dd : /\ bs = v.balances /\ ps = v.pnls /\ balance = v.balance
                                       /\ peak = v.peak /\ dd = v.max_dd
    OBVIOUS
  <1>2. /\ balance \in Int /\ ps \in Seq(Int) /\ Len(ps) = k /\ bs \in Seq(Int) /\ Len(bs) = k + 1
        /\ Fallen(bs, k + 1, k + 1, k + 1, peak, dd) /\ balance = StartBalance + Total(ps)
    BY <1>1, Zenon DEF Ledger
  <1>3. peak \in Int
    BY <1>2 DEF Fallen
  <1>4. PICK one : one = TradeAccounting(balance, peak, rr, a)
    OBVIOUS
  <1>5. /\ one.balance \in Int /\ one.pnl \in Int /\ one.peak = Larger(peak, one.balance)
        /\ one.balance = balance + one.pnl
    <2>1. SameRisk(a, a)
      BY DEF SameRisk
    <2>2. QED
      BY <1>2, <1>3, <1>4, <2>1, OneTrade
  <1>6. PICK x, y : x = one.balance /\ y = one.pnl
    OBVIOUS
  <1>7. PICK p : p = Larger(peak, x)
    OBVIOUS
  <1>8. PICK d : d = Larger(dd, p - x)
    OBVIOUS
  <1>9. w = [balance |-> x, peak |-> p, max_dd |-> d, pnls |-> Append(ps, y),
              balances |-> Append(bs, x), blown |-> BlownBy(one, a)]
    BY <1>1, <1>4, <1>5, <1>6, <1>7, <1>8, Zenon DEF AccountTrade
  <1>10. /\ w.balance = x /\ w.peak = p /\ w.max_dd = d /\ w.pnls = Append(ps, y)
         /\ w.balances = Append(bs, x)
    BY <1>9
  <1>11. x \in Int /\ y \in Int /\ x = balance + y
    BY <1>5, <1>6
  <1>12. Append(ps, y) \in Seq(Int) /\ Len(Append(ps, y)) = k + 1
    <2>1. ps \in Seq(Int) /\ Len(ps) = k /\ y \in Int
      BY <1>2, <1>11, Zenon
    <2>2. QED
      BY <2>1, AppendProperties
  <1>13. Append(bs, x) \in Seq(Int) /\ Len(Append(bs, x)) = (k + 1) + 1
    <2>1. bs \in Seq(Int) /\ Len(bs) = k + 1 /\ x \in Int
      BY <1>2, <1>11, Zenon
    <2>2. QED
      BY <2>1, AppendProperties
  <1>14. k + 1 \in Nat
    OBVIOUS
  <1>15. Fallen(Append(bs, x), (k + 1) + 1, (k + 1) + 1, (k + 1) + 1, p, d)
    BY <1>2, <1>7, <1>8, <1>11, <1>14, FallenGrows, Zenon
  <1>16. x = StartBalance + Total(Append(ps, y))
    <2>1. Total(ps) \in Int /\ Total(Append(ps, y)) = Total(ps) + y
      BY <1>2, <1>11, TotalGrows
    <2>2. PICK t \in Int : t = Total(ps)
      BY <2>1
    <2>3. StartBalance \in Int
      BY ReportAssumption
    <2>4. balance = StartBalance + t /\ Total(Append(ps, y)) = t + y
      BY <1>2, <2>1, <2>2, Zenon
    <2>5. QED
      BY <1>11, <2>2, <2>3, <2>4
  <1>17. QED
    BY <1>10, <1>11, <1>12, <1>13, <1>15, <1>16, Zenon DEF Ledger

\* The account after i trades is the account after the last it took.
Kept(K, i) ==
    \E m \in 0..i : Ledger(K[m], m) /\ K[i] = K[m] /\ (K[m].blown = "none" => m = i)

\* So it is at every trade, whether or not the account stopped before.
LEMMA AccountKept ==
    ASSUME NEW rrs \in Seq(Int), NEW a \in Account, NEW K, IsAccount(K, rrs, a)
    PROVE  \A i \in 0..Len(rrs) : Kept(K, i)
  <1>1. PICK n \in Nat : n = Len(rrs)
    BY LenProperties
  <1>2. K[0] = NewAccount /\ \A i \in 1..n : K[i] = AccountTrade(K[i - 1], rrs[i], a)
    BY <1>1, Zenon DEF IsAccount
  <1> DEFINE S == {i \in 0..n : Kept(K, i)}
  <1>3. 0 \in S
    <2>1. Ledger(K[0], 0) /\ 0 \in 0..0
      BY <1>2, LedgerStart
    <2>2. Kept(K, 0)
      BY <2>1 DEF Kept
    <2>3. QED
      BY <2>2
  <1>4. ASSUME NEW i \in 1..n, i - 1 \in S PROVE i \in S
    <2>1. PICK m \in 0..(i - 1) :
            Ledger(K[m], m) /\ K[i - 1] = K[m] /\ (K[m].blown = "none" => m = i - 1)
      BY <1>4 DEF Kept
    <2>2. PICK v, w, rr : v = K[i - 1] /\ w = K[i] /\ rr = rrs[i]
      OBVIOUS
    <2>3. rr \in Int /\ w = AccountTrade(v, rr, a)
      BY <1>1, <1>2, <2>2, ElementOfSeq
    <2>4. CASE v.blown = "none"
      <3>1. PICK k \in Nat : k = i - 1 /\ k + 1 = i /\ k = m
        BY <2>1, <2>2, <2>4
      <3>2. Ledger(v, k)
        BY <2>1, <2>2, <3>1, Zenon
      <3>3. Ledger(w, k + 1)
        BY <2>3, <2>4, <3>1, <3>2, LedgerStep
      <3>4. Ledger(K[i], i) /\ i \in 0..i
        BY <2>2, <3>1, <3>3
      <3>5. Kept(K, i)
        BY <3>4 DEF Kept
      <3>6. QED
        BY <3>5
    <2>5. CASE v.blown # "none"
      <3>1. w = v
        BY <2>3, <2>5 DEF AccountTrade
      <3>2. m \in 0..i /\ K[i] = K[m] /\ K[m].blown # "none"
        BY <2>1, <2>2, <2>5, <3>1
      <3>3. Kept(K, i)
        BY <2>1, <3>2, Zenon DEF Kept
      <3>4. QED
        BY <3>3
    <2>6. QED
      BY <2>4, <2>5
  <1>5. 0..n \subseteq S
    <2> HIDE DEF S
    <2>1. QED
      BY <1>3, <1>4, IntervalInduction
  <1>6. QED
    BY <1>1, <1>5

\* A list begins with another of length m.
Begins(rrs, part, m) == \A i \in 1..m : part[i] = rrs[i]

\* The account of the first trades is the account after them.
LEMMA AccountOfTheFirst ==
    ASSUME NEW rrs \in Seq(Int), NEW part \in Seq(Int), NEW m, m = Len(part), m <= Len(rrs),
           Begins(rrs, part, m), NEW a,
           NEW K, IsAccount(K, rrs, a), NEW J, IsAccount(J, part, a)
    PROVE  J[m] = K[m]
  <1>1. m \in Nat /\ \A i \in 1..m : i \in 1..Len(rrs)
    BY LenProperties
  <1>2. K[0] = NewAccount /\ \A i \in 1..m : K[i] = AccountTrade(K[i - 1], rrs[i], a)
    BY <1>1, Zenon DEF IsAccount
  <1>3. J[0] = NewAccount /\ \A i \in 1..m : J[i] = AccountTrade(J[i - 1], part[i], a)
    BY Zenon DEF IsAccount
  <1> DEFINE S == {i \in 0..m : J[i] = K[i]}
  <1>4. 0 \in S
    BY <1>1, <1>2, <1>3
  <1>5. ASSUME NEW i \in 1..m, i - 1 \in S PROVE i \in S
    <2>1. J[i - 1] = K[i - 1] /\ part[i] = rrs[i] /\ i \in 0..m
      BY <1>1, <1>5 DEF Begins
    <2>2. J[i] = K[i]
      BY <1>2, <1>3, <2>1, Zenon
    <2>3. QED
      BY <2>1, <2>2
  <1>6. m \in S
    <2> HIDE DEF S
    <2>1. 0..m \subseteq S
      BY <1>1, <1>4, <1>5, IntervalInduction
    <2>2. QED
      BY <1>1, <2>1
  <1>7. QED
    BY <1>6

\* The trades of a saved file are the first of the run.
LEMMA SavedTyped ==
    ASSUME RowsInv, NEW rrs, rrs = RRs(rows), NEW acct, NEW m, m = TradesRun(rrs, acct),
           m \in 0..Len(rrs), NEW part, part = RRs(Saved(rows, acct))
    PROVE  part \in Seq(Int) /\ Len(part) = m /\ Begins(rrs, part, m)
  <1>1. PICK n \in Nat : n = Len(rows) /\ n = Len(rrs) /\ rrs \in Seq(Int)
    BY RRsTyped
  <1>2. PICK S : rows \in Seq(S)
    BY DEF RowsInv, IsList
  <1>3. PICK q : q = SubSeq(rows, 1, m)
    OBVIOUS
  <1>4. m \in Nat /\ m <= n
    BY <1>1
  <1>5. DOMAIN q = 1..m /\ \A i \in 1..m : q[i] = rows[i]
    BY <1>1, <1>2, <1>3, <1>4, SubSeqProperties
  <1>6. Saved(rows, acct) = q
    BY <1>3 DEF Saved
  <1>7. part = [i \in 1..m |-> q[i].rr]
    BY <1>5, <1>6 DEF RRs
  <1>8. \A i \in 1..m : rrs[i] = rows[i].rr /\ rows[i].rr \in Int
    <2>1. DOMAIN rows = 1..n
      BY <1>1, <1>2, LenProperties
    <2>2. rrs = [i \in 1..n |-> rows[i].rr]
      BY <2>1 DEF RRs
    <2>3. \A i \in 1..m : i \in 1..n
      BY <1>4
    <2>4. QED
      BY <1>1, <2>2, <2>3 DEF RowsInv
  <1>9. \A i \in 1..m : part[i] = rrs[i]
    BY <1>5, <1>7, <1>8
  <1>10. part \in [1..m -> Int]
    BY <1>5, <1>7, <1>8
  <1>11. QED
    BY <1>4, <1>9, <1>10, FunctionIsList DEF Begins

\* The balances of a saved file fall as far as the account did, and what it
\* gained less what it lost is what it has more than at the start.
LEMMA MoneyAgrees ==
    ASSUME RowsInv, NEW rrs, rrs = RRs(rows), NEW acct \in Account,
           NEW account, account = ComputeAccounting(rrs, acct),
           NEW bs, bs = EquityCurve(RRs(Saved(rows, acct)), acct)
    PROVE  /\ TradesRun(rrs, acct) \in 0..Len(rows)
           /\ bs \in Seq(Int) /\ Len(bs) = TradesRun(rrs, acct) + 1
           /\ IsDrawdown(account.max_dd, bs)
           /\ account.balance - StartBalance = GrossProfit(account) - GrossLoss(account)
  <1>1. PICK n \in Nat : n = Len(rrs) /\ rrs \in Seq(Int)
    BY RRsTyped
  <1>2. PICK K : K = AccountWalk(rrs, acct)
    OBVIOUS
  <1>3. IsAccount(K, rrs, acct) /\ account = K[n]
    BY <1>1, <1>2, AccountRuns, Zenon DEF ComputeAccounting
  <1>4. Kept(K, n)
    BY <1>1, <1>3, AccountKept
  <1>5. PICK m \in 0..n : Ledger(K[m], m) /\ account = K[m]
    BY <1>3, <1>4, Zenon DEF Kept
  <1>6. PICK cs, ps : cs = account.balances /\ ps = account.pnls
    OBVIOUS
  <1>7. /\ ps \in Seq(Int) /\ Len(ps) = m /\ cs \in Seq(Int) /\ Len(cs) = m + 1
        /\ Fallen(cs, m + 1, m + 1, m + 1, account.peak, account.max_dd)
        /\ account.balance \in Int /\ account.balance = StartBalance + Total(ps)
    BY <1>5, <1>6, Zenon DEF Ledger
  <1>8. m = TradesRun(rrs, acct)
    BY <1>6, <1>7 DEF TradesRun
  <1>9. PICK part : part = RRs(Saved(rows, acct))
    OBVIOUS
  <1>10. part \in Seq(Int) /\ Len(part) = m /\ Begins(rrs, part, m)
    <2>1. m \in 0..Len(rrs)
      BY <1>1, <1>5
    <2>2. QED
      BY <1>8, <1>9, <2>1, SavedTyped
  <1>11. PICK J : J = AccountWalk(part, acct)
    OBVIOUS
  <1>12. IsAccount(J, part, acct)
    BY <1>10, <1>11, AccountRuns, Zenon
  <1>13. J[m] = K[m]
    <2>1. m <= Len(rrs)
      BY <1>1, <1>5
    <2>2. QED
      BY <1>1, <1>3, <1>10, <1>12, <2>1, AccountOfTheFirst
  <1>14. EquityCurve(part, acct) = cs
    BY <1>5, <1>6, <1>10, <1>11, <1>13, Zenon DEF EquityCurve, ComputeAccounting
  <1>15. bs = cs
    BY <1>9, <1>14, Zenon
  <1>16. IsDrawdown(account.max_dd, cs)
    BY <1>7, Zenon DEF IsDrawdown, Fallen
  <1>17. m \in 0..Len(rows)
    BY <1>1, <1>5, RRsTyped
  <1>18. GrossProfit(account) - GrossLoss(account) = Total(ps)
    BY <1>6, <1>7, GrossSplit
  <1>19. account.balance - StartBalance = Total(ps)
    <2>1. PICK t \in Int : t = Total(ps)
      BY <1>7, TotalGrows
    <2>2. QED
      BY <1>7, <2>1, ReportAssumption
  <1>20. QED
    BY <1>7, <1>8, <1>15, <1>16, <1>17, <1>18, <1>19, Zenon

\* The walk of _loss_streak_lengths, trade by trade.
IsLossWalk(W, res, n) ==
    /\ W[0] = [out |-> <<>>, cur |-> 0]
    /\ \A i \in 1..n :
          W[i] = IF res[i] = "L" THEN [W[i - 1] EXCEPT !.cur = @ + 1]
                 ELSE [out |-> IF W[i - 1].cur = 0 THEN W[i - 1].out
                               ELSE Append(W[i - 1].out, W[i - 1].cur),
                       cur |-> 0]
    /\ \A i \in 0..n : W[i] \in [out : Seq(Nat), cur : Nat]

\* LossWalk is such a walk.
LEMMA LossWalkEquations ==
    ASSUME NEW T, NEW res \in Seq(T)
    PROVE  IsLossWalk(LossWalk(res), res, Len(res))
  <1> DEFINE n == Len(res)
             V == [out : Seq(Nat), cur : Nat]
             A == [out |-> <<>>, cur |-> 0]
             Step(i, v) == IF res[i] = "L" THEN [v EXCEPT !.cur = @ + 1]
             ELSE [out |-> IF v.cur = 0 THEN v.out ELSE Append(v.out, v.cur), cur |-> 0]
             Walks(f) == [i \in 0..n |-> IF i = 0 THEN A ELSE Step(i, f[i - 1])]
             F == CHOOSE f : f = Walks(f)
             step == [i \in 1..n |-> [v \in V |-> Step(i, v)]]
  <1>1. n \in Nat
    BY LenProperties
  <1>2. LossWalk(res) = F
    BY DEF LossWalk
  <1>3. A \in V
    OBVIOUS
  <1>4. ASSUME NEW i \in 1..n, NEW v \in V PROVE Step(i, v) \in V
    <2>1. PICK o \in Seq(Nat), c \in Nat : o = v.out /\ c = v.cur
      OBVIOUS
    <2>2. Append(o, c) \in Seq(Nat)
      BY <2>1
    <2>3. CASE res[i] = "L"
      <3>1. Step(i, v) = [out |-> o, cur |-> c + 1]
        BY <2>1, <2>3
      <3>2. QED
        BY <3>1
    <2>4. CASE res[i] # "L"
      <3>1. PICK q : q = IF c = 0 THEN o ELSE Append(o, c)
        OBVIOUS
      <3>2. q \in Seq(Nat)
        BY <2>2, <3>1
      <3>3. Step(i, v) = [out |-> q, cur |-> 0]
        BY <2>1, <2>4, <3>1
      <3>4. QED
        BY <3>2, <3>3
    <2>5. QED
      BY <2>3, <2>4
  <1>5. SUFFICES /\ F[0] = A /\ \A i \in 1..n : F[i] = Step(i, F[i - 1])
                 /\ \A i \in 0..n : F[i] \in V
    <2> HIDE DEF F
    <2>1. QED
      BY <1>2, Zenon DEF IsLossWalk
  <1> HIDE DEF n, V, A, Step
  <1>6. PICK h : IsRun(h, n, V, A, step)
    <2>1. step \in [1..n -> [V -> V]]
      BY <1>4
    <2> HIDE DEF step
    <2>2. QED
      BY <1>1, <1>3, <2>1, IterationExists
  <1>7. h \in [0..n -> V] /\ h[0] = A /\ \A i \in 1..n : h[i] = Step(i, h[i - 1])
    <2>1. h \in [0..n -> V] /\ h[0] = A /\ \A i \in 1..n : h[i] = step[i][h[i - 1]]
      BY <1>6 DEF IsRun
    <2>2. ASSUME NEW i \in 1..n PROVE h[i] = Step(i, h[i - 1])
      <3>1. h[i - 1] \in V
        BY <1>1, <2>1
      <3>2. QED
        BY <2>1, <3>1
    <2>3. QED
      BY <2>1, <2>2
  <1>8. ASSUME NEW g, g = Walks(g)
        PROVE  g[0] = A /\ \A i \in 1..n : g[i] = Step(i, g[i - 1])
    <2>1. \A i \in 0..n : g[i] = IF i = 0 THEN A ELSE Step(i, g[i - 1])
      <3>1. \A i \in 0..n : Walks(g)[i] = IF i = 0 THEN A ELSE Step(i, g[i - 1])
        BY Zenon
      <3>2. QED
        BY <1>8, <3>1, Zenon
    <2>2. 0 \in 0..n /\ \A i \in 1..n : i \in 0..n /\ i # 0
      BY <1>1
    <2>3. QED
      BY <2>1, <2>2, Zenon
  <1>9. h = Walks(h)
    <2>1. h = [i \in 0..n |-> h[i]]
      BY <1>7
    <2>2. ASSUME NEW i \in 0..n PROVE h[i] = IF i = 0 THEN A ELSE Step(i, h[i - 1])
      BY <1>1, <1>7
    <2>3. QED
      BY <2>1, <2>2, Zenon
  <1>10. F = Walks(F)
    <2> HIDE DEF Walks
    <2>1. \E g : g = Walks(g)
      BY <1>9
    <2>2. QED
      BY <2>1, Zenon
  <1>11. F[0] = A /\ \A i \in 1..n : F[i] = Step(i, F[i - 1])
    <2> HIDE DEF F, Walks
    <2>1. QED
      BY <1>8, <1>10
  <1>12. \A i \in 0..n : F[i] \in V
    <2> HIDE DEF F
    <2> DEFINE G == {i \in 0..n : F[i] \in V}
    <2>1. 0 \in G
      BY <1>1, <1>3, <1>11
    <2>2. ASSUME NEW i \in 1..n, i - 1 \in G PROVE i \in G
      BY <1>1, <1>4, <1>11, <2>2
    <2>3. 0..n \subseteq G
      <3> HIDE DEF G
      <3>1. QED
        BY <1>1, <2>1, <2>2, IntervalInduction
    <2>4. QED
      BY <2>3
  <1>13. QED
    BY <1>11, <1>12

\* The runs of runs_before, trade by trade.
IsLossRuns(G, res, n) ==
    /\ G[0] = 0
    /\ \A i \in 1..n : G[i] = IF res[i] = "L" THEN G[i - 1] + 1
                              ELSE IF res[i] = "W" THEN 0 ELSE G[i - 1]
    /\ \A i \in 0..n : G[i] \in Nat

\* LossRuns counts them so.
LEMMA LossRunsEquations ==
    ASSUME NEW T, NEW res \in Seq(T)
    PROVE  IsLossRuns(LossRuns(res), res, Len(res))
  <1> DEFINE n == Len(res)
             V == Nat
             A == 0
             Step(i, v) == IF res[i] = "L" THEN v + 1 ELSE IF res[i] = "W" THEN 0 ELSE v
             Walks(f) == [i \in 0..n |-> IF i = 0 THEN A ELSE Step(i, f[i - 1])]
             F == CHOOSE f : f = Walks(f)
             step == [i \in 1..n |-> [v \in V |-> Step(i, v)]]
  <1>1. n \in Nat
    BY LenProperties
  <1>2. LossRuns(res) = F
    BY DEF LossRuns
  <1>3. A \in V
    OBVIOUS
  <1>4. ASSUME NEW i \in 1..n, NEW v \in V PROVE Step(i, v) \in V
    OBVIOUS
  <1>5. SUFFICES /\ F[0] = A /\ \A i \in 1..n : F[i] = Step(i, F[i - 1])
                 /\ \A i \in 0..n : F[i] \in V
    <2> HIDE DEF F
    <2>1. QED
      BY <1>2, Zenon DEF IsLossRuns
  <1> HIDE DEF n, V, A, Step
  <1>6. PICK h : IsRun(h, n, V, A, step)
    <2>1. step \in [1..n -> [V -> V]]
      BY <1>4
    <2> HIDE DEF step
    <2>2. QED
      BY <1>1, <1>3, <2>1, IterationExists
  <1>7. h \in [0..n -> V] /\ h[0] = A /\ \A i \in 1..n : h[i] = Step(i, h[i - 1])
    <2>1. h \in [0..n -> V] /\ h[0] = A /\ \A i \in 1..n : h[i] = step[i][h[i - 1]]
      BY <1>6 DEF IsRun
    <2>2. ASSUME NEW i \in 1..n PROVE h[i] = Step(i, h[i - 1])
      <3>1. h[i - 1] \in V
        BY <1>1, <2>1
      <3>2. QED
        BY <2>1, <3>1
    <2>3. QED
      BY <2>1, <2>2
  <1>8. ASSUME NEW g, g = Walks(g)
        PROVE  g[0] = A /\ \A i \in 1..n : g[i] = Step(i, g[i - 1])
    <2>1. \A i \in 0..n : g[i] = IF i = 0 THEN A ELSE Step(i, g[i - 1])
      <3>1. \A i \in 0..n : Walks(g)[i] = IF i = 0 THEN A ELSE Step(i, g[i - 1])
        BY Zenon
      <3>2. QED
        BY <1>8, <3>1, Zenon
    <2>2. 0 \in 0..n /\ \A i \in 1..n : i \in 0..n /\ i # 0
      BY <1>1
    <2>3. QED
      BY <2>1, <2>2, Zenon
  <1>9. h = Walks(h)
    <2>1. h = [i \in 0..n |-> h[i]]
      BY <1>7
    <2>2. ASSUME NEW i \in 0..n PROVE h[i] = IF i = 0 THEN A ELSE Step(i, h[i - 1])
      BY <1>1, <1>7
    <2>3. QED
      BY <2>1, <2>2, Zenon
  <1>10. F = Walks(F)
    <2> HIDE DEF Walks
    <2>1. \E g : g = Walks(g)
      BY <1>9
    <2>2. QED
      BY <2>1, Zenon
  <1>11. F[0] = A /\ \A i \in 1..n : F[i] = Step(i, F[i - 1])
    <2> HIDE DEF F, Walks
    <2>1. QED
      BY <1>8, <1>10
  <1>12. \A i \in 0..n : F[i] \in V
    <2> HIDE DEF F
    <2> DEFINE G == {i \in 0..n : F[i] \in V}
    <2>1. 0 \in G
      BY <1>1, <1>3, <1>11
    <2>2. ASSUME NEW i \in 1..n, i - 1 \in G PROVE i \in G
      BY <1>1, <1>4, <1>11, <2>2
    <2>3. 0..n \subseteq G
      <3> HIDE DEF G
      <3>1. QED
        BY <1>1, <2>1, <2>2, IntervalInduction
    <2>4. QED
      BY <2>3
  <1>13. QED
    BY <1>11, <1>12

-----------------------------------------------------------------------------
(***************************************************************************)
(* The longest losing streak                                               *)
(***************************************************************************)
\* C[i] flags up to the i-th are set, and the one before them is not.
Counts(C, flags, n) ==
    \A i \in 0..n : /\ C[i] \in 0..i
                    /\ \A k \in 1..i : k > i - C[i] => flags[k]
                    /\ C[i] < i => ~flags[i - C[i]]

\* The streak a trade ends goes back to the last trade that ended one.
LEMMA StreaksCount ==
    ASSUME NEW flags \in Seq(BOOLEAN), NEW n, n = Len(flags), NEW C, C = Streaks(flags)
    PROVE  Counts(C, flags, n)
  <1>1. n \in Nat
    BY LenProperties
  <1>2. C[0] = 0 /\ \A i \in 1..n : C[i] = IF flags[i] THEN C[i - 1] + 1 ELSE 0
    BY StreaksEquations
  <1> DEFINE Ok(i) == /\ C[i] \in 0..i
                      /\ \A k \in 1..i : k > i - C[i] => flags[k]
                      /\ C[i] < i => ~flags[i - C[i]]
             S == {i \in 0..n : Ok(i)}
  <1>3. 0 \in S
    BY <1>1, <1>2
  <1>4. ASSUME NEW i \in 1..n, i - 1 \in S PROVE i \in S
    <2>1. PICK c : c = C[i - 1]
      OBVIOUS
    <2>2. /\ c \in 0..(i - 1) /\ \A k \in 1..(i - 1) : k > (i - 1) - c => flags[k]
          /\ c < i - 1 => ~flags[(i - 1) - c]
      BY <1>4, <2>1
    <2>3. CASE flags[i]
      <3>1. C[i] = c + 1 /\ i - (c + 1) = (i - 1) - c
        BY <1>2, <2>1, <2>2, <2>3
      <3>2. ASSUME NEW k \in 1..i, k > i - C[i] PROVE flags[k]
        <4>1. CASE k = i
          BY <2>3, <4>1
        <4>2. CASE k # i
          <5>1. k \in 1..(i - 1) /\ k > (i - 1) - c
            BY <2>2, <3>1, <3>2, <4>2
          <5>2. QED
            BY <2>2, <5>1
        <4>3. QED
          BY <4>1, <4>2
      <3>3. ASSUME C[i] < i PROVE ~flags[i - C[i]]
        <4>1. c < i - 1
          BY <2>2, <3>1, <3>3
        <4>2. QED
          BY <2>2, <3>1, <4>1, Zenon
      <3>4. C[i] \in 0..i
        BY <2>2, <3>1
      <3>5. QED
        BY <3>2, <3>3, <3>4
    <2>4. CASE ~flags[i]
      <3>1. C[i] = 0 /\ i - 0 = i
        BY <1>2, <2>4
      <3>2. Ok(i)
        BY <2>4, <3>1
      <3>3. QED
        BY <3>2
    <2>5. QED
      BY <2>3, <2>4
  <1>5. 0..n \subseteq S
    <2> HIDE DEF S
    <2>1. QED
      BY <1>1, <1>3, <1>4, IntervalInduction
  <1>6. QED
    BY <1>5 DEF Counts

\* d is the longest of the streaks.
Longest(d, C, n) == d \in Int /\ (\E i \in 0..n : C[i] = d) /\ \A i \in 0..n : C[i] <= d

\* There is only one such number.
LEMMA OneLongest ==
    ASSUME NEW n, NEW C, NEW c, Longest(c, C, n), NEW d, Longest(d, C, n)
    PROVE  c = d
  BY DEF Longest

\* max_loss_streak is the longest.
LEMMA MaxIsLongest ==
    ASSUME NEW n \in Nat, NEW C, \A i \in 0..n : C[i] \in Int
    PROVE  Longest(Max({C[i] : i \in 0..n}), C, n)
  <1>1. PICK f : f = [i \in 0..n |-> C[i]]
    OBVIOUS
  <1>2. PICK T : T = {C[i] : i \in 0..n}
    OBVIOUS
  <1>3. T = {f[i] : i \in 0..n} /\ DOMAIN f = 0..n
    BY <1>1, <1>2
  <1>4. IsFiniteSet(T)
    <2>1. IsFiniteSet(0..n)
      BY FS_Interval
    <2>2. QED
      BY <1>3, <2>1, ValuesFinite
  <1>5. T \in SUBSET Int /\ T # {}
    <2>1. 0 \in 0..n
      OBVIOUS
    <2>2. QED
      BY <1>2, <2>1
  <1>6. PICK m : m = Max(T)
    OBVIOUS
  <1>7. m \in T /\ m \in Int /\ \A x \in T : m >= x
    BY <1>4, <1>5, <1>6, MaxOfFinite
  <1>8. \E i \in 0..n : C[i] = m
    BY <1>2, <1>7
  <1>9. \A i \in 0..n : C[i] <= m
    BY <1>2, <1>5, <1>7
  <1>10. QED
    BY <1>2, <1>6, <1>7, <1>8, <1>9, Zenon DEF Longest

\* The longest stretch of set flags is the longest streak (_max_run).
LEMMA MaxRunIsLongest ==
    ASSUME NEW flags \in Seq(BOOLEAN), NEW n, n = Len(flags), NEW C, Counts(C, flags, n)
    PROVE  Longest(MaxRun(flags), C, n)
  <1>1. n \in Nat /\ DOMAIN flags = 1..n
    BY LenProperties
  <1>2. \A i \in 0..n : C[i] \in 0..i
    BY DEF Counts
  <1> DEFINE Run(a, b) == a <= b /\ \A k \in a..b : flags[k]
             runs == {run \in (1..n) \X (1..n) :
                        run[1] <= run[2] /\ \A k \in run[1]..run[2] : flags[k]}
             R == {run[2] - run[1] + 1 : run \in runs} \cup {0}
  <1>3. MaxRun(flags) = Max(R)
    BY <1>1, Zenon DEF MaxRun
  <1>4. ASSUME NEW a \in 1..n, NEW b \in 1..n, Run(a, b) PROVE b - a + 1 \in R
    <2>1. PICK run : run = <<a, b>>
      OBVIOUS
    <2>2. run \in (1..n) \X (1..n) /\ run[1] = a /\ run[2] = b
      BY <2>1
    <2>3. run \in runs
      BY <1>4, <2>2
    <2>4. run[2] - run[1] + 1 \in R
      BY <2>3
    <2>5. QED
      BY <2>2, <2>4
  <1>5. ASSUME NEW x \in R, x # 0
        PROVE  \E a, b \in 1..n : Run(a, b) /\ x = b - a + 1
    <2>1. PICK run \in runs : x = run[2] - run[1] + 1
      BY <1>5
    <2>2. PICK a, b : a = run[1] /\ b = run[2]
      OBVIOUS
    <2>3. a \in 1..n /\ b \in 1..n /\ Run(a, b) /\ x = b - a + 1
      BY <2>1, <2>2
    <2>4. QED
      BY <2>3
  <1> HIDE DEF R
  <1>6. 0 \in R
    BY DEF R
  <1>7. R \subseteq 0..n
    <2>1. ASSUME NEW x \in R, x # 0 PROVE x \in 0..n
      <3>1. PICK a, b \in 1..n : Run(a, b) /\ x = b - a + 1
        BY <1>5, <2>1
      <3>2. QED
        BY <1>1, <3>1
    <2>2. QED
      BY <1>1, <2>1
  <1>8. IsFiniteSet(R)
    <2>1. IsFiniteSet(0..n)
      BY <1>1, FS_Interval
    <2>2. QED
      BY <1>7, <2>1, FS_Subset
  <1>9. PICK d : d = Max(R)
    OBVIOUS
  <1>10. d \in R /\ d \in 0..n /\ \A x \in R : d >= x
    <2>1. R \in SUBSET Int /\ R # {}
      BY <1>1, <1>6, <1>7
    <2>2. Max(R) \in R /\ \A x \in R : Max(R) >= x
      BY <1>8, <2>1, MaxOfFinite
    <2>3. QED
      BY <1>7, <1>9, <2>2
  <1>11. ASSUME NEW i \in 0..n PROVE C[i] <= d
    <2>1. PICK c \in 0..i : c = C[i]
      BY <1>2
    <2>2. CASE c = 0
      BY <1>6, <1>10, <2>1, <2>2
    <2>3. CASE c # 0
      <3>1. PICK a \in 1..n : a = i - c + 1
        BY <1>1, <2>3
      <3>2. i \in 1..n /\ a <= i
        BY <1>1, <2>3, <3>1
      <3>3. ASSUME NEW k \in a..i PROVE flags[k]
        <4>1. k \in 1..i /\ k > i - c
          BY <3>1
        <4>2. QED
          BY <2>1, <4>1 DEF Counts
      <3>4. i - a + 1 \in R
        BY <1>4, <3>2, <3>3
      <3>5. i - a + 1 = c
        BY <3>1, <3>2
      <3>6. QED
        BY <1>10, <2>1, <3>4, <3>5
    <2>4. QED
      BY <2>2, <2>3
  <1>12. \E i \in 0..n : C[i] = d
    <2>1. CASE d = 0
      <3>1. 0 \in 0..n /\ C[0] = 0
        <4>1. 0 \in 0..n
          BY <1>1
        <4>2. C[0] \in 0..0
          BY <1>2, <4>1
        <4>3. QED
          BY <4>1, <4>2
      <3>2. QED
        BY <2>1, <3>1
    <2>2. CASE d # 0
      <3>1. PICK a, b \in 1..n : Run(a, b) /\ d = b - a + 1
        BY <1>5, <1>10, <2>2
      <3>2. PICK c \in 0..b : c = C[b]
        <4>1. b \in 0..n
          BY <1>1
        <4>2. QED
          BY <1>2, <4>1
      <3>3. c <= d
        BY <1>1, <1>11, <3>2
      <3>4. ~(c < d)
        <4>1. SUFFICES ASSUME c < d PROVE FALSE
          OBVIOUS
        <4>2. PICK k : k = b - c
          OBVIOUS
        <4>3. k \in a..b /\ c < b
          BY <1>10, <3>1, <3>2, <4>1, <4>2
        <4>4. ~flags[k]
          <5>1. b \in 0..n
            BY <1>1
          <5>2. C[b] < b => ~flags[b - C[b]]
            BY <5>1 DEF Counts
          <5>3. QED
            BY <3>2, <4>2, <4>3, <5>2, Zenon
        <4>5. QED
          BY <3>1, <4>3, <4>4
      <3>5. c = d /\ b \in 0..n
        BY <1>1, <1>10, <3>2, <3>3, <3>4
      <3>6. QED
        BY <3>2, <3>5
    <2>3. QED
      BY <2>1, <2>2
  <1>13. QED
    BY <1>3, <1>9, <1>10, <1>11, <1>12 DEF Longest

\* The lengths of a list are streaks among the first i, and every one of those
\* is at most c or at most a length.
Lengths(s, c, C, i) ==
    /\ s \in Seq(Nat) /\ c \in Nat /\ \A j \in 0..i : C[j] \in Nat
    /\ \A k \in 1..Len(s) : \E j \in 0..i : s[k] = C[j]
    /\ \A j \in 0..i : C[j] <= c \/ \E k \in 1..Len(s) : C[j] <= s[k]

\* A streak written down is one of the lengths.
LEMMA StreakWritten ==
    ASSUME NEW s, NEW c, NEW C, NEW i \in Nat, Lengths(s, c, C, i),
           \E j \in 0..i : C[j] = c,
           NEW t, t = Append(s, c)
    PROVE  Lengths(t, 0, C, i)
  <1>1. PICK m : m = Len(s)
    OBVIOUS
  <1>2. s \in Seq(Nat) /\ c \in Nat /\ m \in Nat
    BY <1>1, LenProperties DEF Lengths
  <1>3. t \in Seq(Nat) /\ Len(t) = m + 1 /\ t[m + 1] = c /\ \A k \in 1..m : t[k] = s[k]
    BY <1>1, <1>2
  <1>4. ASSUME NEW k \in 1..(m + 1) PROVE \E j \in 0..i : t[k] = C[j]
    <2>1. CASE k = m + 1
      <3>1. t[k] = c
        BY <1>3, <2>1
      <3>2. QED
        BY <3>1
    <2>2. CASE k # m + 1
      <3>1. k \in 1..m
        BY <1>2, <2>2
      <3>2. \E j \in 0..i : s[k] = C[j]
        BY <1>1, <3>1 DEF Lengths
      <3>3. t[k] = s[k]
        BY <1>3, <3>1
      <3>4. QED
        BY <3>2, <3>3
    <2>3. QED
      BY <2>1, <2>2
  <1>5. ASSUME NEW j \in 0..i PROVE \E k \in 1..(m + 1) : C[j] <= t[k]
    <2>1. C[j] <= c \/ \E k \in 1..m : C[j] <= s[k]
      BY <1>1 DEF Lengths
    <2>2. CASE C[j] <= c
      <3>1. m + 1 \in 1..(m + 1)
        BY <1>2
      <3>2. C[j] <= t[m + 1]
        BY <1>3, <2>2
      <3>3. QED
        BY <3>1, <3>2
    <2>3. CASE \E k \in 1..m : C[j] <= s[k]
      <3>1. PICK k \in 1..m : C[j] <= s[k]
        BY <2>3
      <3>2. k \in 1..(m + 1) /\ C[j] <= t[k]
        BY <1>2, <1>3, <3>1
      <3>3. QED
        BY <3>2
    <2>4. QED
      BY <2>1, <2>2, <2>3
  <1>6. QED
    BY <1>3, <1>4, <1>5 DEF Lengths

\* One more trade: the streak goes on.
LEMMA StreakGoesOn ==
    ASSUME NEW s, NEW c, NEW C, NEW i \in Nat, i # 0, Lengths(s, c, C, i - 1), C[i] = c + 1
    PROVE  Lengths(s, c + 1, C, i)
  <1>1. s \in Seq(Nat) /\ c \in Nat /\ c + 1 \in Nat
    BY DEF Lengths
  <1>2. ASSUME NEW k \in 1..Len(s) PROVE \E j \in 0..i : s[k] = C[j]
    <2>1. PICK j \in 0..(i - 1) : s[k] = C[j]
      BY DEF Lengths
    <2>2. QED
      BY <2>1
  <1>3. ASSUME NEW j \in 0..i PROVE C[j] <= c + 1 \/ \E k \in 1..Len(s) : C[j] <= s[k]
    <2>1. CASE j = i
      BY <1>1, <2>1
    <2>2. CASE j # i
      <3>1. j \in 0..(i - 1)
        BY <2>2
      <3>2. C[j] <= c \/ \E k \in 1..Len(s) : C[j] <= s[k]
        BY <3>1 DEF Lengths
      <3>3. C[j] \in Nat
        BY <3>1 DEF Lengths
      <3>4. QED
        BY <1>1, <3>2, <3>3
    <2>3. QED
      BY <2>1, <2>2
  <1>4. ASSUME NEW j \in 0..i PROVE C[j] \in Nat
    <2>1. CASE j = i
      BY <1>1, <2>1
    <2>2. CASE j # i
      <3>1. j \in 0..(i - 1)
        BY <2>2
      <3>2. QED
        BY <3>1 DEF Lengths
    <2>3. QED
      BY <2>1, <2>2
  <1>5. QED
    BY <1>1, <1>2, <1>3, <1>4 DEF Lengths

\* The first trade after a streak begins again from nothing.
LEMMA StreakEnds ==
    ASSUME NEW s, NEW C, NEW i \in Nat, i # 0, Lengths(s, 0, C, i - 1), C[i] = 0
    PROVE  Lengths(s, 0, C, i)
  <1>1. ASSUME NEW k \in 1..Len(s) PROVE \E j \in 0..i : s[k] = C[j]
    <2>1. PICK j \in 0..(i - 1) : s[k] = C[j]
      BY DEF Lengths
    <2>2. QED
      BY <2>1
  <1>2. ASSUME NEW j \in 0..i
        PROVE  C[j] \in Nat /\ (C[j] <= 0 \/ \E k \in 1..Len(s) : C[j] <= s[k])
    <2>1. CASE j = i
      BY <2>1
    <2>2. CASE j # i
      <3>1. j \in 0..(i - 1)
        BY <2>2
      <3>2. QED
        BY <3>1 DEF Lengths
    <2>3. QED
      BY <2>1, <2>2
  <1>3. s \in Seq(Nat) /\ 0 \in Nat
    BY DEF Lengths
  <1>4. QED
    BY <1>1, <1>2, <1>3 DEF Lengths

\* The walk of _loss_streak_lengths keeps them.
LEMMA LengthsKept ==
    ASSUME NEW T, NEW res \in Seq(T), NEW n, n = Len(res), NEW flags \in Seq(BOOLEAN),
           Len(flags) = n, \A i \in 1..n : flags[i] = (res[i] = "L"),
           NEW C, C = Streaks(flags), NEW W, W = LossWalk(res)
    PROVE  \A i \in 0..n : W[i].cur = C[i] /\ Lengths(W[i].out, C[i], C, i)
  <1>1. n \in Nat
    BY LenProperties
  <1>2. /\ C[0] = 0 /\ \A i \in 1..n : C[i] = IF flags[i] THEN C[i - 1] + 1 ELSE 0
        /\ \A i \in 0..n : C[i] \in Nat
    BY StreaksEquations
  <1>3. /\ W[0] = [out |-> <<>>, cur |-> 0]
        /\ \A i \in 1..n : W[i] = IF res[i] = "L" THEN [W[i - 1] EXCEPT !.cur = @ + 1]
              ELSE [out |-> IF W[i - 1].cur = 0 THEN W[i - 1].out
                            ELSE Append(W[i - 1].out, W[i - 1].cur), cur |-> 0]
        /\ \A i \in 0..n : W[i] \in [out : Seq(Nat), cur : Nat]
    <2>1. IsLossWalk(W, res, n)
      BY LossWalkEquations, Zenon
    <2>2. QED
      BY <2>1, Zenon DEF IsLossWalk
  <1> DEFINE S == {i \in 0..n : W[i].cur = C[i] /\ Lengths(W[i].out, C[i], C, i)}
  <1>4. 0 \in S
    <2>1. W[0].out = <<>> /\ W[0].cur = 0 /\ C[0] = 0
      BY <1>2, <1>3
    <2>2. Lengths(<<>>, 0, C, 0)
      BY <1>2 DEF Lengths
    <2>3. QED
      BY <1>1, <2>1, <2>2
  <1>5. ASSUME NEW i \in 1..n, i - 1 \in S PROVE i \in S
    <2>1. PICK v \in [out : Seq(Nat), cur : Nat] : v = W[i - 1]
      <3>1. i - 1 \in 0..n
        BY <1>1
      <3>2. QED
        BY <1>3, <3>1, Zenon
    <2>2. PICK s, c : s = v.out /\ c = v.cur
      OBVIOUS
    <2>3. c = C[i - 1] /\ Lengths(s, c, C, i - 1)
      BY <1>5, <2>1, <2>2, Zenon
    <2>4. i \in Nat /\ i # 0 /\ i - 1 \in Nat /\ i - 1 \in 0..(i - 1)
      OBVIOUS
    <2>5. CASE res[i] = "L"
      <3>1. C[i] = c + 1
        BY <1>2, <2>3, <2>5
      <3>2. W[i] = [v EXCEPT !.cur = @ + 1]
        BY <1>3, <2>1, <2>5
      <3>3. W[i].out = s /\ W[i].cur = c + 1
        BY <2>1, <2>2, <3>2
      <3>4. Lengths(s, c + 1, C, i)
        BY <2>3, <2>4, <3>1, StreakGoesOn
      <3>5. i \in 0..n
        BY <1>1
      <3>6. QED
        BY <3>1, <3>3, <3>4, <3>5, Zenon
    <2>6. CASE res[i] # "L"
      <3>1. C[i] = 0
        BY <1>2, <2>6
      <3>2. PICK t : t = IF c = 0 THEN s ELSE Append(s, c)
        OBVIOUS
      <3>3. W[i] = [out |-> t, cur |-> 0]
        BY <1>3, <2>1, <2>2, <2>6, <3>2
      <3>4. Lengths(t, 0, C, i - 1)
        <4>1. CASE c = 0
          BY <2>3, <3>2, <4>1, Zenon
        <4>2. CASE c # 0
          <5>1. t = Append(s, c)
            BY <3>2, <4>2
          <5>2. \E j \in 0..(i - 1) : C[j] = c
            BY <2>3, <2>4, Zenon
          <5>3. QED
            BY <2>3, <2>4, <5>1, <5>2, StreakWritten
        <4>3. QED
          BY <4>1, <4>2
      <3>5. Lengths(t, 0, C, i)
        BY <2>4, <3>1, <3>4, StreakEnds
      <3>6. W[i].out = t /\ W[i].cur = 0 /\ i \in 0..n
        BY <1>1, <3>3
      <3>7. QED
        BY <3>1, <3>5, <3>6, Zenon
    <2>7. QED
      BY <2>5, <2>6
  <1>6. 0..n \subseteq S
    <2> HIDE DEF S
    <2>1. QED
      BY <1>1, <1>4, <1>5, IntervalInduction
  <1>7. QED
    BY <1>6

\* The longest of the lengths is the longest streak.
LEMMA LengthsLongest ==
    ASSUME NEW T, NEW res \in Seq(T), NEW n, n = Len(res), NEW flags \in Seq(BOOLEAN),
           Len(flags) = n, \A i \in 1..n : flags[i] = (res[i] = "L"),
           NEW C, C = Streaks(flags)
    PROVE  Longest(Max(ToSet(LossStreakLengths(res)) \cup {0}), C, n)
  <1>1. n \in Nat
    BY LenProperties
  <1>2. C[0] = 0 /\ \A i \in 0..n : C[i] \in Nat
    BY StreaksEquations
  <1>3. PICK s, c : s = LossWalk(res)[n].out /\ c = LossWalk(res)[n].cur
    OBVIOUS
  <1>4. c = C[n] /\ Lengths(s, c, C, n) /\ n \in 0..n
    <2>1. PICK W : W = LossWalk(res)
      OBVIOUS
    <2>2. \A i \in 0..n : W[i].cur = C[i] /\ Lengths(W[i].out, C[i], C, i)
      BY <2>1, LengthsKept
    <2>3. n \in 0..n
      BY <1>1
    <2>4. QED
      BY <1>3, <2>1, <2>2, <2>3, Zenon
  <1>5. PICK t : t = IF c = 0 THEN s ELSE Append(s, c)
    OBVIOUS
  <1>6. LossStreakLengths(res) = t
    BY <1>3, <1>5, Zenon DEF LossStreakLengths
  <1>7. Lengths(t, 0, C, n)
    <2>1. CASE c = 0
      BY <1>4, <1>5, <2>1, Zenon
    <2>2. CASE c # 0
      <3>1. t = Append(s, c)
        BY <1>5, <2>2
      <3>2. \E j \in 0..n : C[j] = c
        BY <1>4, Zenon
      <3>3. QED
        BY <1>1, <1>4, <3>1, <3>2, StreakWritten
    <2>3. QED
      BY <2>1, <2>2
  <1>8. PICK m \in Nat : m = Len(t) /\ DOMAIN t = 1..m /\ t \in Seq(Nat)
    BY <1>7, LenProperties DEF Lengths
  <1>9. PICK V, U : V = {t[i] : i \in 1..m} /\ U = V \cup {0}
    OBVIOUS
  <1>10. ToSet(t) \cup {0} = U
    BY <1>8, <1>9 DEF ToSet
  <1>11. IsFiniteSet(U)
    <2>1. IsFiniteSet(1..m)
      BY FS_Interval
    <2>2. IsFiniteSet(V)
      BY <1>8, <1>9, <2>1, ValuesFinite
    <2>3. QED
      BY <1>9, <2>2, FS_AddElement
  <1>12. U \in SUBSET Int /\ 0 \in U
    <2>1. \A i \in 1..m : t[i] \in Nat
      BY <1>8
    <2>2. QED
      BY <1>9, <2>1
  <1>13. PICK d : d = Max(U)
    OBVIOUS
  <1>14. d \in U /\ d \in Int /\ \A x \in U : d >= x
    BY <1>11, <1>12, <1>13, MaxOfFinite
  <1>15. \E i \in 0..n : C[i] = d
    <2>1. CASE d = 0
      BY <1>1, <1>2, <2>1
    <2>2. CASE d # 0
      <3>1. PICK k \in 1..m : d = t[k]
        BY <1>9, <1>14, <2>2
      <3>2. QED
        BY <1>7, <1>8, <3>1, Zenon DEF Lengths
    <2>3. QED
      BY <2>1, <2>2
  <1>16. ASSUME NEW i \in 0..n PROVE C[i] <= d
    <2>1. C[i] <= 0 \/ \E k \in 1..m : C[i] <= t[k]
      BY <1>7, <1>8, Zenon DEF Lengths
    <2>2. CASE C[i] <= 0
      BY <1>2, <1>12, <1>14, <2>2
    <2>3. CASE \E k \in 1..m : C[i] <= t[k]
      <3>1. PICK k \in 1..m : C[i] <= t[k]
        BY <2>3
      <3>2. t[k] \in U /\ t[k] \in Int
        BY <1>8, <1>9, <3>1
      <3>3. QED
        BY <1>2, <1>14, <3>1, <3>2
    <2>4. QED
      BY <2>1, <2>2, <2>3
  <1>17. QED
    BY <1>6, <1>10, <1>13, <1>14, <1>15, <1>16, Zenon DEF Longest

\* The runs the dependence table uses are no shorter than the streaks.
LEMMA RunsAreNoShorter ==
    ASSUME NEW T, NEW res \in Seq(T), "B" \in T, NEW n, n = Len(res),
           NEW flags \in Seq(BOOLEAN), Len(flags) = n,
           \A i \in 1..n : flags[i] = (res[i] = "L"),
           NEW C, C = Streaks(flags), NEW d, Longest(d, C, n)
    PROVE  d <= Max(ToSet(RunsBefore(Append(res, "B"))))
  <1>1. n \in Nat
    BY LenProperties
  <1>2. /\ C[0] = 0 /\ \A i \in 1..n : C[i] = IF flags[i] THEN C[i - 1] + 1 ELSE 0
        /\ \A i \in 0..n : C[i] \in Nat
    BY StreaksEquations
  <1>3. PICK more \in Seq(T) : more = Append(res, "B")
    <2>1. PICK b \in T : b = "B"
      OBVIOUS
    <2>2. Append(res, b) \in Seq(T)
      OBVIOUS
    <2>3. QED
      BY <2>1, <2>2, Zenon
  <1>4. Len(more) = n + 1 /\ \A i \in 1..n : more[i] = res[i]
    BY <1>3
  <1>5. PICK G : G = LossRuns(more)
    OBVIOUS
  <1>6. /\ G[0] = 0
        /\ \A i \in 1..(n + 1) : G[i] = IF more[i] = "L" THEN G[i - 1] + 1
                                        ELSE IF more[i] = "W" THEN 0 ELSE G[i - 1]
        /\ \A i \in 0..(n + 1) : G[i] \in Nat
    <2>1. IsLossRuns(G, more, n + 1)
      BY <1>4, <1>5, LossRunsEquations, Zenon
    <2>2. QED
      BY <2>1, Zenon DEF IsLossRuns
  <1> DEFINE S == {i \in 0..n : C[i] <= G[i]}
  <1>7. 0 \in S
    BY <1>1, <1>2, <1>6
  <1>8. ASSUME NEW i \in 1..n, i - 1 \in S PROVE i \in S
    <2>1. /\ C[i] = IF flags[i] THEN C[i - 1] + 1 ELSE 0
          /\ G[i] = IF res[i] = "L" THEN G[i - 1] + 1
                    ELSE IF res[i] = "W" THEN 0 ELSE G[i - 1]
          /\ C[i - 1] <= G[i - 1] /\ flags[i] = (res[i] = "L")
      <3>1. i \in 1..(n + 1) /\ more[i] = res[i]
        BY <1>1, <1>4
      <3>2. QED
        BY <1>2, <1>6, <1>8, <3>1
    <2>2. C[i - 1] \in Nat /\ G[i - 1] \in Nat
      BY <1>1, <1>2, <1>6
    <2>3. C[i] <= G[i]
      BY <2>1, <2>2
    <2>4. QED
      BY <1>1, <2>3
  <1>9. 0..n \subseteq S
    <2> HIDE DEF S
    <2>1. QED
      BY <1>1, <1>7, <1>8, IntervalInduction
  <1>10. PICK m \in Nat : m = n + 1
    BY <1>1
  <1>11. PICK f, V : f = [i \in 1..m |-> G[i - 1]] /\ V = {f[i] : i \in 1..m}
    OBVIOUS
  <1>12. RunsBefore(more) = f
    <2>1. DOMAIN more = 1..m
      BY <1>3, <1>4, <1>10, LenProperties
    <2>2. QED
      BY <1>5, <1>11, <2>1 DEF RunsBefore
  <1>13. DOMAIN f = 1..m
    BY <1>11
  <1>14. ToSet(f) = V
    BY <1>11, <1>13 DEF ToSet
  <1>15. IsFiniteSet(V)
    <2>1. IsFiniteSet(1..m)
      BY FS_Interval
    <2>2. PICK D : D = 1..m
      OBVIOUS
    <2>3. V = {f[i] : i \in D} /\ DOMAIN f = D /\ IsFiniteSet(D)
      BY <1>11, <1>13, <2>1, <2>2, Zenon
    <2>4. QED
      BY <2>3, ValuesFinite
  <1>16. \A i \in 1..m : f[i] = G[i - 1] /\ f[i] \in Nat
    BY <1>1, <1>6, <1>10, <1>11
  <1>17. V \in SUBSET Int /\ V # {}
    BY <1>1, <1>10, <1>11, <1>16
  <1>18. PICK j \in 0..n : C[j] = d
    BY DEF Longest
  <1>19. G[j] \in V /\ C[j] <= G[j] /\ C[j] \in Nat /\ G[j] \in Nat
    <2>1. PICK k \in 1..m : k = j + 1
      BY <1>1, <1>10
    <2>2. f[k] = G[j] /\ f[k] \in Nat
      BY <1>16, <2>1
    <2>3. QED
      BY <1>2, <1>9, <1>11, <2>1, <2>2
  <1>20. PICK x : x = Max(V)
    OBVIOUS
  <1>21. x \in Int /\ x >= G[j]
    BY <1>15, <1>17, <1>19, <1>20, MaxOfFinite
  <1>22. d <= x
    BY <1>18, <1>19, <1>21
  <1>23. QED
    BY <1>3, <1>12, <1>14, <1>20, <1>22, Zenon

\* The walk that gathers the rows of a pair.
LEMMA GroupEquations ==
    ASSUME NEW S, NEW rs \in Seq(S), NEW p
    PROVE  /\ GroupWalk(rs, p)[0] = <<>>
           /\ \A i \in 1..Len(rs) : GroupWalk(rs, p)[i] = IF rs[i].pair = p THEN Append(GroupWalk(rs, p)[i - 1], i) ELSE GroupWalk(rs, p)[i - 1]
           /\ \A i \in 0..Len(rs) : GroupWalk(rs, p)[i] \in Seq(Nat)
  <1> DEFINE n == Len(rs)
             V == Seq(Nat)
             A == <<>>
             Step(i, v) == IF rs[i].pair = p THEN Append(v, i) ELSE v
             Walks(f) == [i \in 0..n |-> IF i = 0 THEN A ELSE Step(i, f[i - 1])]
             F == CHOOSE f : f = Walks(f)
             step == [i \in 1..n |-> [v \in V |-> Step(i, v)]]
  <1>1. n \in Nat
    BY LenProperties
  <1>2. GroupWalk(rs, p) = F
    BY DEF GroupWalk
  <1>3. A \in V
    OBVIOUS
  <1>4. ASSUME NEW i \in 1..n, NEW v \in V PROVE Step(i, v) \in V
    BY <1>1, AppendProperties
  <1>5. SUFFICES /\ F[0] = A /\ \A i \in 1..n : F[i] = Step(i, F[i - 1])
                 /\ \A i \in 0..n : F[i] \in V
    <2> HIDE DEF F
    <2>1. QED
      BY <1>2, Zenon
  <1> HIDE DEF n, V, A, Step
  <1>6. PICK h : IsRun(h, n, V, A, step)
    <2>1. step \in [1..n -> [V -> V]]
      BY <1>4
    <2> HIDE DEF step
    <2>2. QED
      BY <1>1, <1>3, <2>1, IterationExists
  <1>7. h \in [0..n -> V] /\ h[0] = A /\ \A i \in 1..n : h[i] = Step(i, h[i - 1])
    <2>1. h \in [0..n -> V] /\ h[0] = A /\ \A i \in 1..n : h[i] = step[i][h[i - 1]]
      BY <1>6 DEF IsRun
    <2>2. ASSUME NEW i \in 1..n PROVE h[i] = Step(i, h[i - 1])
      <3>1. h[i - 1] \in V
        BY <1>1, <2>1
      <3>2. QED
        BY <2>1, <3>1
    <2>3. QED
      BY <2>1, <2>2
  <1>8. ASSUME NEW g, g = Walks(g)
        PROVE  g[0] = A /\ \A i \in 1..n : g[i] = Step(i, g[i - 1])
    <2>1. \A i \in 0..n : g[i] = IF i = 0 THEN A ELSE Step(i, g[i - 1])
      <3>1. \A i \in 0..n : Walks(g)[i] = IF i = 0 THEN A ELSE Step(i, g[i - 1])
        BY Zenon
      <3>2. QED
        BY <1>8, <3>1, Zenon
    <2>2. 0 \in 0..n /\ \A i \in 1..n : i \in 0..n /\ i # 0
      BY <1>1
    <2>3. QED
      BY <2>1, <2>2, Zenon
  <1>9. h = Walks(h)
    <2>1. h = [i \in 0..n |-> h[i]]
      BY <1>7
    <2>2. ASSUME NEW i \in 0..n PROVE h[i] = IF i = 0 THEN A ELSE Step(i, h[i - 1])
      BY <1>1, <1>7
    <2>3. QED
      BY <2>1, <2>2, Zenon
  <1>10. F = Walks(F)
    <2> HIDE DEF Walks
    <2>1. \E g : g = Walks(g)
      BY <1>9
    <2>2. QED
      BY <2>1, Zenon
  <1>11. F[0] = A /\ \A i \in 1..n : F[i] = Step(i, F[i - 1])
    <2> HIDE DEF F, Walks
    <2>1. QED
      BY <1>8, <1>10
  <1>12. \A i \in 0..n : F[i] \in V
    <2> HIDE DEF F
    <2> DEFINE G == {i \in 0..n : F[i] \in V}
    <2>1. 0 \in G
      BY <1>1, <1>3, <1>11
    <2>2. ASSUME NEW i \in 1..n, i - 1 \in G PROVE i \in G
      BY <1>1, <1>4, <1>11, <2>2
    <2>3. 0..n \subseteq G
      <3> HIDE DEF G
      <3>1. QED
        BY <1>1, <2>1, <2>2, IntervalInduction
    <2>4. QED
      BY <2>3
  <1>13. QED
    BY <1>11, <1>12

\* g holds the rows of pair p among the first i, in their order.
Gathers(g, rs, p, i) ==
    /\ g \in Seq(Nat)
    /\ \A k \in 1..Len(g) : g[k] \in 1..i
    /\ \A k, l \in 1..Len(g) : k < l => g[k] < g[l]
    /\ \A j \in 1..i : rs[j].pair = p => \E k \in 1..Len(g) : g[k] = j

\* One more row.
LEMMA GathersStep ==
    ASSUME NEW rs, NEW p, NEW i \in Nat \ {0}, NEW g, Gathers(g, rs, p, i - 1),
           NEW h, h = IF rs[i].pair = p THEN Append(g, i) ELSE g
    PROVE  Gathers(h, rs, p, i)
  <1>1. g \in Seq(Nat) /\ Len(g) \in Nat
    BY LenProperties DEF Gathers
  <1>2. CASE rs[i].pair # p
    <2>1. h = g
      BY <1>2
    <2>2. ASSUME NEW j \in 1..i, rs[j].pair = p PROVE \E k \in 1..Len(g) : g[k] = j
      <3>1. j \in 1..(i - 1)
        BY <1>2, <2>2
      <3>2. QED
        BY <2>2, <3>1 DEF Gathers
    <2>3. \A k \in 1..Len(g) : g[k] \in 1..i
      BY DEF Gathers
    <2>4. QED
      BY <1>1, <2>1, <2>2, <2>3 DEF Gathers
  <1>3. CASE rs[i].pair = p
    <2>1. PICK m \in Nat : m = Len(g)
      BY <1>1
    <2>2. /\ h \in Seq(Nat) /\ Len(h) = m + 1 /\ h[m + 1] = i
          /\ \A k \in 1..m : h[k] = g[k]
      BY <1>1, <1>3, <2>1, AppendProperties
    <2>3. \A k \in 1..m : g[k] \in 1..(i - 1)
      BY <2>1 DEF Gathers
    <2>4. ASSUME NEW k \in 1..(m + 1) PROVE h[k] \in 1..i
      BY <2>2, <2>3
    <2>5. ASSUME NEW k \in 1..(m + 1), NEW l \in 1..(m + 1), k < l PROVE h[k] < h[l]
      <3>1. k \in 1..m /\ h[k] = g[k]
        BY <2>2, <2>5
      <3>2. CASE l = m + 1
        BY <2>2, <2>3, <3>1, <3>2
      <3>3. CASE l # m + 1
        <4>1. l \in 1..m /\ h[l] = g[l]
          BY <2>2, <3>3
        <4>2. g[k] < g[l]
          BY <2>1, <2>5, <3>1, <4>1 DEF Gathers
        <4>3. QED
          BY <3>1, <4>1, <4>2
      <3>4. QED
        BY <3>2, <3>3
    <2>6. ASSUME NEW j \in 1..i, rs[j].pair = p PROVE \E k \in 1..(m + 1) : h[k] = j
      <3>1. CASE j = i
        BY <2>2, <3>1
      <3>2. CASE j # i
        <4>1. j \in 1..(i - 1)
          BY <3>2
        <4>2. PICK k \in 1..m : g[k] = j
          BY <2>1, <2>6, <4>1 DEF Gathers
        <4>3. k \in 1..(m + 1) /\ h[k] = j
          BY <2>2, <4>2
        <4>4. QED
          BY <4>3
      <3>3. QED
        BY <3>1, <3>2
    <2>7. QED
      BY <2>2, <2>4, <2>5, <2>6 DEF Gathers
  <1>4. QED
    BY <1>2, <1>3

\* What a group is.
LEMMA GroupGathers ==
    ASSUME NEW S, NEW rs \in Seq(S), NEW p
    PROVE  Gathers(Group(rs, p), rs, p, Len(rs))
  <1>1. PICK n \in Nat : n = Len(rs)
    BY LenProperties
  <1>2. PICK W : W = GroupWalk(rs, p)
    OBVIOUS
  <1>3. /\ W[0] = <<>>
        /\ \A i \in 1..n : W[i] = IF rs[i].pair = p THEN Append(W[i - 1], i) ELSE W[i - 1]
    BY <1>1, <1>2, GroupEquations
  <1> DEFINE T == {i \in 0..n : Gathers(W[i], rs, p, i)}
  <1>4. 0 \in T
    <2>1. W[0] \in Seq(Nat) /\ Len(W[0]) = 0 /\ 0 \in 0..n
      BY <1>3
    <2>2. QED
      BY <2>1 DEF Gathers
  <1>5. ASSUME NEW i \in 1..n, i - 1 \in T PROVE i \in T
    <2>1. i \in Nat \ {0} /\ i \in 0..n
      OBVIOUS
    <2>2. Gathers(W[i - 1], rs, p, i - 1)
      BY <1>5
    <2>3. Gathers(W[i], rs, p, i)
      BY <1>3, <2>1, <2>2, GathersStep, Zenon
    <2>4. QED
      BY <2>1, <2>3
  <1>6. n \in T
    <2> HIDE DEF T
    <2>1. 0..n \subseteq T
      BY <1>4, <1>5, IntervalInduction
    <2>2. QED
      BY <2>1
  <1>7. Gathers(W[n], rs, p, n)
    BY <1>6
  <1>8. QED
    BY <1>1, <1>2, <1>7, Zenon DEF Group

\* Where every row is of the pair, the group is the file.
LEMMA WholeGroup ==
    ASSUME NEW S, NEW rs \in Seq(S), NEW p, \A j \in 1..Len(rs) : rs[j].pair = p,
           NEW g, g = Group(rs, p)
    PROVE  Len(g) = Len(rs) /\ \A k \in 1..Len(rs) : g[k] = k
  <1>1. PICK n \in Nat : n = Len(rs)
    BY LenProperties
  <1>2. /\ GroupWalk(rs, p)[0] = <<>>
        /\ \A i \in 1..Len(rs) : GroupWalk(rs, p)[i] =
               IF rs[i].pair = p THEN Append(GroupWalk(rs, p)[i - 1], i) ELSE GroupWalk(rs, p)[i - 1]
        /\ \A i \in 0..Len(rs) : GroupWalk(rs, p)[i] \in Seq(Nat)
    BY GroupEquations, Zenon
  <1>3. PICK W : W = GroupWalk(rs, p)
    OBVIOUS
  <1>4. /\ W[0] = <<>>
        /\ \A i \in 1..n : W[i] = IF rs[i].pair = p THEN Append(W[i - 1], i) ELSE W[i - 1]
        /\ \A i \in 0..n : W[i] \in Seq(Nat)
    BY <1>1, <1>2, <1>3, Zenon
  <1>5. ASSUME NEW i \in 1..n PROVE W[i] = Append(W[i - 1], i)
    <2>1. rs[i].pair = p
      BY <1>1
    <2>2. W[i] = IF rs[i].pair = p THEN Append(W[i - 1], i) ELSE W[i - 1]
      BY <1>4
    <2>3. QED
      BY <2>1, <2>2, Zenon
  <1> DEFINE T == {i \in 0..n : Len(W[i]) = i /\ \A k \in 1..i : W[i][k] = k}
  <1>6. 0 \in T
    BY <1>4
  <1>7. ASSUME NEW i \in 1..n, i - 1 \in T PROVE i \in T
    <2>1. i - 1 \in 0..n /\ i \in 0..n /\ (i - 1) + 1 = i
      OBVIOUS
    <2>2. PICK v : v = W[i - 1]
      OBVIOUS
    <2>3. v \in Seq(Nat) /\ Len(v) = i - 1 /\ \A k \in 1..(i - 1) : v[k] = k
      BY <1>4, <1>7, <2>1, <2>2
    <2>4. PICK w : w = Append(v, i)
      OBVIOUS
    <2>5. Len(w) = i /\ w[i] = i /\ \A k \in 1..(i - 1) : w[k] = v[k]
      BY <2>1, <2>3, <2>4, AppendProperties
    <2>6. ASSUME NEW k \in 1..i PROVE w[k] = k
      <3>1. k = i \/ k \in 1..(i - 1)
        OBVIOUS
      <3>2. QED
        BY <2>3, <2>5, <3>1
    <2>7. W[i] = w
      BY <1>5, <2>2, <2>4, Zenon
    <2>8. QED
      BY <2>1, <2>5, <2>6, <2>7
  <1>8. n \in T
    <2> HIDE DEF T
    <2>1. 0..n \subseteq T
      BY <1>6, <1>7, IntervalInduction
    <2>2. QED
      BY <2>1
  <1>9. g = W[n]
    BY <1>1, <1>3, Zenon DEF Group
  <1>10. QED
    BY <1>1, <1>8, <1>9

\* The rows, as a list of records.
LEMMA RowsTyped ==
    ASSUME RowsInv
    PROVE  rows \in Seq(RowType) /\ Len(rows) \in Nat /\ DOMAIN rows = 1..Len(rows)
  <1>1. PICK n \in Nat : n = Len(rows) /\ DOMAIN rows = 1..n
    BY ListDomain DEF RowsInv
  <1>2. PICK S : rows \in Seq(S)
    BY DEF RowsInv, IsList
  <1>3. rows = [i \in 1..n |-> rows[i]]
    BY <1>1, <1>2
  <1>4. \A i \in 1..n : rows[i] \in RowType
    BY <1>1 DEF RowsInv
  <1>5. PICK f : f = [i \in 1..n |-> rows[i]]
    OBVIOUS
  <1>6. f \in [1..n -> RowType]
    BY <1>4, <1>5
  <1>7. f \in Seq(RowType)
    BY <1>6, FunctionIsList
  <1>8. QED
    BY <1>1, <1>3, <1>5, <1>7

\* The R of a list of rows.
LEMMA RRsOf ==
    ASSUME NEW q \in Seq(RowType)
    PROVE  /\ RRs(q) \in Seq(Int) /\ Len(RRs(q)) = Len(q)
           /\ \A i \in 1..Len(q) : RRs(q)[i] = q[i].rr /\ q[i].rr \in Int
  <1>1. PICK n \in Nat : n = Len(q) /\ DOMAIN q = 1..n
    BY LenProperties
  <1>2. \A i \in 1..n : q[i] \in RowType
    BY <1>1, ElementOfSeq
  <1>3. \A i \in 1..n : q[i].rr \in Int
    BY <1>2 DEF RowType
  <1>4. PICK f : f = [i \in 1..n |-> q[i].rr]
    OBVIOUS
  <1>5. f \in [1..n -> Int]
    BY <1>3, <1>4
  <1>6. f \in Seq(Int) /\ Len(f) = n
    BY <1>5, FunctionIsList
  <1>7. RRs(q) = f
    BY <1>1, <1>4 DEF RRs
  <1>8. QED
    BY <1>1, <1>3, <1>4, <1>6, <1>7

\* The rows of a group; the file, where it has one group.
LEMMA GroupRowsTyped ==
    ASSUME NEW rs \in Seq(RowType), NEW p, NEW n, n = Len(rs), NEW q, q = GroupRows(rs, p)
    PROVE  /\ q \in Seq(RowType)
           /\ (\E j \in 1..n : rs[j].pair = p) => Len(q) # 0
           /\ (\A j \in 1..n : rs[j].pair = p) => q = rs
  <1>1. n \in Nat /\ DOMAIN rs = 1..n /\ \A j \in 1..n : rs[j] \in RowType
    BY LenProperties, ElementOfSeq
  <1>2. PICK g : g = Group(rs, p)
    OBVIOUS
  <1>3. Gathers(g, rs, p, n)
    BY <1>2, GroupGathers
  <1>4. PICK m \in Nat : m = Len(g) /\ DOMAIN g = 1..m
    BY <1>3, LenProperties DEF Gathers
  <1>5. \A k \in 1..m : g[k] \in 1..n
    BY <1>3, <1>4 DEF Gathers
  <1>6. q = [k \in 1..m |-> rs[g[k]]]
    BY <1>2, <1>4 DEF GroupRows
  <1>7. q \in [1..m -> RowType]
    BY <1>1, <1>5, <1>6
  <1>8. q \in Seq(RowType) /\ Len(q) = m
    BY <1>7, FunctionIsList
  <1>9. ASSUME NEW j \in 1..n, rs[j].pair = p PROVE Len(q) # 0
    <2>1. PICK k \in 1..m : g[k] = j
      BY <1>3, <1>4, <1>9 DEF Gathers
    <2>2. QED
      BY <1>4, <1>8, <2>1
  <1>10. ASSUME \A j \in 1..n : rs[j].pair = p PROVE q = rs
    <2>1. Len(g) = n /\ \A k \in 1..n : g[k] = k
      BY <1>2, <1>10, WholeGroup
    <2>2. m = n
      BY <1>4, <2>1
    <2>3. \A k \in 1..n : q[k] = rs[k]
      BY <1>6, <2>1, <2>2
    <2>4. rs \in [1..n -> RowType]
      BY <1>1
    <2>5. QED
      BY <1>7, <2>2, <2>3, <2>4
  <1>11. QED
    BY <1>8, <1>9, <1>10

\* Each fall of c is one of bs.
FallsWithin(c, bs) ==
    \A i \in 1..Len(c) : \A j \in 1..i :
        \E l \in 1..Len(bs) : \E k \in 1..l : c[j] = bs[k] /\ c[i] = bs[l]

\* A curve of such falls has no deeper drawdown.
LEMMA PartFallsNoDeeper ==
    ASSUME NEW bs, NEW d, IsDrawdown(d, bs), NEW c, NEW e, IsDrawdown(e, c), FallsWithin(c, bs)
    PROVE  e <= d
  <1>1. PICK i \in 1..Len(c) : \E j \in 1..i : c[j] - c[i] = e
    BY DEF IsDrawdown
  <1>2. PICK j \in 1..i : c[j] - c[i] = e
    BY <1>1
  <1>3. PICK l \in 1..Len(bs) : \E k \in 1..l : c[j] = bs[k] /\ c[i] = bs[l]
    BY DEF FallsWithin
  <1>4. PICK k \in 1..l : c[j] = bs[k] /\ c[i] = bs[l]
    BY <1>3
  <1>5. bs[k] - bs[l] <= d
    BY DEF IsDrawdown
  <1>6. QED
    BY <1>2, <1>4, <1>5, Zenon

\* A list with one element before it.
LEMMA OneMore ==
    ASSUME NEW h \in Seq(Int), Len(h) = 1, NEW t \in Seq(Int)
    PROVE  /\ h \o t \in Seq(Int) /\ Len(h \o t) = Len(t) + 1 /\ (h \o t)[1] = h[1]
           /\ \A k \in 1..Len(t) : (h \o t)[k + 1] = t[k]
  <1>1. /\ h \o t \in Seq(Int) /\ Len(h \o t) = Len(h) + Len(t)
        /\ \A i \in 1..Len(h) + Len(t) :
              (h \o t)[i] = IF i <= Len(h) THEN h[i] ELSE t[i - Len(h)]
    BY ConcatProperties, Zenon
  <1>2. PICK n \in Nat : n = Len(t)
    BY LenProperties
  <1>3. PICK c : c = h \o t
    OBVIOUS
  <1>4. /\ c \in Seq(Int) /\ Len(c) = 1 + n
        /\ \A i \in 1..(1 + n) : c[i] = IF i <= 1 THEN h[i] ELSE t[i - 1]
    BY <1>1, <1>2, <1>3, Zenon
  <1>5. c[1] = h[1]
    BY <1>4
  <1>6. ASSUME NEW k \in 1..n PROVE c[k + 1] = t[k]
    <2>1. k + 1 \in 1..(1 + n) /\ ~(k + 1 <= 1) /\ (k + 1) - 1 = k
      OBVIOUS
    <2>2. QED
      BY <1>4, <2>1
  <1>7. Len(c) = n + 1
    BY <1>4
  <1>8. QED
    BY <1>2, <1>3, <1>4, <1>5, <1>6, <1>7, Zenon

\* The balances at the rows g of the file, and the one before the first.
BalancesAt(g, bs) == <<bs[g[1]]>> \o [k \in DOMAIN g |-> bs[g[k] + 1]]

\* The balances of a group fall no deeper than those of the file, and as deep
\* where the file has one group.
LEMMA GroupMoney ==
    ASSUME NEW S, NEW rs \in Seq(S), NEW m \in Nat, m = Len(rs), NEW p,
           NEW g, g = Group(rs, p), Len(g) # 0,
           NEW bs \in Seq(Int), Len(bs) = m + 1, NEW d, IsDrawdown(d, bs),
           NEW c, c = BalancesAt(g, bs)
    PROVE  /\ DollarDrawdown(c) <= d
           /\ (\A j \in 1..m : rs[j].pair = p) => DollarDrawdown(c) = d
  <1>1. Gathers(g, rs, p, m)
    BY GroupGathers
  <1>2. PICK n \in Nat \ {0} : n = Len(g) /\ DOMAIN g = 1..n
    <2>1. g \in Seq(Nat)
      BY <1>1 DEF Gathers
    <2>2. QED
      BY <2>1, LenProperties
  <1>3. \A k \in 1..n : g[k] \in 1..m
    BY <1>1, <1>2 DEF Gathers
  <1>4. \A i \in 1..(m + 1) : bs[i] \in Int
    BY ElementOfSeq
  <1>5. \A k \in 1..n : g[k] \in 1..(m + 1) /\ g[k] + 1 \in 1..(m + 1)
    BY <1>3
  <1>6. PICK t : t = [k \in DOMAIN g |-> bs[g[k] + 1]]
    OBVIOUS
  <1>7. t \in [1..n -> Int]
    BY <1>2, <1>4, <1>5, <1>6
  <1>8. t \in Seq(Int) /\ Len(t) = n
    BY <1>7, FunctionIsList
  <1>9. PICK h : h = << bs[g[1]] >>
    OBVIOUS
  <1>10. h \in Seq(Int) /\ Len(h) = 1 /\ h[1] = bs[g[1]]
    <2>1. bs[g[1]] \in Int
      BY <1>2, <1>4, <1>5
    <2>2. QED
      BY <1>9, <2>1
  <1>11. c \in Seq(Int) /\ Len(c) = n + 1 /\ c[1] = h[1]
         /\ \A k \in 1..n : c[k + 1] = t[k]
    <2>1. c = h \o t
      BY <1>9, <1>6, Zenon DEF BalancesAt
    <2>2. n \in Nat /\ n = Len(t)
      BY <1>8
    <2>3. h \in Seq(Int) /\ Len(h) = 1 /\ t \in Seq(Int)
      BY <1>8, <1>10
    <2>4. /\ h \o t \in Seq(Int) /\ Len(h \o t) = Len(t) + 1 /\ (h \o t)[1] = h[1]
          /\ \A k \in 1..Len(t) : (h \o t)[k + 1] = t[k]
      BY <2>3, OneMore, Zenon
    <2>5. QED
      BY <2>1, <2>2, <2>4, Zenon
  <1>12. c # <<>>
    BY <1>2, <1>11
  <1>13. IsDrawdown(DollarDrawdown(c), c)
    BY <1>11, <1>12, FallsAreDrawdowns, Zenon DEF DollarDrawdown
  <1>14. PICK place : place = [i \in 1..(n + 1) |-> IF i = 1 THEN g[1] ELSE g[i - 1] + 1]
    OBVIOUS
  <1>15. ASSUME NEW i \in 1..(n + 1)
         PROVE  /\ place[i] \in 1..(m + 1) /\ c[i] = bs[place[i]]
                /\ i # 1 => i - 1 \in 1..n /\ place[i] = g[i - 1] + 1
    <2>1. CASE i = 1
      <3>1. place[i] = g[1] /\ 1 \in 1..n
        BY <1>2, <1>14, <2>1
      <3>2. QED
        BY <1>5, <1>10, <1>11, <2>1, <3>1
    <2>2. CASE i # 1
      <3>1. i - 1 \in 1..n /\ (i - 1) + 1 = i
        BY <1>2, <2>2
      <3>2. place[i] = g[i - 1] + 1
        BY <1>14, <2>2
      <3>3. c[i] = t[i - 1] /\ t[i - 1] = bs[g[i - 1] + 1]
        BY <1>2, <1>11, <1>6, <3>1
      <3>4. QED
        BY <1>5, <3>1, <3>2, <3>3
    <2>3. QED
      BY <2>1, <2>2
  <1>16. \A k, l \in 1..n : k <= l => g[k] <= g[l]
    <2>1. ASSUME NEW k \in 1..n, NEW l \in 1..n, k <= l PROVE g[k] <= g[l]
      <3>1. k < l => g[k] < g[l]
        BY <1>1, <1>2 DEF Gathers
      <3>2. g[k] \in Int /\ g[l] \in Int
        BY <1>3
      <3>3. k < l \/ k = l
        BY <2>1
      <3>4. QED
        BY <3>1, <3>2, <3>3
    <2>2. QED
      BY <2>1
  <1>17. ASSUME NEW j \in 1..(n + 1), NEW i \in 1..(n + 1), j <= i PROVE place[j] <= place[i]
    <2>1. CASE i = 1
      <3>1. j = i
        BY <1>17, <2>1
      <3>2. place[i] \in Int
        BY <1>15
      <3>3. QED
        BY <3>1, <3>2
    <2>2. CASE i # 1 /\ j = 1
      <3>1. place[j] = g[1] /\ place[i] = g[i - 1] + 1 /\ i - 1 \in 1..n /\ 1 \in 1..n
        BY <1>2, <1>14, <1>15, <2>2
      <3>2. g[1] <= g[i - 1]
        BY <1>16, <3>1
      <3>3. g[1] \in Int /\ g[i - 1] \in Int
        BY <1>3, <3>1
      <3>4. QED
        BY <3>1, <3>2, <3>3
    <2>3. CASE i # 1 /\ j # 1
      <3>1. /\ place[j] = g[j - 1] + 1 /\ place[i] = g[i - 1] + 1
            /\ i - 1 \in 1..n /\ j - 1 \in 1..n
        BY <1>15, <2>3
      <3>2. j - 1 <= i - 1
        BY <1>17
      <3>3. g[j - 1] <= g[i - 1] /\ g[j - 1] \in Int /\ g[i - 1] \in Int
        BY <1>3, <1>16, <3>1, <3>2
      <3>4. QED
        BY <3>1, <3>3
    <2>4. QED
      BY <2>1, <2>2, <2>3
  <1>18. DollarDrawdown(c) <= d
    <2>1. ASSUME NEW i \in 1..Len(c), NEW j \in 1..i
          PROVE  \E l \in 1..Len(bs) : \E k \in 1..l : c[j] = bs[k] /\ c[i] = bs[l]
      <3>1. i \in 1..(n + 1) /\ j \in 1..(n + 1) /\ j <= i
        BY <1>11
      <3>2. PICK k, l \in 1..(m + 1) : k = place[j] /\ l = place[i]
        BY <1>15, <3>1
      <3>3. k <= l
        BY <1>17, <3>1, <3>2
      <3>4. l \in 1..Len(bs) /\ k \in 1..l
        BY <3>3
      <3>5. c[j] = bs[k] /\ c[i] = bs[l]
        BY <1>15, <3>1, <3>2
      <3>6. QED
        BY <3>4, <3>5
    <2>2. FallsWithin(c, bs)
      BY <2>1 DEF FallsWithin
    <2>3. QED
      BY <1>13, <2>2, PartFallsNoDeeper
  <1>19. ASSUME \A j \in 1..m : rs[j].pair = p PROVE DollarDrawdown(c) = d
    <2>1. Len(g) = m /\ \A k \in 1..m : g[k] = k
      BY <1>19, WholeGroup
    <2>2. n = m
      BY <1>2, <2>1
    <2>3. ASSUME NEW i \in 1..(m + 1) PROVE c[i] = bs[i]
      <3>1. CASE i = 1
        BY <1>2, <1>10, <1>11, <2>1, <2>2, <3>1
      <3>2. CASE i # 1
        <4>1. place[i] = g[i - 1] + 1 /\ i - 1 \in 1..n /\ c[i] = bs[place[i]]
          BY <1>15, <2>2, <3>2
        <4>2. i - 1 \in 1..m /\ (i - 1) + 1 = i
          BY <2>2, <4>1
        <4>3. g[i - 1] = i - 1
          BY <2>1, <4>2
        <4>4. place[i] = i
          BY <4>1, <4>2, <4>3
        <4>5. QED
          BY <4>1, <4>4
      <3>3. QED
        BY <3>1, <3>2
    <2>4. c = bs
      <3>1. c \in [1..(m + 1) -> Int] /\ bs \in [1..(m + 1) -> Int]
        <4>1. DOMAIN c = 1..(m + 1) /\ DOMAIN bs = 1..(m + 1)
          BY <1>11, <2>2, LenProperties
        <4>2. QED
          BY <1>11, <2>2, <4>1, LenProperties
      <3>2. c = [i \in 1..(m + 1) |-> c[i]] /\ bs = [i \in 1..(m + 1) |-> bs[i]]
        BY <3>1
      <3>3. QED
        BY <2>3, <3>2, Zenon
    <2>5. PICK e : e = DollarDrawdown(c)
      OBVIOUS
    <2>6. IsDrawdown(e, bs)
      BY <1>13, <2>4, <2>5
    <2>7. e = d
      BY <2>6, OneDrawdown
    <2>8. QED
      BY <2>5, <2>7
  <1>20. QED
    BY <1>18, <1>19

\* Each row has a place of its own and each place a row.
LEMMA PlaceExists ==
    ASSUME NEW n \in Nat, NEW dates \in [1..n -> Int], NEW k \in 1..n
    PROVE  \E i \in 1..n : Cardinality(Earlier(dates, i)) = k - 1
  <1>1. IsFiniteSet(1..n) /\ Cardinality(1..n) = n
    BY FS_Interval
  <1>2. IsFiniteSet(0..(n - 1)) /\ Cardinality(0..(n - 1)) = n
    BY FS_Interval
  <1>3. ASSUME NEW i \in 1..n
        PROVE  /\ IsFiniteSet(Earlier(dates, i))
               /\ Cardinality(Earlier(dates, i)) \in 0..(n - 1)
    <2>1. PICK E : E = Earlier(dates, i)
      OBVIOUS
    <2>2. E \subseteq 1..n /\ i \notin E
      BY <2>1 DEF Earlier
    <2>3. IsFiniteSet(E) /\ Cardinality(E) <= n /\ Cardinality(E) # n
      <3>1. PICK D : D = 1..n
        OBVIOUS
      <3>2. IsFiniteSet(D) /\ Cardinality(D) = n /\ E \subseteq D /\ E # D
        BY <1>1, <2>2, <3>1
      <3>3. QED
        BY <3>2, FS_Subset
    <2>4. Cardinality(E) \in Nat
      BY <2>3, FS_CardinalityType
    <2>5. QED
      BY <2>1, <2>3, <2>4
  <1>4. ASSUME NEW i \in 1..n, NEW j \in 1..n, i \in Earlier(dates, j)
        PROVE  Cardinality(Earlier(dates, i)) < Cardinality(Earlier(dates, j))
    <2>1. PICK A, B : A = Earlier(dates, i) /\ B = Earlier(dates, j)
      OBVIOUS
    <2>2. \A x \in A : x \in B
      <3>1. ASSUME NEW x \in A PROVE x \in B
        <4>1. /\ x \in 1..n
              /\ dates[x] < dates[i] \/ (dates[x] = dates[i] /\ x < i)
              /\ dates[i] < dates[j] \/ (dates[i] = dates[j] /\ i < j)
          BY <1>4, <2>1 DEF Earlier
        <4>2. dates[x] \in Int /\ dates[i] \in Int /\ dates[j] \in Int
          BY <4>1
        <4>3. dates[x] < dates[j] \/ (dates[x] = dates[j] /\ x < j)
          BY <4>1, <4>2
        <4>4. QED
          BY <2>1, <4>1, <4>3 DEF Earlier
      <3>2. QED
        BY <3>1
    <2>3. i \in B /\ i \notin A
      BY <1>4, <2>1 DEF Earlier
    <2>4. IsFiniteSet(A) /\ IsFiniteSet(B) /\ Cardinality(A) \in Nat /\ Cardinality(B) \in Nat
      BY <1>3, <2>1
    <2>5. Cardinality(A) <= Cardinality(B) /\ Cardinality(A) # Cardinality(B)
      BY <2>2, <2>3, <2>4, FS_Subset
    <2>6. QED
      BY <2>1, <2>4, <2>5
  <1>5. PICK f : f = [i \in 1..n |-> Cardinality(Earlier(dates, i))]
    OBVIOUS
  <1>6. f \in [1..n -> 0..(n - 1)]
    BY <1>3, <1>5
  <1>7. ASSUME NEW i \in 1..n, NEW j \in 1..n, f[i] = f[j] PROVE i = j
    <2>1. /\ Cardinality(Earlier(dates, i)) = Cardinality(Earlier(dates, j))
          /\ Cardinality(Earlier(dates, i)) \in Int
      BY <1>3, <1>5, <1>7
    <2>2. i \notin Earlier(dates, j) /\ j \notin Earlier(dates, i)
      BY <1>4, <2>1
    <2>3. dates[i] \in Int /\ dates[j] \in Int
      OBVIOUS
    <2>4. QED
      BY <2>2, <2>3 DEF Earlier
  <1>8. f \in Injection(1..n, 0..(n - 1))
    BY <1>6, <1>7 DEF Injection, IsInjective
  <1>9. f \in Surjection(1..n, 0..(n - 1))
    BY <1>1, <1>2, <1>8, FS_Injection
  <1>10. k - 1 \in 0..(n - 1)
    OBVIOUS
  <1>11. PICK i \in 1..n : f[i] = k - 1
    BY <1>9, <1>10 DEF Surjection
  <1>12. QED
    BY <1>5, <1>11

\* Sorted rows are rows of the list.
LEMMA SortedTyped ==
    ASSUME NEW T, NEW rs \in Seq(T), NEW n, n = Len(rs), NEW dates \in [1..n -> Int],
           NEW q, q = Sorted(rs, dates)
    PROVE  q \in Seq(T) /\ Len(q) = n
  <1>1. n \in Nat /\ DOMAIN rs = 1..n
    BY LenProperties
  <1>2. ASSUME NEW k \in 1..n PROVE Place(dates, k) \in 1..n
    <2>1. \E i \in 1..n : Cardinality(Earlier(dates, i)) = k - 1
      BY <1>1, PlaceExists
    <2>2. DOMAIN dates = 1..n
      OBVIOUS
    <2>3. QED
      BY <2>1, <2>2 DEF Place
  <1>3. q = [k \in 1..n |-> rs[Place(dates, k)]]
    BY <1>1 DEF Sorted
  <1>4. \A k \in 1..n : rs[Place(dates, k)] \in T
    BY <1>1, <1>2, ElementOfSeq
  <1>5. q \in [1..n -> T]
    BY <1>3, <1>4
  <1>6. QED
    BY <1>1, <1>5, FunctionIsList

\* Rows in the order of their dates stay where they are.
LEMMA SortedStays ==
    ASSUME NEW T, NEW rs \in Seq(T), NEW n, n = Len(rs), NEW dates \in [1..n -> Int],
           \A i, j \in 1..n : i < j => dates[i] < dates[j],
           NEW q, q = Sorted(rs, dates)
    PROVE  q = rs
  <1>1. n \in Nat /\ DOMAIN rs = 1..n
    BY LenProperties
  <1>2. ASSUME NEW i \in 1..n PROVE Cardinality(Earlier(dates, i)) = i - 1
    <2>1. ASSUME NEW j \in 1..n PROVE j \in Earlier(dates, i) <=> j < i
      <3>1. dates[i] \in Int /\ dates[j] \in Int
        OBVIOUS
      <3>2. CASE j < i
        <4>1. dates[j] < dates[i]
          BY <3>2
        <4>2. QED
          BY <3>2, <4>1 DEF Earlier
      <3>3. CASE j = i
        BY <3>1, <3>3 DEF Earlier
      <3>4. CASE i < j
        <4>1. dates[i] < dates[j]
          BY <3>4
        <4>2. QED
          BY <3>1, <3>4, <4>1 DEF Earlier
      <3>5. QED
        BY <1>1, <3>2, <3>3, <3>4
    <2>2. Earlier(dates, i) \subseteq 1..n
      BY DEF Earlier
    <2>3. Earlier(dates, i) = 1..(i - 1)
      <3>1. PICK E : E = Earlier(dates, i)
        OBVIOUS
      <3>2. \A j \in 1..n : j \in E <=> j \in 1..(i - 1)
        <4>1. ASSUME NEW j \in 1..n PROVE j \in E <=> j \in 1..(i - 1)
          BY <2>1, <3>1
        <4>2. QED
          BY <4>1
      <3>3. E \subseteq 1..n
        BY <2>2, <3>1
      <3>4. 1..(i - 1) \subseteq 1..n
        BY <1>1
      <3>5. E = 1..(i - 1)
        BY <3>2, <3>3, <3>4
      <3>6. QED
        BY <3>1, <3>5
    <2>4. Cardinality(1..(i - 1)) = i - 1
      BY FS_Interval
    <2>5. QED
      BY <2>3, <2>4
  <1>3. ASSUME NEW k \in 1..n PROVE Place(dates, k) = k
    <2>1. Cardinality(Earlier(dates, k)) = k - 1
      BY <1>2
    <2>2. ASSUME NEW i \in 1..n, Cardinality(Earlier(dates, i)) = k - 1 PROVE i = k
      <3>1. i - 1 = k - 1
        BY <1>2, <2>2
      <3>2. QED
        BY <3>1
    <2>3. DOMAIN dates = 1..n
      OBVIOUS
    <2>4. QED
      BY <2>1, <2>2, <2>3 DEF Place
  <1>4. q = [k \in 1..n |-> rs[Place(dates, k)]]
    BY <1>1 DEF Sorted
  <1>5. \A k \in 1..n : rs[Place(dates, k)] = rs[k]
    BY <1>3
  <1>6. rs = [k \in 1..n |-> rs[k]]
    BY <1>1
  <1>7. QED
    <2>1. QED
      BY <1>4, <1>5, <1>6, Zenon

\* Every row has a date to be sorted by.
LEMMA DatesTyped ==
    ASSUME RowsInv, rows # <<>>, NEW fromFile \in BOOLEAN
    PROVE  CloseDates(rows, fromFile) \in [1..Len(rows) -> Int]
  <1>1. PICK n \in Nat : n = Len(rows) /\ DOMAIN rows = 1..n
    BY RowsTyped
  <1>2. ASSUME NEW i \in 1..n PROVE rows[i].close \in Int /\ rows[i].entry \in Int
    <2>1. rows[i] \in RowType
      BY <1>1, <1>2 DEF RowsInv
    <2>2. QED
      BY <2>1 DEF RowType
  <1>3. n # 0
    <2>1. rows \in Seq(RowType)
      BY RowsTyped
    <2>2. QED
      BY <1>1, <2>1, EmptySeq
  <1>4. PICK f : f = [i \in 1..n |-> rows[i].close]
    OBVIOUS
  <1>5. PICK S : S = {f[i] : i \in 1..n}
    OBVIOUS
  <1>6. S \in SUBSET Int /\ S # {}
    BY <1>2, <1>3, <1>4, <1>5
  <1>7. IsFiniteSet(S)
    <2>1. IsFiniteSet(1..n)
      BY FS_Interval
    <2>2. DOMAIN f = 1..n
      BY <1>4
    <2>3. QED
      BY <1>5, <2>1, <2>2, ValuesFinite
  <1>8. Max(S) \in Int
    BY <1>6, <1>7, MaxOfFinite
  <1>9. S = {rows[i].close : i \in DOMAIN rows}
    BY <1>1, <1>4, <1>5
  <1>10. PICK after \in Int : after = 1 + Max({rows[i].close : i \in DOMAIN rows})
    <2>1. PICK m \in Int : m = Max(S)
      BY <1>8
    <2>2. m = Max({rows[i].close : i \in DOMAIN rows})
      BY <1>9, <2>1, Zenon
    <2>3. 1 + m \in Int /\ 1 + m = 1 + Max({rows[i].close : i \in DOMAIN rows})
      BY <2>2
    <2>4. QED
      BY <2>3
  <1> DEFINE Date(i) == CASE rows[i].close # NoClose -> rows[i].close
                          [] rows[i].close = NoClose /\ fromFile -> after
                          [] OTHER -> rows[i].entry
  <1>11. CloseDates(rows, fromFile) = [i \in 1..n |-> Date(i)]
    BY <1>1, <1>10 DEF CloseDates
  <1>12. ASSUME NEW i \in 1..n PROVE Date(i) \in Int
    <2>1. PICK c, e \in Int : c = rows[i].close /\ e = rows[i].entry
      BY <1>2
    <2>2. CASE c # NoClose
      BY <2>1, <2>2
    <2>3. CASE c = NoClose /\ fromFile
      BY <2>1, <2>3
    <2>4. CASE c = NoClose /\ ~fromFile
      BY <2>1, <2>4
    <2>5. QED
      BY <2>2, <2>3, <2>4
  <1>13. QED
    <2> HIDE DEF Date
    <2>1. QED
      BY <1>1, <1>11, <1>12

\* The rows by close date are rows, and have the R of the file where they are
\* in its order.
LEMMA FrameTyped ==
    ASSUME RowsInv, rows # <<>>, NEW q, q = StreakFrame(rows, FromFile)
    PROVE  q \in Seq(RowType) /\ Len(q) = Len(rows) /\ (InCloseOrder => RRs(q) = RRs(rows))
  <1>1. PICK n \in Nat : n = Len(rows) /\ DOMAIN rows = 1..n
    BY RowsTyped
  <1>2. FromFile \in BOOLEAN
    BY DEF FromFile
  <1>3. PICK dates : dates = CloseDates(rows, FromFile)
    OBVIOUS
  <1>4. dates \in [1..n -> Int]
    BY <1>1, <1>2, <1>3, DatesTyped
  <1>5. PICK dated : dated = [i \in 1..n |-> [rows[i] EXCEPT !.close = dates[i]]]
    OBVIOUS
  <1>6. ASSUME NEW i \in 1..n PROVE dated[i] \in RowType /\ dated[i].rr = rows[i].rr
    <2>1. rows[i] \in RowType /\ dates[i] \in Int
      BY <1>1, <1>4 DEF RowsInv
    <2>2. dated[i] = [rows[i] EXCEPT !.close = dates[i]]
      BY <1>5
    <2>3. QED
      BY <2>1, <2>2 DEF RowType
  <1>7. dated \in [1..n -> RowType]
    BY <1>5, <1>6
  <1>8. dated \in Seq(RowType) /\ Len(dated) = n
    BY <1>7, FunctionIsList
  <1>9. q = Sorted(dated, dates)
    BY <1>1, <1>3, <1>5 DEF StreakFrame
  <1>10. q \in Seq(RowType) /\ Len(q) = n
    BY <1>4, <1>8, <1>9, SortedTyped
  <1>11. ASSUME InCloseOrder PROVE RRs(q) = RRs(rows)
    <2>1. \A i, j \in 1..n : i < j => dates[i] < dates[j]
      BY <1>1, <1>3, <1>11 DEF InCloseOrder
    <2>2. q = dated
      BY <1>4, <1>8, <1>9, <2>1, SortedStays
    <2>3. DOMAIN q = 1..n
      BY <1>5, <2>2
    <2>4. RRs(q) = [i \in 1..n |-> q[i].rr] /\ RRs(rows) = [i \in 1..n |-> rows[i].rr]
      BY <1>1, <2>3 DEF RRs
    <2>5. \A i \in 1..n : q[i].rr = rows[i].rr
      BY <1>6, <2>2
    <2>6. QED
      BY <2>4, <2>5, Zenon
  <1>12. QED
    BY <1>1, <1>10, <1>11

\* The results of rows by the sign of R, and which of them are losses.
Signs(q) == [i \in DOMAIN q |-> Sign(q[i].rr)]

LossFlags(res) == [i \in DOMAIN res |-> res[i] = "L"]

\* The losing streaks of any list of rows.
LEMMA StreaksOf ==
    ASSUME NEW q \in Seq(RowType), NEW res, res = Signs(q),
           NEW d, d = Max(ToSet(LossStreakLengths(res)) \cup {0}),
           NEW flags, flags = LossFlags(res)
    PROVE  /\ d = MaxRun(flags) /\ d <= Max(ToSet(RunsBefore(Append(res, "B"))))
           /\ d = Max({Streaks(flags)[i] : i \in 0..Len(q)})
  <1>1. PICK n \in Nat : n = Len(q) /\ DOMAIN q = 1..n
    BY LenProperties
  <1>2. PICK T : T = {"L", "W", "B"}
    OBVIOUS
  <1>3. res = [i \in 1..n |-> Sign(q[i].rr)]
    BY <1>1 DEF Signs
  <1>4. \A i \in 1..n : Sign(q[i].rr) \in T
    BY <1>2 DEF Sign
  <1>5. res \in Seq(T) /\ Len(res) = n /\ DOMAIN res = 1..n
    <2>1. res \in [1..n -> T]
      BY <1>3, <1>4
    <2>2. QED
      BY <1>3, <2>1, FunctionIsList
  <1>6. flags = [i \in 1..n |-> res[i] = "L"]
    BY <1>5 DEF LossFlags
  <1>7. flags \in Seq(BOOLEAN) /\ Len(flags) = n
    <2>1. flags \in [1..n -> BOOLEAN]
      BY <1>6
    <2>2. QED
      BY <2>1, FunctionIsList
  <1>8. \A i \in 1..n : flags[i] = (res[i] = "L")
    BY <1>6
  <1>9. PICK C : C = Streaks(flags)
    OBVIOUS
  <1>10. \A i \in 0..n : C[i] \in Int
    <2>1. \A i \in 0..Len(flags) : Streaks(flags)[i] \in Nat
      BY <1>7, StreaksEquations, Zenon
    <2>2. \A i \in 0..n : C[i] \in Nat
      BY <1>7, <1>9, <2>1, Zenon
    <2>3. QED
      BY <2>2
  <1>11. PICK m : m = Max({C[i] : i \in 0..n})
    OBVIOUS
  <1>12. Longest(m, C, n)
    BY <1>10, <1>11, MaxIsLongest
  <1>13. Longest(d, C, n)
    BY <1>5, <1>7, <1>8, <1>9, LengthsLongest
  <1>14. Longest(MaxRun(flags), C, n)
    BY <1>7, <1>9, StreaksCount, MaxRunIsLongest
  <1>15. m = d /\ d = MaxRun(flags)
    BY <1>12, <1>13, <1>14, OneLongest
  <1>16. d <= Max(ToSet(RunsBefore(Append(res, "B"))))
    BY <1>2, <1>5, <1>7, <1>8, <1>9, <1>13, RunsAreNoShorter
  <1>17. QED
    BY <1>1, <1>9, <1>11, <1>15, <1>16, Zenon

\* The pairs of a list of rows are those of its groups.
LEMMA PairsOfGroups ==
    ASSUME NEW q \in Seq(RowType), NEW p \in PairsIn(q)
    PROVE  GroupRows(q, p) \in Seq(RowType) /\ Len(GroupRows(q, p)) # 0
  <1>1. PICK n \in Nat : n = Len(q) /\ DOMAIN q = 1..n
    BY LenProperties
  <1>2. \E j \in 1..n : q[j].pair = p
    BY <1>1 DEF PairsIn
  <1>3. QED
    BY <1>1, <1>2, GroupRowsTyped, Zenon

\* A file of one group is that group.
LEMMA OneGroupIsTheFile ==
    ASSUME RowsInv, OneGroup, NEW p \in PairsIn(rows)
    PROVE  (\A j \in 1..Len(rows) : rows[j].pair = p) /\ GroupRows(rows, p) = rows
  <1>1. rows \in Seq(RowType) /\ DOMAIN rows = 1..Len(rows)
    BY RowsTyped
  <1>2. PICK i \in DOMAIN rows : rows[i].pair = p
    BY DEF PairsIn
  <1>3. \A j \in 1..Len(rows) : rows[j].pair = p
    BY <1>1, <1>2 DEF OneGroup
  <1>4. GroupRows(rows, p) = rows
    BY <1>1, <1>3, GroupRowsTyped, Zenon
  <1>5. QED
    BY <1>3, <1>4

\* The tools agree on the longest losing streak as far as their orders do.
LEMMA AllStreaksAgree ==
    ASSUME RowsInv, rows # <<>>
    PROVE  StreaksAgree
  <1>1. PICK frame : frame = StreakFrame(rows, FromFile)
    OBVIOUS
  <1>2. frame \in Seq(RowType) /\ (InCloseOrder => RRs(frame) = RRs(rows))
    BY <1>1, FrameTyped
  <1>3. PICK res : res = Signs(frame)
    OBVIOUS
  <1>4. PICK d : d = Max(ToSet(LossStreakLengths(res)) \cup {0})
    OBVIOUS
  <1>5. PICK flags : flags = LossFlags(res)
    OBVIOUS
  <1>6. /\ d = MaxRun(flags) /\ d <= Max(ToSet(RunsBefore(Append(res, "B"))))
        /\ d = Max({Streaks(flags)[i] : i \in 0..Len(frame)})
    BY <1>2, <1>3, <1>4, <1>5, StreaksOf
  <1>7. ASSUME OneGroup, InCloseOrder, NEW p \in PairsIn(rows)
        PROVE  MaxStreak(GroupRows(rows, p), "LOSS") = d
    <2>1. PICK n \in Nat : n = Len(rows) /\ DOMAIN rows = 1..n
      BY RowsTyped
    <2>2. GroupRows(rows, p) = rows
      BY <1>7, OneGroupIsTheFile
    <2>3. RRs(frame) = RRs(rows)
      BY <1>2, <1>7
    <2>4. Len(frame) = n /\ DOMAIN frame = 1..n
      <3>1. Len(frame) = n
        BY <1>1, <2>1, FrameTyped
      <3>2. QED
        BY <1>2, <3>1, LenProperties
    <2>5. ASSUME NEW i \in 1..n PROVE frame[i].rr = rows[i].rr
      <3>1. RRs(frame)[i] = frame[i].rr /\ RRs(rows)[i] = rows[i].rr
        BY <2>1, <2>4 DEF RRs
      <3>2. QED
        BY <2>3, <3>1
    <2>6. ASSUME NEW i \in 1..n PROVE (rows[i].outcome = "LOSS") = (res[i] = "L")
      <3>1. rows[i].rr \in Int /\ Signed(rows[i].outcome, rows[i].rr)
        BY <2>1 DEF RowsInv
      <3>2. res[i] = Sign(rows[i].rr)
        BY <1>3, <2>4, <2>5 DEF Signs
      <3>3. (res[i] = "L") <=> (rows[i].rr < 0)
        BY <3>1, <3>2 DEF Sign
      <3>4. (rows[i].outcome = "LOSS") <=> (rows[i].rr < 0)
        BY <3>1 DEF Signed
      <3>5. QED
        BY <3>3, <3>4, Zenon
    <2>7. DOMAIN res = 1..n
      BY <1>3, <2>4 DEF Signs
    <2>8. flags = [i \in 1..n |-> rows[i].outcome = "LOSS"]
      <3>1. flags = [i \in 1..n |-> res[i] = "L"]
        BY <1>5, <2>7 DEF LossFlags
      <3>2. QED
        BY <2>6, <3>1, Zenon
    <2>9. MaxStreak(rows, "LOSS") = Max({Streaks(flags)[i] : i \in 0..n})
      BY <2>1, <2>8, Zenon DEF MaxStreak
    <2>10. QED
      BY <1>6, <2>2, <2>4, <2>9, Zenon
  <1>8. QED
    BY <1>1, <1>3, <1>4, <1>5, <1>6, <1>7, Zenon DEF StreaksAgree, Signs, LossFlags

\* The drawdowns in R of a group.
LEMMA GroupDrawdowns ==
    ASSUME RowsInv, rows # <<>>, NEW p \in PairsIn(rows), NEW rrs, rrs = RRs(GroupRows(rows, p))
    PROVE  /\ MaxDrawdown(rrs) <= MaxDrawdown(<< 0 >> \o rrs)
           /\ MaxDrawdown(<< 0 >> \o rrs) <= MaxDrawdown(rrs) + Larger(0, -rrs[1])
           /\ OneGroup /\ InCloseOrder
              => MaxDrawdown(rrs) = -MaxDd(RRs(StreakFrame(rows, FromFile)))
  <1>1. PICK q : q = GroupRows(rows, p)
    OBVIOUS
  <1>2. q \in Seq(RowType) /\ Len(q) # 0
    BY <1>1, RowsTyped, PairsOfGroups
  <1>3. rrs \in Seq(Int) /\ Len(rrs) # 0
    BY <1>1, <1>2, RRsOf
  <1>4. rrs # <<>>
    BY <1>3
  <1>5. /\ MaxDrawdown(rrs) = -MaxDd(rrs)
        /\ MaxDrawdown(rrs) <= MaxDrawdown(<< 0 >> \o rrs)
        /\ MaxDrawdown(<< 0 >> \o rrs) <= MaxDrawdown(rrs) + Larger(0, -rrs[1])
    BY <1>3, <1>4, RDrawdowns
  <1>6. ASSUME OneGroup, InCloseOrder PROVE RRs(StreakFrame(rows, FromFile)) = rrs
    <2>1. q = rows
      BY <1>1, <1>6, OneGroupIsTheFile
    <2>2. RRs(StreakFrame(rows, FromFile)) = RRs(rows)
      BY <1>6, FrameTyped
    <2>3. QED
      BY <1>1, <2>1, <2>2, Zenon
  <1>7. QED
    BY <1>5, <1>6, Zenon

\* The money of a group of a saved file.
LEMMA SavedMoney ==
    ASSUME RowsInv, NEW acct \in Account, NEW saved, saved = Saved(rows, acct),
           NEW p \in PairsIn(saved), NEW account, account = ComputeAccounting(RRs(rows), acct),
           NEW e, e = DollarDrawdown(GroupBalances(saved, p, acct))
    PROVE  e <= account.max_dd /\ (OneGroup => e = account.max_dd)
  <1>1. rows \in Seq(RowType) /\ DOMAIN rows = 1..Len(rows) /\ Len(rows) \in Nat
    BY RowsTyped
  <1>2. PICK bs : bs = EquityCurve(RRs(saved), acct)
    OBVIOUS
  <1>3. PICK m : m = TradesRun(RRs(rows), acct)
    OBVIOUS
  <1>4. /\ m \in 0..Len(rows) /\ bs \in Seq(Int) /\ Len(bs) = m + 1
        /\ IsDrawdown(account.max_dd, bs)
    BY <1>2, <1>3, MoneyAgrees
  <1>5. saved = SubSeq(rows, 1, m)
    BY <1>3 DEF Saved
  <1>6. m \in Nat /\ m <= Len(rows)
    BY <1>1, <1>4
  <1>7. saved \in Seq(RowType) /\ Len(saved) = m /\ DOMAIN saved = 1..m
        /\ \A i \in 1..m : saved[i] = rows[i]
    <2>1. PICK n \in Nat : n = Len(rows)
      BY <1>1
    <2>2. QED
      BY <1>1, <1>5, <1>6, <2>1, SubSeqProperties
  <1>8. PICK g : g = Group(saved, p)
    OBVIOUS
  <1>9. Len(g) # 0
    <2>1. PICK j \in 1..m : saved[j].pair = p
      BY <1>7 DEF PairsIn
    <2>2. Gathers(g, saved, p, m)
      BY <1>7, <1>8, GroupGathers
    <2>3. PICK k \in 1..Len(g) : g[k] = j
      BY <2>1, <2>2, <1>6 DEF Gathers
    <2>4. QED
      BY <2>3
  <1>10. PICK c : c = BalancesAt(g, bs)
    OBVIOUS
  <1>11. GroupBalances(saved, p, acct) = c
    BY <1>2, <1>8, <1>10, Zenon DEF GroupBalances, BalancesAt
  <1>12. /\ DollarDrawdown(c) <= account.max_dd
         /\ (\A j \in 1..m : saved[j].pair = p) => DollarDrawdown(c) = account.max_dd
    <2>1. PICK d : d = account.max_dd
      OBVIOUS
    <2>2. IsDrawdown(d, bs)
      BY <1>4, <2>1, Zenon
    <2>3. /\ DollarDrawdown(c) <= d
          /\ (\A j \in 1..m : saved[j].pair = p) => DollarDrawdown(c) = d
      BY <1>4, <1>6, <1>7, <1>8, <1>9, <1>10, <2>2, GroupMoney
    <2>4. QED
      BY <2>1, <2>3, Zenon
  <1>13. ASSUME OneGroup PROVE \A j \in 1..m : saved[j].pair = p
    <2>1. PICK i \in 1..m : saved[i].pair = p
      BY <1>7 DEF PairsIn
    <2>2. ASSUME NEW j \in 1..m PROVE saved[j].pair = p
      <3>1. i \in 1..Len(rows) /\ j \in 1..Len(rows)
        BY <1>1, <1>6
      <3>2. rows[i].pair = rows[j].pair
        BY <1>1, <1>13, <3>1 DEF OneGroup
      <3>3. QED
        BY <1>7, <2>1, <3>2
    <2>3. QED
      BY <2>2
  <1>14. QED
    BY <1>11, <1>12, <1>13, Zenon

\* The drawdowns of any list of trades.
LEMMA AllDrawdownsAgree ==
    ASSUME RowsInv, rows # <<>>
    PROVE  DrawdownsAgree
  <1>1. ASSUME NEW p \in PairsIn(rows), NEW rrs, rrs = RRs(GroupRows(rows, p))
        PROVE  /\ MaxDrawdown(rrs) <= MaxDrawdown(<< 0 >> \o rrs)
               /\ MaxDrawdown(<< 0 >> \o rrs) <= MaxDrawdown(rrs) + Larger(0, -rrs[1])
               /\ OneGroup /\ InCloseOrder
                  => MaxDrawdown(rrs) = -MaxDd(RRs(StreakFrame(rows, FromFile)))
    BY <1>1, GroupDrawdowns
  <1>2. ASSUME NEW acct \in Accounts, NEW account, account = ComputeAccounting(RRs(rows), acct),
               NEW saved, saved = Saved(rows, acct)
        PROVE  /\ \A p \in PairsIn(saved) :
                    /\ DollarDrawdown(GroupBalances(saved, p, acct)) <= account.max_dd
                    /\ OneGroup => DollarDrawdown(GroupBalances(saved, p, acct)) = account.max_dd
               /\ account.balance - StartBalance = GrossProfit(account) - GrossLoss(account)
    <2>1. acct \in Account
      BY AccountsAssumption DEF Account
    <2>2. ASSUME NEW p \in PairsIn(saved)
          PROVE  /\ DollarDrawdown(GroupBalances(saved, p, acct)) <= account.max_dd
                 /\ OneGroup => DollarDrawdown(GroupBalances(saved, p, acct)) = account.max_dd
      BY <1>2, <2>1, SavedMoney
    <2>3. account.balance - StartBalance = GrossProfit(account) - GrossLoss(account)
      <3>1. PICK rrs : rrs = RRs(rows)
        OBVIOUS
      <3>2. PICK bs : bs = EquityCurve(RRs(Saved(rows, acct)), acct)
        OBVIOUS
      <3>3. account = ComputeAccounting(rrs, acct)
        BY <1>2, <3>1, Zenon
      <3>4. QED
        BY <2>1, <3>1, <3>2, <3>3, MoneyAgrees
    <2>4. QED
      BY <2>2, <2>3
  <1>3. QED
    BY <1>1, <1>2, Zenon DEF DrawdownsAgree

-----------------------------------------------------------------------------
(***************************************************************************)
(* What the tools say of one list of trades                                *)
(***************************************************************************)
\* Whatever run or file the rows come from, each tool taking them in its own
\* order: the drawdown the dashboard finds in R of a pair falls short of the
\* fall from the start by at most a losing first trade, the drawdown in money
\* of a pair of a saved file is at most the account's, the profits and the
\* losses make up what the balance changed by, and the longest losing streak by
\* close date is the same run by run or all at once.  Where the file has one
\* pair and its trades close in its order, the dashboard and the streak analysis
\* find the same drawdown and the same longest streak (_compute_accounting,
\* _build_equity_curve, group_rows_by_pair, _build_df, _max_dd,
\* _loss_streak_lengths, _max_run, runs_before).
THEOREM CurvesAlwaysAgree == Spec => []CurvesAgree
  <1>1. RowsInv => CurvesAgree
    BY AllDrawdownsAgree, AllStreaksAgree DEF CurvesAgree
  <1>2. QED
    BY <1>1, RowsAreTrades, PTL

=============================================================================
