---------------------------- MODULE MarketProofs ----------------------------
(***************************************************************************)
(* Theorems of Market, for any documents, names, symbols and broker clocks *)
(* that are whole hours away from UTC and change at any time.              *)
(***************************************************************************)
EXTENDS Market, IterationProofs

-----------------------------------------------------------------------------
(***************************************************************************)
(* The clock                                                               *)
(***************************************************************************)

\* The nearest whole hour is at most half an hour away.
LEMMA RoundIsNear ==
    ASSUME NEW x \in Int
    PROVE  /\ Round(x) \in Int
           /\ 2 * (x - Round(x)) <= Hour /\ 2 * (Round(x) - x) <= Hour
  <1> DEFINE q == x \div 4
             r == x % 4
  <1>1. q \in Int /\ r \in 0..3 /\ x = 4 * q + r
    OBVIOUS
  <1>2. Round(x) = 4 * (IF 2 * r < 4 \/ (2 * r = 4 /\ q % 2 = 0) THEN q ELSE q + 1)
    BY DEF Round, Hour
  <1> HIDE DEF q, r
  <1>3. Round(x) = 4 * q \/ Round(x) = 4 * (q + 1)
    BY <1>2
  <1>4. r \in {0, 1} => Round(x) = 4 * q
    BY <1>1, <1>2
  <1>5. r = 3 => Round(x) = 4 * (q + 1)
    BY <1>1, <1>2
  <1>6. QED
    BY <1>1, <1>3, <1>4, <1>5 DEF Hour

\* An offset seen less than half an hour late is rounded to what it is.
LEMMA RoundIsExact ==
    ASSUME NEW z \in Int, z % Hour = 0, NEW d \in Nat, 2 * d < Hour
    PROVE  Round(z - d) = z
  <1>1. PICK k \in Int : z = 4 * k
    BY DEF Hour
  <1>2. d = 0 \/ d = 1
    BY DEF Hour
  <1>3. CASE d = 0
    <2>1. (z - d) \div 4 = k /\ (z - d) % 4 = 0
      BY <1>1, <1>3
    <2>2. QED
      BY <1>1, <2>1 DEF Round, Hour
  <1>4. CASE d = 1
    <2>1. (z - d) \div 4 = k - 1 /\ (z - d) % 4 = 3
      BY <1>1, <1>4
    <2>2. QED
      BY <1>1, <2>1 DEF Round, Hour
  <1>5. QED
    BY <1>2, <1>3, <1>4

\* Both of the broker's clocks are whole hours away from UTC.
LEMMA ZoneType ==
    ASSUME setup \in Setups, NEW t
    PROVE  Zone(t) \in Int /\ Zone(t) % Hour = 0
  BY MarketAssumption DEF Zone

-----------------------------------------------------------------------------
(***************************************************************************)
(* What a call holds between its two reads.  The offset of a candle call   *)
(* is the one of the tick it was taken from, which had come by then.       *)
(***************************************************************************)
TimeCall == [kind : {"now", "tick"}, name : NameSet, tick : Nat]

CandleCall == [kind : {"candles", "range"}, name : NameSet, used : Nat \cup {NoTick},
               at : Nat, offset : Int, from : Nat, to : Nat]

OffsetIsTheTicks(c) ==
    c.used # NoTick => c.used <= c.at /\ c.offset = Round(Stamp(c.used) - c.at)

CallOK(c) == \/ c = Idle
             \/ c \in TimeCall
             \/ c \in CandleCall /\ OffsetIsTheTicks(c)

\* The settings as they were loaded; the client only writes the offset.
Loaded == Load(setup.base, setup.over, setup.creds)

IsLoaded ==
    /\ Loaded # Rejected
    /\ DOMAIN settings = DOMAIN Loaded
    /\ \A k \in DOMAIN Loaded \ {"broker_time_offset"} : settings[k] = Loaded[k]

(***************************************************************************)
(* What makes ClockTrue inductive.                                         *)
(***************************************************************************)
ClockInv ==
    /\ setup \in Setups
    /\ now \in Nat
    /\ last \in [NameSet -> Nat] /\ \A n \in NameSet : last[n] <= now
    /\ resolved \in [Spellings -> NameSet \cup {Unresolved}]
    /\ offsets \in [NameSet -> Int \cup {Unknown}]
    /\ terminal \in {"none", "up", "down"}
    /\ settings \notin {Unloaded, Rejected} \/ terminal # "none" => IsLoaded
    /\ DOMAIN calls = Symbols /\ \A s \in Symbols : CallOK(calls[s])

\* The constructor hands the aliases on.
LEMMA LoadedAliases ==
    ASSUME NEW base, NEW over, NEW creds, Load(base, over, creds) # Rejected
    PROVE  /\ "aliases" \in DOMAIN Load(base, over, creds)
           /\ Load(base, over, creds).aliases = creds.aliases
  BY DEF Load, Build

\* A set of naturals has the least element Min takes.
LEMMA MinIsLeast ==
    ASSUME NEW S \in SUBSET Nat, S # {}
    PROVE  Min(S) \in S /\ \A x \in S : Min(S) <= x
  BY LeastExists DEF Min

\* What a symbol resolves to is a name of the broker.
LEMMA EnsureSymbolType ==
    ASSUME ClockInv, NEW s \in Symbols, IsLoaded
    PROVE  /\ Clean(s) \in Spellings
           /\ EnsureSymbol(s) \in NameSet \cup {Unresolved}
  <1>1. setup \in Setups /\ settings.aliases = setup.creds.aliases
    BY LoadedAliases DEF ClockInv, IsLoaded, Loaded
  <1>2. Clean(s) \in Spellings
    BY <1>1 DEF Clean, Spellings
  <1>3. Listed \subseteq NameSet
    BY <1>1, MarketAssumption DEF Listed
  <1>4. ASSUME NEW clean PROVE Match(clean) \in NameSet \cup {Unresolved}
    <2> DEFINE fits == {i \in DOMAIN Names :
                          Names[i] \in Listed /\ clean \in setup.within[Names[i]]}
    <2>1. fits \in SUBSET Nat
      BY MarketAssumption
    <2>2. fits # {} => Min(fits) \in fits
      BY <2>1, MinIsLeast
    <2>3. Match(clean) = CASE clean \in Listed -> clean
                           [] clean \notin Listed /\ fits # {} -> Names[Min(fits)]
                           [] OTHER -> Unresolved
      BY DEF Match
    <2>4. \A i \in fits : Names[i] \in NameSet
      BY DEF NameSet
    <2> HIDE DEF fits
    <2>5. QED
      BY <1>3, <2>2, <2>3, <2>4
  <1>5. resolved[Clean(s)] \in NameSet \cup {Unresolved}
    BY <1>2 DEF ClockInv
  <1>6. QED
    BY <1>2, <1>4, <1>5 DEF EnsureSymbol

\* The offset is a number.
LEMMA OffsetType ==
    ASSUME ClockInv, NEW n \in NameSet
    PROVE  /\ Tick(n) \in Nat \cup {NoTick}
           /\ Tick(n) # NoTick => Tick(n) <= now /\ terminal = "up"
           /\ OffsetOf(n) \in Int
           /\ Tick(n) # NoTick => OffsetOf(n) = Round(Stamp(Tick(n)) - now)
  <1>1. last[n] \in Nat /\ last[n] <= now /\ now \in Nat
    BY DEF ClockInv
  <1>2. /\ Tick(n) \in Nat \cup {NoTick}
        /\ Tick(n) # NoTick => Tick(n) <= now /\ terminal = "up"
    BY <1>1 DEF Tick
  <1>3. CASE Tick(n) # NoTick
    <2>1. Stamp(Tick(n)) - now \in Int
      BY <1>1, <1>2, <1>3, ZoneType DEF Stamp, ClockInv
    <2>2. OffsetOf(n) = Round(Stamp(Tick(n)) - now)
      BY <1>3 DEF OffsetOf
    <2>3. QED
      BY <1>2, <2>1, <2>2, RoundIsNear
  <1>4. CASE Tick(n) = NoTick
    <2>1. offsets[n] \in Int \cup {Unknown}
      BY DEF ClockInv
    <2>2. QED
      BY <1>2, <1>4, <2>1 DEF OffsetOf
  <1>5. QED
    BY <1>3, <1>4

\* An offset read off a tick of the last half hour is the broker's.
LEMMA FreshOffset ==
    ASSUME setup \in Setups, NEW at \in Nat, NEW used \in Nat, used <= at,
           2 * (at - used) < Hour, Zone(used) = Zone(at)
    PROVE  Round(Stamp(used) - at) = Zone(at)
  <1>1. Zone(at) \in Int /\ Zone(at) % Hour = 0
    BY ZoneType
  <1>2. Stamp(used) - at = Zone(at) - (at - used)
    BY <1>1 DEF Stamp
  <1>3. at - used \in Nat
    OBVIOUS
  <1>4. QED
    BY <1>1, <1>2, <1>3, RoundIsExact

-----------------------------------------------------------------------------
(***************************************************************************)
(* The steps                                                               *)
(***************************************************************************)

\* A step that leaves the calls alone, or the settings and the market.
LEMMA CallsKept ==
    ASSUME NEW c, CallOK(c), setup' = setup
    PROVE  CallOK(c)'
  BY DEF CallOK, OffsetIsTheTicks, TimeCall, CandleCall, Stamp, Zone

LEMMA LoadedKept ==
    ASSUME IsLoaded, setup' = setup, DOMAIN settings' = DOMAIN settings,
           \A k \in DOMAIN settings \ {"broker_time_offset"} : settings'[k] = settings[k]
    PROVE  IsLoaded'
  BY DEF IsLoaded, Loaded

\* The market's own steps.
LEMMA ClockMarket ==
    ASSUME ClockInv,
           Pass \/ \E n \in setup.listed : Quote(n) \/ Lose(n)
    PROVE  ClockInv'
  <1>1. /\ UNCHANGED <<setup, settings, terminal, resolved, offsets, calls>>
    BY DEF Pass, Quote, Lose
  <1>2. \A s \in Symbols : CallOK(calls[s])'
    BY <1>1, CallsKept DEF ClockInv
  <1>3. settings' \notin {Unloaded, Rejected} \/ terminal' # "none" => IsLoaded'
    BY <1>1, LoadedKept DEF ClockInv
  <1>4. now' \in Nat /\ last' \in [NameSet -> Nat] /\ \A n \in NameSet : last'[n] <= now'
    <2>1. now \in Nat /\ last \in [NameSet -> Nat] /\ \A n \in NameSet : last[n] <= now
      BY DEF ClockInv
    <2>2. CASE Pass
      BY <2>1, <2>2 DEF Pass
    <2>3. ASSUME NEW n \in setup.listed, Quote(n) \/ Lose(n)
          PROVE  /\ now' = now
                 /\ last' = last \/ last' = [last EXCEPT ![n] = now]
      BY <2>3 DEF Quote, Lose
    <2>4. QED
      BY <2>1, <2>2, <2>3
  <1>5. QED
    BY <1>1, <1>2, <1>3, <1>4 DEF ClockInv

\* Loading, connecting and closing.
LEMMA ClockSettings ==
    ASSUME ClockInv, LoadSettings \/ Connect \/ Close
    PROVE  ClockInv'
  <1>1. UNCHANGED <<setup, now, last, resolved, offsets, calls>>
    BY DEF LoadSettings, Connect, Close, marketVars
  <1>2. \A s \in Symbols : CallOK(calls[s])'
    BY <1>1, CallsKept DEF ClockInv
  <1>3. /\ terminal' \in {"none", "up", "down"}
        /\ settings' \notin {Unloaded, Rejected} \/ terminal' # "none" => IsLoaded'
    <2>1. CASE LoadSettings
      <3>1. settings' = Loaded /\ terminal' = terminal
        BY <2>1 DEF LoadSettings, Loaded
      <3>2. Loaded' = Loaded
        BY <1>1 DEF Loaded
      <3>3. settings' # Rejected \/ terminal # "none" => Loaded # Rejected
        BY <3>1 DEF ClockInv, IsLoaded
      <3>4. QED
        BY <3>1, <3>2, <3>3 DEF IsLoaded, ClockInv
    <2>2. CASE Connect \/ Close
      <3>1. settings' = settings /\ terminal' \in {"up", "down"} /\ IsLoaded
        BY <2>2 DEF Connect, Close, ClockInv
      <3>2. QED
        BY <1>1, <3>1, LoadedKept
    <2>3. QED
      BY <2>1, <2>2
  <1>4. QED
    BY <1>1, <1>2, <1>3 DEF ClockInv

(***************************************************************************)
(* A call's step: it may remember a name, measure the offset and write     *)
(* down what the call holds.                                               *)
(***************************************************************************)
LEMMA ClockCall ==
    ASSUME ClockInv, NEW s \in Symbols,
           UNCHANGED <<setup, marketVars, terminal>>,
           (Remember(s) /\ terminal # "none") \/ UNCHANGED resolved,
           \/ UNCHANGED <<offsets, settings>>
           \/ \E n \in NameSet : Measure(n),
           NEW c, CallOK(c),
           calls' = [calls EXCEPT ![s] = c] \/ UNCHANGED calls
    PROVE  ClockInv'
  <1>1. UNCHANGED <<setup, now, last, terminal>>
    BY DEF marketVars
  <1>2. resolved' \in [Spellings -> NameSet \cup {Unresolved}]
    <2>1. resolved \in [Spellings -> NameSet \cup {Unresolved}]
      BY DEF ClockInv
    <2>2. terminal # "none" => EnsureSymbol(s) \in NameSet \cup {Unresolved}
      BY EnsureSymbolType DEF ClockInv
    <2>3. QED
      BY <2>1, <2>2 DEF Remember
  <1>3. /\ offsets' \in [NameSet -> Int \cup {Unknown}]
        /\ settings' \notin {Unloaded, Rejected} \/ terminal' # "none" => IsLoaded'
    <2>1. CASE UNCHANGED <<offsets, settings>>
      BY <1>1, <2>1, LoadedKept DEF ClockInv
    <2>2. ASSUME NEW n \in NameSet, Measure(n), Tick(n) # NoTick
          PROVE  offsets' \in [NameSet -> Int \cup {Unknown}] /\ IsLoaded'
      <3>1. OffsetOf(n) \in Int /\ IsLoaded
        BY <2>2, OffsetType DEF ClockInv
      <3>2. offsets' \in [NameSet -> Int \cup {Unknown}]
        BY <2>2, <3>1 DEF Measure, ClockInv
      <3>3. /\ DOMAIN settings' = DOMAIN settings
            /\ \A k \in DOMAIN settings \ {"broker_time_offset"} :
                    settings'[k] = settings[k]
        BY <2>2 DEF Measure
      <3>4. QED
        BY <1>1, <3>1, <3>2, <3>3, LoadedKept
    <2>3. ASSUME NEW n \in NameSet, Measure(n), Tick(n) = NoTick
          PROVE  UNCHANGED <<offsets, settings>>
      BY <2>3 DEF Measure
    <2>4. QED
      BY <2>1, <2>2, <2>3
  <1>4. DOMAIN calls' = Symbols /\ \A t \in Symbols : CallOK(calls'[t])
    BY DEF ClockInv
  <1>5. \A t \in Symbols : CallOK(calls[t])'
    <2>1. ASSUME NEW t \in Symbols PROVE CallOK(calls[t])'
      <3>1. PICK d : d = calls'[t]
        OBVIOUS
      <3>2. CallOK(d)
        BY <1>4, <3>1
      <3>3. CallOK(d)'
        BY <1>1, <3>2, CallsKept
      <3>4. QED
        BY <3>1, <3>3 DEF CallOK, OffsetIsTheTicks
    <2>2. QED
      BY <2>1
  <1>6. QED
    BY <1>1, <1>2, <1>3, <1>4, <1>5 DEF ClockInv

\* What a call answers with a time: its tick, shifted by the offset of now.
LEMMA TimeIsTrue ==
    ASSUME ClockInv, NEW s \in Symbols, AnswerTime(s)
    PROVE  NowIsNear(answer') /\ (Fresh(answer') => FreshIsTrue(answer'))
  <1>1. PICK c : c = calls[s]
    OBVIOUS
  <1>2. /\ setup \in Setups /\ now \in Nat
        /\ c \in TimeCall
    BY <1>1 DEF AnswerTime, ClockInv, CallOK, CandleCall
  <1>3. c.name \in NameSet /\ c.tick \in Nat /\ c.kind \in {"now", "tick"}
    BY <1>2 DEF TimeCall
  <1>4. PICK u, o : u = Tick(c.name) /\ o = OffsetOf(c.name)
    OBVIOUS
  <1>5. answer' = [kind |-> c.kind, at |-> now, read |-> c.tick, used |-> u,
                   value |-> Stamp(c.tick) - o]
    BY <1>1, <1>4 DEF AnswerTime
  <1>6. /\ u \in Nat \cup {NoTick} /\ o \in Int
        /\ u # NoTick => u <= now /\ o = Round(Stamp(u) - now)
    BY <1>3, <1>4, OffsetType
  <1>7. /\ answer'.kind = c.kind /\ answer'.at = now /\ answer'.read = c.tick
        /\ answer'.used = u /\ answer'.value = Stamp(c.tick) - o
    BY <1>5
  <1>8. Zone(c.tick) \in Int /\ Stamp(c.tick) = c.tick + Zone(c.tick)
    BY <1>2, ZoneType DEF Stamp
  <1>9. NowIsNear(answer')
    <2>1. SUFFICES ASSUME u = c.tick
                   PROVE  2 * (Stamp(c.tick) - o) \in (2 * now - Hour)..(2 * now + Hour)
      BY <1>7 DEF NowIsNear
    <2>2. PICK x \in Int : x = Stamp(c.tick) - now
      BY <1>2, <1>3, <1>8
    <2>3. o = Round(x)
      BY <1>3, <1>6, <2>1, <2>2, MarketAssumption
    <2>4. 2 * (x - o) <= Hour /\ 2 * (o - x) <= Hour
      BY <2>3, RoundIsNear
    <2>5. QED
      BY <1>2, <1>3, <1>6, <1>8, <2>2, <2>4 DEF Hour
  <1>10. ASSUME Fresh(answer') PROVE FreshIsTrue(answer')
    <2>1. u # NoTick /\ 2 * (now - u) < Hour /\ Zone(u) = Zone(now)
      BY <1>7, <1>10 DEF Fresh
    <2>2. o = Zone(now)
      BY <1>2, <1>6, <2>1, FreshOffset
    <2>3. Zone(c.tick) = Zone(now) => Stamp(c.tick) - o = c.tick
      BY <1>3, <1>8, <2>2
    <2>4. QED
      BY <1>3, <1>7, <2>3 DEF FreshIsTrue
  <1>11. QED
    BY <1>9, <1>10

\* What it answers with candles: those of the request, in UTC.
LEMMA CandlesAreTrue ==
    ASSUME ClockInv, NEW s \in Symbols, AnswerCandles(s)
    PROVE  NowIsNear(answer') /\ (Fresh(answer') => FreshIsTrue(answer'))
  <1>1. PICK c : c = calls[s]
    OBVIOUS
  <1>2. /\ setup \in Setups /\ now \in Nat
        /\ c \in CandleCall /\ OffsetIsTheTicks(c)
    BY <1>1 DEF AnswerCandles, ClockInv, CallOK, TimeCall
  <1>3. /\ c.kind \in {"candles", "range"} /\ c.name \in NameSet
        /\ c.used \in Nat \cup {NoTick} /\ c.at \in Nat /\ c.offset \in Int
        /\ c.from \in Nat /\ c.to \in Nat
    BY <1>2 DEF CandleCall
  <1>4. PICK to : to = IF c.to = 0 THEN now ELSE c.to
    OBVIOUS
  <1>5. to \in Nat
    BY <1>2, <1>3, <1>4
  <1>6. PICK value : value = {[opened |-> t, stamp |-> Stamp(t) - c.offset] : t \in Rates(c)}
    OBVIOUS
  <1>7. /\ answer'.kind = c.kind /\ answer'.at = c.at /\ answer'.used = c.used
        /\ answer'.from = c.from /\ answer'.to = to /\ answer'.had = Opened(c.name)
        /\ answer'.value = value
    BY <1>1, <1>4, <1>6 DEF AnswerCandles
  <1>8. NowIsNear(answer')
    BY <1>3, <1>7 DEF NowIsNear
  <1>9. ASSUME Fresh(answer') PROVE FreshIsTrue(answer')
    <2>1. /\ c.used # NoTick /\ 2 * (c.at - c.used) < Hour
          /\ Zone(c.used) = Zone(c.at)
      BY <1>7, <1>9 DEF Fresh
    <2>2. c.used \in Nat /\ c.used <= c.at /\ c.offset = Round(Stamp(c.used) - c.at)
      BY <1>2, <1>3, <2>1 DEF OffsetIsTheTicks
    <2>3. PICK z : z = Zone(c.at)
      OBVIOUS
    <2>4. z \in Int /\ c.offset = z
      BY <1>2, <1>3, <2>1, <2>2, <2>3, FreshOffset, ZoneType
    <2>5. Opened(c.name) \subseteq Nat
      BY <1>3 DEF Opened, ClockInv
    <2>6. Rates(c) \subseteq Opened(c.name)
      BY DEF Rates
    <2>7. \A t \in Opened(c.name) :
             Zone(t) = z => Stamp(t) = t + z /\ Stamp(t) - c.offset = t
      BY <2>4, <2>5 DEF Stamp
    <2> DEFINE Here == {d \in value : Zone(d.opened) = z}
    <2>8. \A d \in Here : /\ d.opened \in Rates(c) /\ Zone(d.opened) = z
                          /\ d = [opened |-> d.opened, stamp |-> d.opened]
      BY <1>6, <2>6, <2>7
    <2>9. c.kind = "range" =>
             Here = {[opened |-> t, stamp |-> t] :
                       t \in {u \in Opened(c.name) : Zone(u) = z /\ u \in c.from..to}}
      <3> SUFFICES ASSUME c.kind = "range" PROVE
             Here = {[opened |-> t, stamp |-> t] :
                       t \in {u \in Opened(c.name) : Zone(u) = z /\ u \in c.from..to}}
        OBVIOUS
      <3>1. Rates(c) = {t \in Opened(c.name) :
                          c.from + c.offset <= Stamp(t) /\ Stamp(t) <= to + c.offset}
        BY <1>4 DEF Rates
      <3>2. \A t \in Opened(c.name) : Zone(t) = z => (t \in Rates(c) <=> t \in c.from..to)
        BY <1>3, <1>5, <2>4, <2>5, <2>7, <3>1
      <3>3. ASSUME NEW d \in Here
            PROVE  d \in {[opened |-> t, stamp |-> t] :
                       t \in {u \in Opened(c.name) : Zone(u) = z /\ u \in c.from..to}}
        BY <2>6, <2>8, <3>2
      <3>4. ASSUME NEW t \in Opened(c.name), Zone(t) = z, t \in c.from..to
            PROVE  [opened |-> t, stamp |-> t] \in Here
        <4>1. t \in Rates(c)
          BY <3>2, <3>4
        <4>2. [opened |-> t, stamp |-> Stamp(t) - c.offset] \in value
          BY <1>6, <4>1
        <4>3. QED
          BY <2>7, <3>4, <4>2
      <3> HIDE DEF Here
      <3>5. QED
        BY <3>3, <3>4
    <2>10. \A d \in Here : d.stamp = d.opened
      BY <2>8
    <2>11. Here = {d \in answer'.value : Zone(d.opened) = Zone(answer'.at)}
      BY <1>7, <2>3
    <2>12. CASE c.kind = "candles"
      <3>1. FreshIsTrue(answer') =
               \A d \in {d \in answer'.value : Zone(d.opened) = Zone(answer'.at)} :
                   d.stamp = d.opened
        BY <1>7, <2>12 DEF FreshIsTrue
      <3> HIDE DEF Here
      <3>2. QED
        BY <2>10, <2>11, <3>1
    <2>13. CASE c.kind = "range"
      <3>1. FreshIsTrue(answer') =
              ({d \in answer'.value : Zone(d.opened) = Zone(answer'.at)} =
                 {[opened |-> t, stamp |-> t] :
                    t \in {u \in answer'.had : Zone(u) = Zone(answer'.at)
                                               /\ u \in answer'.from..answer'.to}})
        BY <1>7, <2>13 DEF FreshIsTrue
      <3> HIDE DEF Here
      <3>2. QED
        BY <1>7, <2>3, <2>9, <2>11, <2>13, <3>1
    <2>14. QED
      BY <1>3, <2>12, <2>13
  <1>10. QED
    BY <1>8, <1>9

\* Without a tick now_ms is the system's time, and nothing else is claimed.
LEMMA NoTickIsTrue ==
    ASSUME ClockInv, NEW s, ReadNoTick(s), answer'.kind \notin {"none", "error"}
    PROVE  NowIsNear(answer') /\ ~Fresh(answer')
  BY DEF ReadNoTick, NowIsNear, Fresh, ClockInv, Hour

\* Every step keeps the invariant.
LEMMA ClockStep == ClockInv /\ [Next]_vars => ClockInv'
  <1> SUFFICES ASSUME ClockInv, [Next]_vars PROVE ClockInv'
    OBVIOUS
  <1>1. CASE UNCHANGED vars
    <2>1. UNCHANGED <<setup, now, last, settings, terminal, resolved, offsets, calls>>
      BY <1>1 DEF vars
    <2>2. \A s \in Symbols : CallOK(calls[s])'
      BY <2>1, CallsKept DEF ClockInv
    <2>3. settings' \notin {Unloaded, Rejected} \/ terminal' # "none" => IsLoaded'
      BY <2>1, LoadedKept DEF ClockInv
    <2>4. QED
      BY <2>1, <2>2, <2>3 DEF ClockInv
  <1>2. CASE Pass \/ \E n \in setup.listed : Quote(n) \/ Lose(n)
    BY <1>2, ClockMarket
  <1>3. CASE LoadSettings \/ Connect \/ Close
    BY <1>3, ClockSettings
  <1>4. CallOK(Idle)
    BY DEF CallOK
  <1>5. ASSUME NEW s \in Symbols, NotFound(s) \/ ReadNoTick(s)
        PROVE  ClockInv'
    <2>1. /\ UNCHANGED <<setup, marketVars, terminal, offsets, settings, calls>>
          /\ (Remember(s) /\ terminal # "none") \/ UNCHANGED resolved
      BY <1>5 DEF NotFound, ReadNoTick, Ready
    <2>2. QED
      BY <1>4, <2>1, ClockCall
  <1>6. ASSUME NEW s \in Symbols, NEW kind \in {"now", "tick"}, ReadTick(s, kind)
        PROVE  ClockInv'
    <2>1. PICK n : n = EnsureSymbol(s)
      OBVIOUS
    <2>2. PICK c : c = [kind |-> kind, name |-> n, tick |-> Tick(n)]
      OBVIOUS
    <2>3. /\ UNCHANGED <<setup, marketVars, terminal, offsets, settings>>
          /\ Remember(s) /\ terminal # "none" /\ n # Unresolved /\ Tick(n) # NoTick
          /\ calls' = [calls EXCEPT ![s] = c]
      BY <1>6, <2>1, <2>2 DEF ReadTick, Ready
    <2>4. n \in NameSet
      BY <2>1, <2>3, EnsureSymbolType DEF ClockInv
    <2>5. CallOK(c)
      BY <2>2, <2>3, <2>4, OffsetType DEF CallOK, TimeCall
    <2>6. QED
      BY <2>3, <2>5, ClockCall
  <1>7. ASSUME NEW s \in Symbols, AnswerTime(s)
        PROVE  ClockInv'
    <2>1. PICK n : n = calls[s].name
      OBVIOUS
    <2>2. /\ UNCHANGED <<setup, marketVars, terminal, resolved>>
          /\ Measure(n) /\ calls' = [calls EXCEPT ![s] = Idle]
      BY <1>7, <2>1 DEF AnswerTime
    <2>3. n \in NameSet
      BY <1>7, <2>1 DEF AnswerTime, ClockInv, CallOK, TimeCall, CandleCall
    <2>4. QED
      BY <1>4, <2>2, <2>3, ClockCall
  <1>8. ASSUME NEW s \in Symbols, NEW kind \in {"candles", "range"},
               NEW r \in [from : Nat, to : Nat], ReadOffset(s, kind, r)
        PROVE  ClockInv'
    <2>1. PICK n : n = EnsureSymbol(s)
      OBVIOUS
    <2>2. PICK c : c = [kind |-> kind, name |-> n, used |-> Tick(n), at |-> now,
                        offset |-> OffsetOf(n), from |-> r.from, to |-> r.to]
      OBVIOUS
    <2>3. /\ UNCHANGED <<setup, marketVars, terminal>>
          /\ Remember(s) /\ terminal # "none" /\ n # Unresolved /\ Measure(n)
          /\ calls' = [calls EXCEPT ![s] = c]
      BY <1>8, <2>1, <2>2 DEF ReadOffset, Ready
    <2>4. n \in NameSet
      BY <2>1, <2>3, EnsureSymbolType DEF ClockInv
    <2>5. CallOK(c)
      <3>1. /\ Tick(n) \in Nat \cup {NoTick}
            /\ Tick(n) # NoTick => Tick(n) <= now
            /\ OffsetOf(n) \in Int
            /\ Tick(n) # NoTick => OffsetOf(n) = Round(Stamp(Tick(n)) - now)
        BY <2>4, OffsetType
      <3>2. c \in CandleCall
        BY <2>2, <2>4, <3>1 DEF CandleCall, ClockInv
      <3>3. OffsetIsTheTicks(c)
        BY <2>2, <3>1 DEF OffsetIsTheTicks
      <3>4. QED
        BY <3>2, <3>3 DEF CallOK
    <2>6. QED
      BY <2>3, <2>4, <2>5, ClockCall
  <1>9. ASSUME NEW s \in Symbols, AnswerCandles(s) \/ NoRates(s)
        PROVE  ClockInv'
    <2>1. /\ UNCHANGED <<setup, marketVars, terminal, resolved, offsets, settings>>
          /\ calls' = [calls EXCEPT ![s] = Idle]
      BY <1>9 DEF AnswerCandles, NoRates
    <2>2. QED
      BY <1>4, <2>1, ClockCall
  <1>10. setup.symbols \subseteq Symbols
    BY MarketAssumption DEF ClockInv
  <1>11. \A r \in Requests \cup {[from |-> 0, to |-> 0]} : r \in [from : Nat, to : Nat]
    BY MarketAssumption
  <1>12. QED
    BY <1>1, <1>2, <1>3, <1>5, <1>6, <1>7, <1>8, <1>9, <1>10, <1>11 DEF Next

\* An answer is true when it is given.
LEMMA AnswersAreTrue ==
    ClockInv /\ ClockTrue /\ [Next]_vars => ClockTrue'
  <1> SUFFICES ASSUME ClockInv, ClockTrue, [Next]_vars PROVE ClockTrue'
    OBVIOUS
  <1>1. setup.symbols \subseteq Symbols
    BY MarketAssumption DEF ClockInv
  <1>2. setup' = setup
    BY DEF Next, vars, Pass, LoadSettings, Connect, Close, Quote, Lose, NotFound,
           ReadNoTick, ReadTick, ReadOffset, AnswerTime, AnswerCandles, NoRates
  <1>3. \/ answer' = answer
        \/ answer' \in {NoAnswer, [kind |-> "error"]}
        \/ \E s \in Symbols : AnswerTime(s) \/ AnswerCandles(s) \/ ReadNoTick(s)
    BY <1>1 DEF Next, vars, Pass, LoadSettings, Connect, Close, Quote, Lose, NotFound,
                ReadTick, ReadOffset, NoRates
  <1> DEFINE True(a) == a.kind \notin {"none", "error"} =>
                          NowIsNear(a) /\ (Fresh(a) => FreshIsTrue(a))
  <1>4. True(answer')
    <2>1. CASE answer' = answer
      BY <2>1 DEF ClockTrue
    <2>2. CASE answer' \in {NoAnswer, [kind |-> "error"]}
      BY <2>2 DEF NoAnswer
    <2>3. ASSUME NEW s \in Symbols, AnswerTime(s) \/ AnswerCandles(s) \/ ReadNoTick(s)
          PROVE  True(answer')
      BY <2>3, TimeIsTrue, CandlesAreTrue, NoTickIsTrue
    <2>4. QED
      BY <1>3, <2>1, <2>2, <2>3
  <1>5. \A a : /\ Fresh(a)' <=> Fresh(a)
               /\ NowIsNear(a)' <=> NowIsNear(a)
               /\ FreshIsTrue(a)' <=> FreshIsTrue(a)
    BY <1>2 DEF Fresh, NowIsNear, FreshIsTrue, Zone
  <1>6. QED
    BY <1>4, <1>5 DEF ClockTrue

(***************************************************************************)
(* Whatever ticks come or fail to come between the two reads of a call,    *)
(* and whichever way the broker's clock changes: now_ms is at most half an *)
(* hour off, and what a fresh tick converts is the true time in UTC, down  *)
(* to exactly the candles a range asks for.                                *)
(***************************************************************************)
THEOREM ConvertedTimesAreTrue == Spec => []ClockTrue
  <1>1. Init => ClockInv /\ ClockTrue
    <2> SUFFICES ASSUME Init PROVE ClockInv /\ ClockTrue
      OBVIOUS
    <2>1. ClockTrue
      BY DEF Init, ClockTrue, NoAnswer
    <2>2. \A s \in Symbols : CallOK(calls[s])
      BY DEF Init, CallOK
    <2>3. QED
      BY <2>1, <2>2 DEF Init, ClockInv
  <1>2. QED
    BY <1>1, ClockStep, AnswersAreTrue, PTL DEF Spec

-----------------------------------------------------------------------------
(***************************************************************************)
(* The profiles                                                            *)
(***************************************************************************)

\* Entries give values to names.
IsEntry(f) == f = [n \in DOMAIN f |-> f[n]]

LEMMA OverNothing ==
    ASSUME NEW f, IsEntry(f)
    PROVE  Over(Nothing, f) = f /\ Over(f, Nothing) = f
  <1>1. DOMAIN Nothing = {}
    BY DEF Nothing
  <1>2. Over(Nothing, f) = [n \in DOMAIN f |-> f[n]]
    BY <1>1 DEF Over
  <1>3. Over(f, Nothing) = [n \in DOMAIN f |-> f[n]]
    BY <1>1 DEF Over
  <1>4. QED
    BY <1>2, <1>3 DEF IsEntry

LEMMA OverIsEntry ==
    ASSUME NEW f, NEW g
    PROVE  IsEntry(Over(f, g))
  BY DEF Over, IsEntry

LEMMA NothingIsEntry ==
    /\ IsEntry(Nothing)
    /\ \A f : IsEntry(f) /\ f # Nothing => DOMAIN f # {}
  BY DEF IsEntry, Nothing

\* Where one row spells a symbol, a table says what the row says.
LEMMA AtTheRow ==
    ASSUME NEW rows, NEW x, NEW k, NEW i \in DOMAIN rows, Strip[rows[i].sym] = x,
           \A j \in DOMAIN rows : Strip[rows[j].sym] = x => j = i
    PROVE  At(rows, <<x, k>>) = IF k \in DOMAIN rows[i].tfs THEN rows[i].tfs[k] ELSE Nothing
  <1> DEFINE In == {j \in DOMAIN rows : Strip[rows[j].sym] = x /\ k \in DOMAIN rows[j].tfs}
  <1>1. In = IF k \in DOMAIN rows[i].tfs THEN {i} ELSE {}
    OBVIOUS
  <1>2. At(rows, <<x, k>>)
          = IF In = {} THEN Nothing ELSE rows[CHOOSE j \in In : TRUE].tfs[k]
    BY DEF At
  <1> HIDE DEF In
  <1>3. QED
    BY <1>1, <1>2

LEMMA AtNoRow ==
    ASSUME NEW rows, NEW x, NEW k, \A j \in DOMAIN rows : Strip[rows[j].sym] # x
    PROVE  At(rows, <<x, k>>) = Nothing
  BY DEF At

\* The parsed table has the row without its empty entries.
LEMMA EntryAtTheRow ==
    ASSUME NEW rows, DOMAIN rows \subseteq Nat, NEW x, NEW k,
           NEW i \in DOMAIN rows, Strip[rows[i].sym] = x,
           \A j \in DOMAIN rows : Strip[rows[j].sym] = x => j = i
    PROVE  EntryAt(ParseTable(rows), <<x, k>>)
             = IF k \in DOMAIN rows[i].tfs THEN rows[i].tfs[k] ELSE Nothing
  <1> DEFINE Full == {j \in DOMAIN rows : Given(rows[j].tfs) # {}}
             Named(s) == {j \in Full : Strip[rows[j].sym] = s}
             Last(s) == CHOOSE j \in Named(s) : \A l \in Named(s) : l <= j
             row(s) == [l \in Given(rows[Last(s)].tfs) |-> rows[Last(s)].tfs[l]]
  <1>0. PICK table : table = ParseTable(rows)
    OBVIOUS
  <1>1. table = [s \in {Strip[rows[j].sym] : j \in Full} |-> row(s)]
    BY <1>0 DEF ParseTable
  <1>2. EntryAt(ParseTable(rows), <<x, k>>)
          = IF x \in DOMAIN table /\ k \in DOMAIN table[x] THEN table[x][k] ELSE Nothing
    BY <1>0 DEF EntryAt
  <1>3. CASE i \in Full
    <2>1. Named(x) = {i}
      BY <1>3
    <2>2. i <= i
      OBVIOUS
    <2>3. Last(x) = i
      BY <2>1, <2>2
    <2> HIDE DEF Last
    <2>4. row(x) = [l \in Given(rows[i].tfs) |-> rows[i].tfs[l]]
      BY <2>3
    <2> HIDE DEF row
    <2>5. x \in DOMAIN table
      BY <1>1, <1>3
    <2>6. table[x] = [l \in Given(rows[i].tfs) |-> rows[i].tfs[l]]
      BY <1>1, <2>4, <2>5
    <2>7. QED
      BY <1>2, <2>5, <2>6 DEF Given
  <1>4. CASE i \notin Full
    <2>1. x \notin DOMAIN table
      BY <1>1, <1>4
    <2>2. k \in DOMAIN rows[i].tfs => rows[i].tfs[k] = Nothing
      BY <1>4 DEF Given
    <2>3. QED
      BY <1>2, <2>1, <2>2
  <1>5. QED
    BY <1>3, <1>4

LEMMA EntryAtNoRow ==
    ASSUME NEW rows, NEW x, NEW k, \A j \in DOMAIN rows : Strip[rows[j].sym] # x
    PROVE  EntryAt(ParseTable(rows), <<x, k>>) = Nothing
  <1>1. x \notin DOMAIN ParseTable(rows)
    BY DEF ParseTable
  <1>2. QED
    BY <1>1 DEF EntryAt

\* The rows of two tables that are merged, by their places.
LEMMA MergedRows ==
    ASSUME NEW base, NEW over, IsTable(base), IsTable(over),
           NEW m, m = MergeTable(base, over)
    PROVE  /\ DOMAIN m \subseteq Nat /\ DOMAIN base \subseteq DOMAIN m
           /\ \A j, l \in DOMAIN m \ DOMAIN base : m[j].sym = m[l].sym => j = l
           /\ \A j \in DOMAIN m \ DOMAIN base :
                 \E i \in DOMAIN over : m[j] = over[i]
                                     /\ \A l \in DOMAIN base : base[l].sym # over[i].sym
           /\ \A i \in DOMAIN over :
                 \/ \E l \in DOMAIN base : base[l].sym = over[i].sym
                 \/ \E j \in DOMAIN m \ DOMAIN base : m[j] = over[i]
           /\ \A j \in DOMAIN base :
                 /\ m[j].sym = base[j].sym
                 /\ \A i \in DOMAIN over : over[i].sym = base[j].sym
                       => m[j].tfs = MergeTfs(base[j].tfs, over[i].tfs)
                 /\ (\A i \in DOMAIN over : over[i].sym # base[j].sym)
                       => m[j] = base[j]
  <1>1. PICK n \in Nat : n = Len(base) /\ DOMAIN base = 1..n
    BY DEF IsTable
  <1>2. DOMAIN over \subseteq Nat \ {0}
    BY DEF IsTable
  <1> DEFINE New == {i \in DOMAIN over : \A j \in DOMAIN base : base[j].sym # over[i].sym}
             Same(row) == {i \in DOMAIN over : over[i].sym = row.sym}
  <1>3. m = [j \in DOMAIN base \cup {n + i : i \in New} |->
            CASE j \notin DOMAIN base -> over[j - n]
              [] j \in DOMAIN base /\ Same(base[j]) = {} -> base[j]
              [] OTHER -> [base[j] EXCEPT !.tfs =
                    MergeTfs(@, over[CHOOSE i \in Same(base[j]) : TRUE].tfs)]]
    BY <1>1 DEF MergeTable
  <1>4. DOMAIN m = DOMAIN base \cup {n + i : i \in New}
    BY <1>3
  <1>5. DOMAIN m \subseteq Nat
    BY <1>1, <1>2, <1>4
  <1>6. ASSUME NEW j \in DOMAIN m \ DOMAIN base
        PROVE  \E i \in New : j = n + i /\ m[j] = over[i]
    <2>1. PICK i \in New : j = n + i
      BY <1>4
    <2>2. j - n = i
      BY <1>1, <1>2, <2>1
    <2>3. QED
      BY <1>3, <2>1, <2>2
  <1>7. ASSUME NEW i \in New
        PROVE  \E j \in DOMAIN m \ DOMAIN base : m[j] = over[i]
    <2>1. n + i \in DOMAIN m /\ n + i \notin DOMAIN base /\ (n + i) - n = i
      BY <1>1, <1>2, <1>4
    <2>2. m[n + i] = over[i]
      BY <1>3, <2>1
    <2>3. QED
      BY <2>1, <2>2
  <1>8. ASSUME NEW j \in DOMAIN base
        PROVE  /\ m[j].sym = base[j].sym
               /\ \A i \in DOMAIN over : over[i].sym = base[j].sym
                     => m[j].tfs = MergeTfs(base[j].tfs, over[i].tfs)
               /\ (\A i \in DOMAIN over : over[i].sym # base[j].sym)
                     => m[j] = base[j]
    BY <1>3 DEF IsTable
  <1>9. ASSUME NEW j \in DOMAIN m \ DOMAIN base, NEW l \in DOMAIN m \ DOMAIN base,
               m[j].sym = m[l].sym
        PROVE  j = l
    BY <1>6, <1>9 DEF IsTable
  <1>10. QED
    BY <1>4, <1>5, <1>6, <1>7, <1>8, <1>9

(***************************************************************************)
(* What the parsed table has at a place is what the documents say there,   *)
(* whichever of them has a row for the symbol.                             *)
(***************************************************************************)
LEMMA EntryIsSaid ==
    ASSUME NEW base, NEW over, IsTable(base), IsTable(over),
           \A i, j \in DOMAIN base :
               Strip[base[i].sym] = Strip[base[j].sym] => base[i].sym = base[j].sym,
           \A i, j \in DOMAIN over :
               Strip[over[i].sym] = Strip[over[j].sym] => over[i].sym = over[j].sym,
           \A i \in DOMAIN base, j \in DOMAIN over :
               Strip[base[i].sym] = Strip[over[j].sym] => base[i].sym = over[j].sym,
           NEW x, NEW k
    PROVE  EntryAt(ParseTable(MergeTable(base, over)), <<x, k>>)
             = Over(At(over, <<x, k>>), At(base, <<x, k>>))
  <1>1. PICK m : m = MergeTable(base, over)
    OBVIOUS
  <1>2. /\ DOMAIN m \subseteq Nat /\ DOMAIN base \subseteq DOMAIN m
        /\ \A j, l \in DOMAIN m \ DOMAIN base : m[j].sym = m[l].sym => j = l
        /\ \A j \in DOMAIN m \ DOMAIN base :
              \E i \in DOMAIN over : m[j] = over[i]
                                  /\ \A l \in DOMAIN base : base[l].sym # over[i].sym
        /\ \A i \in DOMAIN over :
              \/ \E l \in DOMAIN base : base[l].sym = over[i].sym
              \/ \E j \in DOMAIN m \ DOMAIN base : m[j] = over[i]
        /\ \A j \in DOMAIN base :
              /\ m[j].sym = base[j].sym
              /\ \A i \in DOMAIN over : over[i].sym = base[j].sym
                    => m[j].tfs = MergeTfs(base[j].tfs, over[i].tfs)
              /\ (\A i \in DOMAIN over : over[i].sym # base[j].sym)
                    => m[j] = base[j]
    BY <1>1, MergedRows
  <1>3. /\ \A i, j \in DOMAIN base : base[i].sym = base[j].sym => i = j
        /\ \A i, j \in DOMAIN over : over[i].sym = over[j].sym => i = j
    BY DEF IsTable
  <1>4. /\ \A i \in DOMAIN base : \A l \in DOMAIN base[i].tfs : IsEntry(base[i].tfs[l])
        /\ \A i \in DOMAIN over : \A l \in DOMAIN over[i].tfs : IsEntry(over[i].tfs[l])
    BY DEF IsTable, IsEntry
  <1>5. ASSUME NEW i \in DOMAIN base, Strip[base[i].sym] = x
        PROVE  EntryAt(ParseTable(m), <<x, k>>)
                 = Over(At(over, <<x, k>>), At(base, <<x, k>>))
    <2>1. At(base, <<x, k>>)
            = IF k \in DOMAIN base[i].tfs THEN base[i].tfs[k] ELSE Nothing
      BY <1>3, <1>5, AtTheRow
    <2>2. /\ Strip[m[i].sym] = x
          /\ \A j \in DOMAIN m : Strip[m[j].sym] = x => j = i
      BY <1>2, <1>3, <1>5
    <2>3. EntryAt(ParseTable(m), <<x, k>>)
            = IF k \in DOMAIN m[i].tfs THEN m[i].tfs[k] ELSE Nothing
      BY <1>2, <2>2, EntryAtTheRow
    <2>4. ASSUME NEW j \in DOMAIN over, over[j].sym = base[i].sym
          PROVE  EntryAt(ParseTable(m), <<x, k>>)
                   = Over(At(over, <<x, k>>), At(base, <<x, k>>))
      <3>1. At(over, <<x, k>>)
              = IF k \in DOMAIN over[j].tfs THEN over[j].tfs[k] ELSE Nothing
        BY <1>3, <1>5, <2>4, AtTheRow
      <3>2. m[i].tfs = MergeTfs(base[i].tfs, over[j].tfs)
        BY <1>2, <2>4
      <3>3. DOMAIN m[i].tfs = DOMAIN base[i].tfs \cup DOMAIN over[j].tfs
        BY <3>2 DEF MergeTfs
      <3>4. CASE k \notin DOMAIN over[j].tfs /\ k \in DOMAIN base[i].tfs
        <4>1. m[i].tfs[k] = base[i].tfs[k]
          BY <3>2, <3>4 DEF MergeTfs
        <4>2. IsEntry(base[i].tfs[k])
          BY <1>4, <3>4
        <4>3. QED
          BY <2>1, <2>3, <3>1, <3>3, <3>4, <4>1, <4>2, OverNothing
      <3>5. CASE k \in DOMAIN over[j].tfs /\ k \notin DOMAIN base[i].tfs
        <4>1. m[i].tfs[k] = over[j].tfs[k]
          BY <3>2, <3>5 DEF MergeTfs
        <4>2. IsEntry(over[j].tfs[k])
          BY <1>4, <3>5
        <4>3. QED
          BY <2>1, <2>3, <3>1, <3>3, <3>5, <4>1, <4>2, OverNothing
      <3>6. CASE k \in DOMAIN over[j].tfs /\ k \in DOMAIN base[i].tfs
        <4>1. m[i].tfs[k] = Over(over[j].tfs[k], base[i].tfs[k])
          BY <3>2, <3>6 DEF MergeTfs
        <4>2. QED
          BY <2>1, <2>3, <3>1, <3>3, <3>6, <4>1
      <3>7. CASE k \notin DOMAIN over[j].tfs /\ k \notin DOMAIN base[i].tfs
        BY <2>1, <2>3, <3>1, <3>3, <3>7, OverNothing, NothingIsEntry
      <3>8. QED
        BY <3>4, <3>5, <3>6, <3>7
    <2>5. ASSUME \A j \in DOMAIN over : over[j].sym # base[i].sym
          PROVE  EntryAt(ParseTable(m), <<x, k>>)
                   = Over(At(over, <<x, k>>), At(base, <<x, k>>))
      <3>1. At(over, <<x, k>>) = Nothing
        BY <1>5, <2>5, AtNoRow
      <3>2. m[i] = base[i]
        BY <1>2, <2>5
      <3>3. IsEntry(At(base, <<x, k>>))
        BY <1>4, <2>1, NothingIsEntry
      <3>4. QED
        BY <2>1, <2>3, <3>1, <3>2, <3>3, OverNothing
    <2>6. QED
      BY <2>4, <2>5
  <1>6. ASSUME \A i \in DOMAIN base : Strip[base[i].sym] # x
        PROVE  EntryAt(ParseTable(m), <<x, k>>)
                 = Over(At(over, <<x, k>>), At(base, <<x, k>>))
    <2>1. At(base, <<x, k>>) = Nothing
      BY <1>6, AtNoRow
    <2>2. ASSUME NEW i \in DOMAIN over, Strip[over[i].sym] = x
          PROVE  EntryAt(ParseTable(m), <<x, k>>)
                   = Over(At(over, <<x, k>>), At(base, <<x, k>>))
      <3>1. At(over, <<x, k>>)
              = IF k \in DOMAIN over[i].tfs THEN over[i].tfs[k] ELSE Nothing
        BY <1>3, <2>2, AtTheRow
      <3>2. PICK j \in DOMAIN m \ DOMAIN base : m[j] = over[i]
        BY <1>2, <1>6, <2>2
      <3>3. \A l \in DOMAIN m : Strip[m[l].sym] = x => l = j
        BY <1>2, <1>3, <1>6, <2>2, <3>2
      <3>4. EntryAt(ParseTable(m), <<x, k>>)
              = IF k \in DOMAIN m[j].tfs THEN m[j].tfs[k] ELSE Nothing
        BY <1>2, <2>2, <3>2, <3>3, EntryAtTheRow
      <3>5. IsEntry(At(over, <<x, k>>))
        BY <1>4, <3>1, NothingIsEntry
      <3>6. QED
        BY <2>1, <3>1, <3>2, <3>4, <3>5, OverNothing
    <2>3. ASSUME \A i \in DOMAIN over : Strip[over[i].sym] # x
          PROVE  EntryAt(ParseTable(m), <<x, k>>)
                   = Over(At(over, <<x, k>>), At(base, <<x, k>>))
      <3>1. At(over, <<x, k>>) = Nothing
        BY <2>3, AtNoRow
      <3>2. \A l \in DOMAIN m : Strip[m[l].sym] # x
        BY <1>2, <1>6, <2>3
      <3>3. EntryAt(ParseTable(m), <<x, k>>) = Nothing
        BY <3>2, EntryAtNoRow
      <3>4. QED
        BY <2>1, <3>1, <3>3, OverNothing, NothingIsEntry
    <2>4. QED
      BY <2>2, <2>3
  <1>7. QED
    BY <1>1, <1>5, <1>6

\* The rows of the two documents spell a symbol in one way.
LEMMA OneSpelling ==
    ASSUME SpelledOnce, NEW table \in {"rrr", "overrides"},
           NEW base, NEW over, base = setup.base[table], over = setup.over[table]
    PROVE  /\ \A i, j \in DOMAIN base :
                 Strip[base[i].sym] = Strip[base[j].sym] => base[i].sym = base[j].sym
           /\ \A i, j \in DOMAIN over :
                 Strip[over[i].sym] = Strip[over[j].sym] => over[i].sym = over[j].sym
           /\ \A i \in DOMAIN base, j \in DOMAIN over :
                 Strip[base[i].sym] = Strip[over[j].sym] => base[i].sym = over[j].sym
  <1> DEFINE Syms(rows) == {rows[i].sym : i \in DOMAIN rows}
  <1>1. \A a, b \in Syms(base) \cup Syms(over) : Strip[a] = Strip[b] => a = b
    BY DEF SpelledOnce
  <1>2. QED
    BY <1>1

Around(symbol, pair) == {p \in {symbol, Star} \X {pair, Star} : p[2] # NoPair}

Proper(symbol, pair) == symbol # Star /\ pair # Star /\ NoPair # Star

Heaviest(hits) == CHOOSE p \in hits : \A q \in hits : Weight(q) <= Weight(p)

\* The first candidate that counts is the most specific place that does.
LEMMA FirstIsHeaviest ==
    ASSUME NEW symbol, NEW pair, Proper(symbol, pair),
           NEW hits \in SUBSET Around(symbol, pair),
           NEW places, places = Candidates(symbol, pair),
           NEW found \in SUBSET DOMAIN places,
           \A i \in DOMAIN places : i \in found <=> places[i] \in hits
    PROVE  /\ found = {} <=> hits = {}
           /\ hits # {} => places[Min(found)] = Heaviest(hits)
  <1>1. \A p \in hits : \/ p = <<symbol, pair>> \/ p = <<symbol, Star>>
                        \/ p = <<Star, pair>> \/ p = <<Star, Star>>
    BY DEF Around
  <1>0. \A p \in hits : p[2] # NoPair
    BY DEF Around
  <1>2. /\ Weight(<<symbol, Star>>) = 2 /\ Weight(<<Star, Star>>) = 0
        /\ Weight(<<symbol, pair>>) = 3 /\ Weight(<<Star, pair>>) = 1
    BY DEF Weight, Proper
  <1>3. found \in SUBSET Nat
    BY DEF Candidates, Proper
  <1>4. found = {} <=> hits = {}
    <2>1. CASE pair = NoPair
      BY <1>0, <1>1, <2>1 DEF Candidates, Proper
    <2>2. CASE pair # NoPair
      BY <1>1, <2>2 DEF Candidates, Proper
    <2>3. QED
      BY <2>1, <2>2
  <1>5. ASSUME hits # {}
        PROVE  /\ places[Min(found)] \in hits
               /\ \A q \in hits : q = places[Min(found)]
                                  \/ Weight(q) < Weight(places[Min(found)])
    <2>1. PICK m : m = Min(found)
      OBVIOUS
    <2>2. m \in found /\ \A i \in found : m <= i
      BY <1>3, <1>4, <1>5, <2>1, MinIsLeast
    <2>3. CASE pair = NoPair
      <3>1. DOMAIN places = {1, 2} /\ places[1] = <<symbol, Star>> /\ places[2] = <<Star, Star>>
        BY <2>3 DEF Candidates, Proper
      <3>2. \A p \in hits : p = places[1] \/ p = places[2]
        BY <1>0, <1>1, <2>3, <3>1
      <3>3. QED
        BY <1>2, <2>1, <2>2, <3>1, <3>2
    <2>4. CASE pair # NoPair
      <3>1. /\ DOMAIN places = {1, 2, 3, 4}
            /\ places[1] = <<symbol, pair>> /\ places[2] = <<symbol, Star>>
            /\ places[3] = <<Star, pair>> /\ places[4] = <<Star, Star>>
        BY <2>4 DEF Candidates, Proper
      <3>2. \A p \in hits : p \in {places[1], places[2], places[3], places[4]}
        BY <1>1, <3>1
      <3>3. QED
        BY <1>2, <2>1, <2>2, <3>1, <3>2
    <2>5. QED
      BY <2>3, <2>4
  <1>6. ASSUME hits # {}
        PROVE  places[Min(found)] = Heaviest(hits)
    <2>1. PICK first : first = places[Min(found)]
      OBVIOUS
    <2>2. \A p \in hits : Weight(p) \in Int
      BY <1>1, <1>2
    <2>3. /\ first \in hits /\ \A q \in hits : Weight(q) <= Weight(first)
          /\ \A p \in hits : (\A q \in hits : Weight(q) <= Weight(p)) => p = first
      BY <1>5, <1>6, <2>1, <2>2
    <2>4. QED
      BY <2>1, <2>3 DEF Heaviest
  <1>7. QED
    BY <1>4, <1>6

\* Whatever the parsed table has, some row of the merged documents has.
LEMMA EntryIsOfARow ==
    ASSUME NEW base, NEW over, IsTable(base), IsTable(over),
           \A i, j \in DOMAIN base :
               Strip[base[i].sym] = Strip[base[j].sym] => base[i].sym = base[j].sym,
           \A i, j \in DOMAIN over :
               Strip[over[i].sym] = Strip[over[j].sym] => over[i].sym = over[j].sym,
           \A i \in DOMAIN base, j \in DOMAIN over :
               Strip[base[i].sym] = Strip[over[j].sym] => base[i].sym = over[j].sym,
           NEW m, m = MergeTable(base, over), NEW x, NEW k
    PROVE  \/ EntryAt(ParseTable(m), <<x, k>>) = Nothing
           \/ \E i \in DOMAIN m : /\ k \in DOMAIN m[i].tfs
                                  /\ EntryAt(ParseTable(m), <<x, k>>) = m[i].tfs[k]
  <1>1. /\ DOMAIN m \subseteq Nat /\ DOMAIN base \subseteq DOMAIN m
        /\ \A j, l \in DOMAIN m \ DOMAIN base : m[j].sym = m[l].sym => j = l
        /\ \A j \in DOMAIN m \ DOMAIN base :
              \E i \in DOMAIN over : m[j] = over[i]
                                  /\ \A l \in DOMAIN base : base[l].sym # over[i].sym
        /\ \A j \in DOMAIN base : m[j].sym = base[j].sym
    BY MergedRows
  <1>2. \A i, j \in DOMAIN base : base[i].sym = base[j].sym => i = j
    BY DEF IsTable
  <1>3. ASSUME NEW i \in DOMAIN m, NEW j \in DOMAIN m, Strip[m[i].sym] = Strip[m[j].sym]
        PROVE  i = j
    <2>1. CASE i \in DOMAIN base /\ j \in DOMAIN base
      BY <1>1, <1>2, <1>3, <2>1
    <2>2. CASE i \in DOMAIN base /\ j \notin DOMAIN base
      BY <1>1, <1>3, <2>2
    <2>3. CASE i \notin DOMAIN base /\ j \in DOMAIN base
      BY <1>1, <1>3, <2>3
    <2>4. CASE i \notin DOMAIN base /\ j \notin DOMAIN base
      BY <1>1, <1>3, <2>4
    <2>5. QED
      BY <2>1, <2>2, <2>3, <2>4
  <1>4. ASSUME NEW i \in DOMAIN m, Strip[m[i].sym] = x
        PROVE  EntryAt(ParseTable(m), <<x, k>>)
                 = IF k \in DOMAIN m[i].tfs THEN m[i].tfs[k] ELSE Nothing
    BY <1>1, <1>3, <1>4, EntryAtTheRow
  <1>5. (\A i \in DOMAIN m : Strip[m[i].sym] # x)
          => EntryAt(ParseTable(m), <<x, k>>) = Nothing
    BY EntryAtNoRow
  <1>6. QED
    BY <1>4, <1>5

SaidAround(T, table, symbol, pair) ==
    \A p \in {symbol, Star} \X {pair, Star} : EntryAt(T, p) = Says(table, p)

Giving(names, table, symbol, pair) ==
    {p \in {symbol, Star} \X {pair, Star} :
        p[2] # NoPair /\ names \cap DOMAIN Says(table, p) # {}}

(***************************************************************************)
(* The entry the registry finds first is the one of the most specific      *)
(* place at which the documents give one of the names.                     *)
(***************************************************************************)
LEMMA FirstIsMostSpecific ==
    ASSUME NEW T, NEW table, NEW symbol, NEW pair, Proper(symbol, pair),
           SaidAround(T, table, symbol, pair), NEW names,
           NEW hits, hits = Giving(names, table, symbol, pair)
    PROVE  FirstEntry(T, symbol, pair, names)
             = IF hits = {} THEN Nothing
               ELSE Says(table, Heaviest(hits))
  <1>1. PICK places : places = Candidates(symbol, pair)
    OBVIOUS
  <1>2. PICK found : found = {i \in DOMAIN places :
                                names \cap DOMAIN EntryAt(T, places[i]) # {}}
    OBVIOUS
  <1>3. FirstEntry(T, symbol, pair, names)
          = IF found = {} THEN Nothing ELSE EntryAt(T, places[Min(found)])
    BY <1>1, <1>2 DEF FirstEntry
  <1>4. \A i \in DOMAIN places :
           places[i] \in {symbol, Star} \X {pair, Star} /\ places[i][2] # NoPair
    <2>1. CASE pair = NoPair
      BY <1>1, <2>1 DEF Candidates, Proper
    <2>2. CASE pair # NoPair
      BY <1>1, <2>2 DEF Candidates, Proper
    <2>3. QED
      BY <2>1, <2>2
  <1>5. /\ found \in SUBSET DOMAIN places
        /\ \A i \in DOMAIN places : i \in found <=> places[i] \in hits
    BY <1>2, <1>4 DEF SaidAround, Giving
  <1>6. /\ found = {} <=> hits = {}
        /\ hits # {} => places[Min(found)] = Heaviest(hits)
    <2>1. hits \in SUBSET Around(symbol, pair)
      BY DEF Around, Giving
    <2>2. Proper(symbol, pair)
      OBVIOUS
    <2>3. QED
      BY ONLY <1>1, <1>5, <2>1, <2>2, FirstIsHeaviest
  <1>7. found # {} => Min(found) \in DOMAIN places
    <2>1. found \in SUBSET Nat
      BY <1>1, <1>2 DEF Candidates
    <2>2. found # {} => Min(found) \in found
      BY <2>1, MinIsLeast
    <2>3. QED
      BY <1>2, <2>2
  <1>8. found # {} => EntryAt(T, places[Min(found)]) = Says(table, places[Min(found)])
    BY <1>4, <1>7 DEF SaidAround
  <1>9. QED
    BY <1>3, <1>6, <1>8

\* What the settings hold once they are loaded.
LEMMA LoadedSettings ==
    ASSUME IsLoaded, NEW doc, doc = DeepMerge(setup.base, setup.over)
    PROVE  /\ settings.symbol_rr_filter = ParseTable(MergeTable(setup.base.rrr, setup.over.rrr))
           /\ settings.trade_management_tf_overrides
                = ParseTable(MergeTable(setup.base.overrides, setup.over.overrides))
           /\ settings.tp1_trigger_pct = Single(doc, "tp1_trigger_pct")
           /\ settings.tp1_close_pct = Single(doc, "tp1_close_pct")
           /\ settings.tp1_trigger_pct \in 1..99
           /\ Supported(MergeTable(setup.base.overrides, setup.over.overrides))
           /\ LET filter == settings.symbol_rr_filter
              IN \A sym \in DOMAIN filter : \A k \in DOMAIN filter[sym] :
                   "min_rr" \in DOMAIN filter[sym][k] => filter[sym][k]["min_rr"] > 0
  <1>1. PICK s : s = Build(doc, setup.creds)
    OBVIOUS
  <1>2. Loaded = s /\ Supported(doc.overrides) /\ Valid(s)
    BY <1>1 DEF IsLoaded, Loaded, Load
  <1>3. /\ s.symbol_rr_filter = ParseTable(doc.rrr)
        /\ s.trade_management_tf_overrides = ParseTable(doc.overrides)
        /\ s.tp1_trigger_pct = Single(doc, "tp1_trigger_pct")
        /\ s.tp1_close_pct = Single(doc, "tp1_close_pct")
        /\ {"symbol_rr_filter", "trade_management_tf_overrides", "tp1_trigger_pct",
            "tp1_close_pct"} \subseteq DOMAIN s
    BY <1>1 DEF Build
  <1>4. /\ settings.symbol_rr_filter = s.symbol_rr_filter
        /\ settings.trade_management_tf_overrides = s.trade_management_tf_overrides
        /\ settings.tp1_trigger_pct = s.tp1_trigger_pct
        /\ settings.tp1_close_pct = s.tp1_close_pct
    BY <1>2, <1>3 DEF IsLoaded
  <1>5. /\ doc.rrr = MergeTable(setup.base.rrr, setup.over.rrr)
        /\ doc.overrides = MergeTable(setup.base.overrides, setup.over.overrides)
    BY DEF DeepMerge
  <1>6. s.tp1_trigger_pct \in 1..99
    BY <1>2 DEF Valid
  <1>7. \A sym \in DOMAIN s.symbol_rr_filter : \A k \in DOMAIN s.symbol_rr_filter[sym] :
           "min_rr" \in DOMAIN s.symbol_rr_filter[sym][k]
             => s.symbol_rr_filter[sym][k]["min_rr"] > 0
    BY <1>2 DEF Valid
  <1>8. QED
    BY <1>2, <1>3, <1>4, <1>5, <1>6, <1>7

\* What the registry finds is an entry of the table, and gives one of the names.
LEMMA FoundIsThere ==
    ASSUME NEW T, NEW symbol, NEW pair, NEW names,
           FirstEntry(T, symbol, pair, names) # Nothing
    PROVE  \E p \in {symbol, Star} \X {pair, Star} :
              /\ p[1] \in DOMAIN T /\ p[2] \in DOMAIN T[p[1]]
              /\ FirstEntry(T, symbol, pair, names) = EntryAt(T, p)
              /\ FirstEntry(T, symbol, pair, names) = T[p[1]][p[2]]
              /\ names \cap DOMAIN T[p[1]][p[2]] # {}
  <1>1. DOMAIN Nothing = {}
    BY DEF Nothing
  <1>2. PICK places : places = Candidates(symbol, pair)
    OBVIOUS
  <1>3. PICK found : found = {i \in DOMAIN places :
                                names \cap DOMAIN EntryAt(T, places[i]) # {}}
    OBVIOUS
  <1>4. FirstEntry(T, symbol, pair, names)
          = IF found = {} THEN Nothing ELSE EntryAt(T, places[Min(found)])
    BY <1>2, <1>3 DEF FirstEntry
  <1>5. found \in SUBSET Nat
    BY <1>2, <1>3 DEF Candidates
  <1>6. found # {} => Min(found) \in found
    BY <1>5, MinIsLeast
  <1>7. \A i \in DOMAIN places : places[i] \in {symbol, Star} \X {pair, Star}
    BY <1>2 DEF Candidates
  <1>8. PICK p \in {symbol, Star} \X {pair, Star} :
           /\ FirstEntry(T, symbol, pair, names) = EntryAt(T, p)
           /\ names \cap DOMAIN EntryAt(T, p) # {}
    BY <1>3, <1>4, <1>6, <1>7
  <1>9. p[1] \in DOMAIN T /\ p[2] \in DOMAIN T[p[1]] /\ EntryAt(T, p) = T[p[1]][p[2]]
    BY <1>1, <1>8 DEF EntryAt
  <1>10. QED
    BY <1>8, <1>9

\* The merged and parsed tables say what the documents say.
LEMMA TablesAreSaid ==
    ASSUME setup \in Setups, SpelledOnce, NEW table \in {"rrr", "overrides"},
           NEW m, m = MergeTable(setup.base[table], setup.over[table]),
           NEW T, T = ParseTable(m), NEW x, NEW k
    PROVE  /\ EntryAt(T, <<x, k>>) = Says(table, <<x, k>>)
           /\ IsEntry(Says(table, <<x, k>>))
           /\ \/ Says(table, <<x, k>>) = Nothing
              \/ \E i \in DOMAIN m : /\ k \in DOMAIN m[i].tfs
                                     /\ Says(table, <<x, k>>) = m[i].tfs[k]
  <1>1. PICK base, over : base = setup.base[table] /\ over = setup.over[table]
    OBVIOUS
  <1>2. IsTable(base) /\ IsTable(over)
    <2>1. CASE table = "rrr"
      BY <1>1, <2>1, MarketAssumption
    <2>2. CASE table = "overrides"
      BY <1>1, <2>2, MarketAssumption
    <2>3. QED
      BY <2>1, <2>2
  <1>3. /\ \A i, j \in DOMAIN base :
              Strip[base[i].sym] = Strip[base[j].sym] => base[i].sym = base[j].sym
        /\ \A i, j \in DOMAIN over :
              Strip[over[i].sym] = Strip[over[j].sym] => over[i].sym = over[j].sym
        /\ \A i \in DOMAIN base, j \in DOMAIN over :
              Strip[base[i].sym] = Strip[over[j].sym] => base[i].sym = over[j].sym
    BY <1>1, OneSpelling
  <1>4. m = MergeTable(base, over)
    BY <1>1
  <1>5. Says(table, <<x, k>>) = Over(At(over, <<x, k>>), At(base, <<x, k>>))
    BY <1>1 DEF Says
  <1>6. EntryAt(T, <<x, k>>) = Says(table, <<x, k>>)
    BY <1>2, <1>3, <1>4, <1>5, EntryIsSaid
  <1>7. IsEntry(Says(table, <<x, k>>))
    BY <1>5, OverIsEntry
  <1>8. \/ EntryAt(ParseTable(m), <<x, k>>) = Nothing
        \/ \E i \in DOMAIN m : /\ k \in DOMAIN m[i].tfs
                               /\ EntryAt(ParseTable(m), <<x, k>>) = m[i].tfs[k]
    BY <1>2, <1>3, <1>4, EntryIsOfARow
  <1>9. QED
    BY <1>6, <1>7, <1>8

\* A bound of the ratio comes from the most specific place that gives it.
LEMMA BoundIsFound ==
    ASSUME setup \in Setups, SpelledOnce,
           NEW T, T = ParseTable(MergeTable(setup.base.rrr, setup.over.rrr)),
           NEW symbol, NEW pair, Proper(symbol, pair), NEW name
    PROVE  FirstEntry(T, symbol, pair, {name})
             = SaidBound(name, symbol, pair)
  <1>1. \A p \in {symbol, Star} \X {pair, Star} : EntryAt(T, p) = Says("rrr", p)
    BY TablesAreSaid
  <1>2. PICK hits : hits = Giving({name}, "rrr", symbol, pair)
    OBVIOUS
  <1> SaidAround(T, "rrr", symbol, pair)
    BY <1>1 DEF SaidAround
  <1>3. FirstEntry(T, symbol, pair, {name})
          = IF hits = {} THEN Nothing ELSE Says("rrr", Heaviest(hits))
    BY <1>2, FirstIsMostSpecific
  <1>4. hits = {p \in {symbol, Star} \X {pair, Star} :
                  p[2] # NoPair /\ name \in DOMAIN Says("rrr", p)}
    BY <1>2 DEF Giving
  <1>5. SaidBound(name, symbol, pair)
          = IF hits = {} THEN Nothing ELSE Says("rrr", Heaviest(hits))
    BY <1>4 DEF SaidBound, MostSpecific, Heaviest
  <1>6. QED
    BY <1>3, <1>5

\* The management of a trade is the most specific entry there is.
LEMMA ManagementIsFound ==
    ASSUME setup \in Setups, SpelledOnce,
           NEW m, m = MergeTable(setup.base.overrides, setup.over.overrides), Supported(m),
           NEW T, T = ParseTable(m),
           NEW symbol, NEW pair, Proper(symbol, pair), pair # NoPair
    PROVE  /\ FirstEntry(T, symbol, pair, Managed) = SaidManagement(symbol, pair)
           /\ DOMAIN FirstEntry(T, symbol, pair, Managed) \subseteq Managed
  <1>1. \A p \in {symbol, Star} \X {pair, Star} :
           /\ EntryAt(T, p) = Says("overrides", p)
           /\ IsEntry(Says("overrides", p))
           /\ \/ Says("overrides", p) = Nothing
              \/ \E i \in DOMAIN m : /\ p[2] \in DOMAIN m[i].tfs
                                     /\ Says("overrides", p) = m[i].tfs[p[2]]
    BY TablesAreSaid
  <1>2. \A p \in {symbol, Star} \X {pair, Star} :
           /\ DOMAIN Says("overrides", p) \subseteq Managed
           /\ Says("overrides", p) # Nothing <=> Managed \cap DOMAIN Says("overrides", p) # {}
    <2>1. DOMAIN Nothing = {}
      BY DEF Nothing
    <2>2. QED
      BY <1>1, <2>1, NothingIsEntry DEF Supported
  <1>3. PICK hits : hits = Giving(Managed, "overrides", symbol, pair)
    OBVIOUS
  <1> SaidAround(T, "overrides", symbol, pair)
    BY <1>1 DEF SaidAround
  <1>4. FirstEntry(T, symbol, pair, Managed)
          = IF hits = {} THEN Nothing ELSE Says("overrides", Heaviest(hits))
    BY <1>3, FirstIsMostSpecific
  <1>5. hits = {p \in {symbol, Star} \X {pair, Star} :
                  p[2] # NoPair /\ Says("overrides", p) # Nothing}
    BY <1>2, <1>3 DEF Giving
  <1>6. SaidManagement(symbol, pair)
          = IF hits = {} THEN Nothing ELSE Says("overrides", Heaviest(hits))
    BY <1>5 DEF SaidManagement, MostSpecific, Heaviest
  <1>7. DOMAIN FirstEntry(T, symbol, pair, Managed) \subseteq Managed
    <2>1. DOMAIN Nothing = {}
      BY DEF Nothing
    <2>2. QED
      BY <1>1, <1>2, <2>1, FoundIsThere
  <1>8. QED
    BY <1>4, <1>6, <1>7

-----------------------------------------------------------------------------
(***************************************************************************)
(* The profile of a symbol                                                 *)
(***************************************************************************)
\* A profile's fields, by what the registry finds in the two tables.
LEMMA ProfileFields ==
    ASSUME NEW S, NEW s, NEW pair, NEW symbol, symbol = Normalize(s),
           NEW P, P = Get(S, s, pair),
           NEW TM, TM = TradeManagement(S, symbol, pair)
    PROVE  /\ LET e == FirstEntry(S.symbol_rr_filter, symbol, pair, {"min_rr"})
              IN e # Nothing => P.min_rr = e["min_rr"]
           /\ LET e == FirstEntry(S.symbol_rr_filter, symbol, pair, {"max_rr"})
              IN e # Nothing => P.max_rr = e["max_rr"]
           /\ P.tp1_trigger_pct = IF "tp1_trigger_pct" \in DOMAIN TM
                                  THEN TM["tp1_trigger_pct"] ELSE S.tp1_trigger_pct
           /\ P.tp1_close_pct = IF "tp1_close_pct" \in DOMAIN TM
                                THEN TM["tp1_close_pct"] ELSE S.tp1_close_pct
           /\ "move_sl_to_be_on_tp1" \in DOMAIN TM
                => P.move_sl_to_be_on_tp1 = TM["move_sl_to_be_on_tp1"]
  <1>1. PICK managed : managed = Over(TM, [name \in Managed |-> S[name]])
    OBVIOUS
  <1>2. \A name \in Managed : managed[name] = IF name \in DOMAIN TM THEN TM[name] ELSE S[name]
    BY <1>1 DEF Over
  <1>3. /\ P.tp1_trigger_pct = managed["tp1_trigger_pct"]
        /\ P.tp1_close_pct = managed["tp1_close_pct"]
        /\ P.move_sl_to_be_on_tp1 = managed["move_sl_to_be_on_tp1"]
        /\ P.min_rr = SymbolRr(S, symbol, pair, "min_rr", S.min_rr)
        /\ P.max_rr = SymbolRr(S, symbol, pair, "max_rr",
                               TfMaxRr(S, pair, ClassMaxRr[ClassOf(symbol)]))
    BY <1>1 DEF Get
  <1>4. {"tp1_trigger_pct", "tp1_close_pct", "move_sl_to_be_on_tp1"} \subseteq Managed
    BY DEF Managed
  <1>5. QED
    BY <1>2, <1>3, <1>4 DEF SymbolRr

\* The profiles follow the documents in every state with settings.
LEMMA ProfilesFollow == ClockInv => ProfilesResolve
  <1> SUFFICES ASSUME ClockInv, settings \notin {Unloaded, Rejected}, SpelledOnce,
                      NEW s \in setup.symbols, NEW pair \in setup.pairs \cup {NoPair},
                      NEW symbol, symbol = Strip[s], Normalize(s) = symbol,
                      NEW P, P = Get(settings, s, pair),
                      NEW least, least = SaidBound("min_rr", symbol, pair),
                      NEW most, most = SaidBound("max_rr", symbol, pair),
                      NEW managed, managed = SaidManagement(symbol, pair)
               PROVE  /\ least # Nothing => P.min_rr = least["min_rr"]
                      /\ most # Nothing => P.max_rr = most["max_rr"]
                      /\ \A name \in DOMAIN managed : P[name] = managed[name]
                      /\ \A name \in {"tp1_trigger_pct", "tp1_close_pct"} \ DOMAIN managed :
                            P[name] = Single(DeepMerge(setup.base, setup.over), name)
                      /\ P.min_rr > 0 \/ least = Nothing
                      /\ P.tp1_trigger_pct \in 1..99 \/ "tp1_trigger_pct" \in DOMAIN managed
    BY DEF ProfilesResolve
  <1>1. setup \in Setups /\ IsLoaded
    BY DEF ClockInv
  <1>2. Proper(symbol, pair)
    BY <1>1, MarketAssumption DEF Proper
  <1>3. PICK m, doc : /\ m = MergeTable(setup.base.overrides, setup.over.overrides)
                      /\ doc = DeepMerge(setup.base, setup.over)
    OBVIOUS
  <1>4. PICK rr, tf : rr = settings.symbol_rr_filter
                      /\ tf = settings.trade_management_tf_overrides
    OBVIOUS
  <1>5. /\ rr = ParseTable(MergeTable(setup.base.rrr, setup.over.rrr))
        /\ tf = ParseTable(m) /\ Supported(m)
        /\ settings.tp1_trigger_pct = Single(doc, "tp1_trigger_pct")
        /\ settings.tp1_close_pct = Single(doc, "tp1_close_pct")
        /\ settings.tp1_trigger_pct \in 1..99
        /\ \A sym \in DOMAIN rr : \A k \in DOMAIN rr[sym] :
              "min_rr" \in DOMAIN rr[sym][k] => rr[sym][k]["min_rr"] > 0
    BY <1>1, <1>3, <1>4, LoadedSettings
  <1>6. /\ FirstEntry(rr, symbol, pair, {"min_rr"}) = least
        /\ FirstEntry(rr, symbol, pair, {"max_rr"}) = most
    BY <1>1, <1>2, <1>5, BoundIsFound
  <1>7. least # Nothing => least["min_rr"] > 0
    <2> SUFFICES ASSUME least # Nothing PROVE least["min_rr"] > 0
      OBVIOUS
    <2>1. PICK p \in {symbol, Star} \X {pair, Star} :
             /\ p[1] \in DOMAIN rr /\ p[2] \in DOMAIN rr[p[1]]
             /\ least = rr[p[1]][p[2]]
             /\ {"min_rr"} \cap DOMAIN rr[p[1]][p[2]] # {}
      BY <1>6, FoundIsThere
    <2>2. QED
      BY <1>5, <2>1
  <1>8. PICK TM : TM = TradeManagement(settings, symbol, pair)
    OBVIOUS
  <1>9. TM = managed /\ DOMAIN TM \subseteq Managed
    <2>1. CASE pair = NoPair
      BY <1>8, <2>1 DEF TradeManagement, SaidManagement, Nothing
    <2>2. CASE pair # NoPair
      <3>1. TM = FirstEntry(tf, symbol, pair, Managed)
        BY <1>4, <1>8, <2>2 DEF TradeManagement
      <3>2. /\ FirstEntry(tf, symbol, pair, Managed) = SaidManagement(symbol, pair)
            /\ DOMAIN FirstEntry(tf, symbol, pair, Managed) \subseteq Managed
        BY <1>1, <1>2, <1>3, <1>5, <2>2, ManagementIsFound
      <3>3. QED
        BY <2>2, <3>1, <3>2
    <2>3. QED
      BY <2>1, <2>2
  <1>10. /\ least # Nothing => P.min_rr = least["min_rr"]
         /\ most # Nothing => P.max_rr = most["max_rr"]
         /\ P.tp1_trigger_pct = IF "tp1_trigger_pct" \in DOMAIN TM
                                THEN TM["tp1_trigger_pct"] ELSE settings.tp1_trigger_pct
         /\ P.tp1_close_pct = IF "tp1_close_pct" \in DOMAIN TM
                              THEN TM["tp1_close_pct"] ELSE settings.tp1_close_pct
         /\ "move_sl_to_be_on_tp1" \in DOMAIN TM
              => P.move_sl_to_be_on_tp1 = TM["move_sl_to_be_on_tp1"]
    BY <1>4, <1>6, <1>8, ProfileFields
  <1>11. \A name \in DOMAIN managed : P[name] = managed[name]
    BY <1>9, <1>10 DEF Managed
  <1>12. \A name \in {"tp1_trigger_pct", "tp1_close_pct"} \ DOMAIN managed :
            P[name] = Single(DeepMerge(setup.base, setup.over), name)
    BY <1>3, <1>5, <1>9, <1>10
  <1>13. P.tp1_trigger_pct \in 1..99 \/ "tp1_trigger_pct" \in DOMAIN managed
    BY <1>5, <1>9, <1>10
  <1>14. P.min_rr > 0 \/ least = Nothing
    BY <1>7, <1>10
  <1>15. QED
    BY <1>10, <1>11, <1>12, <1>13, <1>14

(***************************************************************************)
(* Whatever the two documents are, the profile that the registry gives for *)
(* a symbol and a pair is the one that the most specific entries of the    *)
(* documents ask for: through _deep_merge, the two parsers, __post_init__  *)
(* and AssetRegistry.get.                                                  *)
(***************************************************************************)
THEOREM ProfilesFollowTheDocuments == Spec => []ProfilesResolve
  <1>1. Init => ClockInv
    <2> SUFFICES ASSUME Init PROVE ClockInv
      OBVIOUS
    <2>1. \A s \in Symbols : CallOK(calls[s])
      BY DEF Init, CallOK
    <2>2. QED
      BY <2>1 DEF Init, ClockInv
  <1>2. QED
    BY <1>1, ClockStep, ProfilesFollow, PTL DEF Spec
==============================================================================
