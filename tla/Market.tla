------------------------------- MODULE Market -------------------------------
(***************************************************************************)
(* MarketDataClient on the terminal of a broker whose clock is some hours  *)
(* away from UTC, with the settings it is built from.                      *)
(*                                                                         *)
(* The terminal stamps ticks and candles with the broker's clock and does  *)
(* not say which that is.  Every call takes the last tick, subtracts the   *)
(* system's time and rounds to whole hours.  The market goes on between    *)
(* the two reads of a call, and the calls of other symbols run in other    *)
(* threads.  Time counts in quarters of an hour; a candle is a quarter.    *)
(***************************************************************************)
EXTENDS Profiles

CONSTANTS
    Symbols,    \* as the engine spells them
    Names,      \* as the broker does, the shortest first
    Setups,     \* documents, broker clocks and bounds that go together
    Requests,   \* from and to of a range; to = 0: none given
    OutputSize,
    Unloaded, Unresolved, Unknown, NoTick, Idle

VARIABLES
    setup,      \* what the behaviour starts from, and its bounds
    now,        \* UTC
    last,       \* by name: when its last tick came
    lost,       \* the names whose tick the terminal does not give
    settings,
    terminal,   \* none, up or down
    resolved,   \* _resolved_symbols
    offsets,    \* _broker_time_offset_ms_by_symbol
    calls,      \* the call of each symbol that waits for its second read
    answer      \* what the last step returned

marketVars == <<now, last, lost>>
vars == <<setup, now, last, lost, settings, terminal, resolved, offsets, calls, answer>>

NameSet == {Names[i] : i \in DOMAIN Names}
Hour == 4

\* The spellings that are looked up: the engine's, and what aliases stand for.
Spellings ==
    {Strip[s] : s \in Symbols}
    \cup UNION {{u.creds.aliases[c] : c \in DOMAIN u.creds.aliases} : u \in Setups}

\* A table of a document: its keys are different, its entries give names values.
IsTable(rows) ==
    /\ rows \in Seq({rows[i] : i \in DOMAIN rows})
    /\ \A i, j \in DOMAIN rows : rows[i].sym = rows[j].sym => i = j
    /\ \A i \in DOMAIN rows : \A k \in DOMAIN rows[i].tfs :
            LET entry == rows[i].tfs[k] IN entry = [n \in DOMAIN entry |-> entry[n]]

\* A broker's clock is whole hours away from UTC.
ASSUME MarketAssumption ==
    /\ DOMAIN Names \subseteq Nat
    /\ NoTick \notin Nat
    /\ NoPair # Star /\ \A s \in Symbols : Strip[s] # Star
    /\ Requests \subseteq [from : Nat, to : Nat]
    /\ \A u \in Setups :
        /\ u.before \in Int /\ u.before % Hour = 0
        /\ u.after \in Int /\ u.after % Hour = 0
        /\ u.listed \subseteq NameSet /\ u.symbols \subseteq Symbols /\ Star \notin u.pairs
        /\ \A doc \in {u.base, u.over} : IsTable(doc.rrr) /\ IsTable(doc.overrides)

NoAnswer == [kind |-> "none"]

-----------------------------------------------------------------------------
(***************************************************************************)
(* The broker                                                              *)
(***************************************************************************)
\* The broker's clock changes once, from summer to winter time or back.
Zone(t) == IF t < setup.shift THEN setup.before ELSE setup.after

Stamp(t) == t + Zone(t)

\* symbol_info_tick: when the tick came, if there is one.
Tick(n) == IF terminal # "up" \/ n \in lost THEN NoTick ELSE last[n]

Pass ==
    /\ terminal # "none" /\ now < setup.horizon
    /\ now' = now + 1
    /\ answer' = NoAnswer
    /\ UNCHANGED <<setup, last, lost, settings, terminal, resolved, offsets, calls>>

Quote(n) ==
    /\ last[n] # now \/ n \in lost
    /\ last' = [last EXCEPT ![n] = now]
    /\ lost' = lost \ {n}
    /\ answer' = NoAnswer
    /\ UNCHANGED <<setup, now, settings, terminal, resolved, offsets, calls>>

Lose(n) ==
    /\ terminal # "none" /\ n \notin lost /\ now < setup.horizon
    /\ lost' = lost \cup {n}
    /\ answer' = NoAnswer
    /\ UNCHANGED <<setup, now, last, settings, terminal, resolved, offsets, calls>>

\* The candles of a name, as the terminal has them.
Opened(n) == 0..last[n]

-----------------------------------------------------------------------------
(***************************************************************************)
(* Names and offsets                                                       *)
(***************************************************************************)
Clean(s) ==
    LET clean == Strip[s]
        aliases == settings.aliases
    IN IF clean \in DOMAIN aliases THEN aliases[clean] ELSE clean

Listed == IF terminal = "up" THEN setup.listed ELSE {}

\* The exact name if the broker lists it, else the shortest one around it.
Match(clean) ==
    LET fits == {i \in DOMAIN Names : Names[i] \in Listed /\ clean \in setup.within[Names[i]]}
    IN CASE clean \in Listed -> clean
         [] clean \notin Listed /\ fits # {} -> Names[Min(fits)]
         [] OTHER -> Unresolved

\* A name that is hidden and cannot be selected is an error, and not kept.
EnsureSymbol(s) ==
    LET clean == Clean(s)
        name == IF resolved[clean] # Unresolved THEN resolved[clean] ELSE Match(clean)
    IN IF resolved[clean] = Unresolved /\ name \in setup.hidden THEN Unresolved ELSE name

Remember(s) == resolved' = [resolved EXCEPT ![Clean(s)] = EnsureSymbol(s)]

\* Mutant: the part of an hour is cut off.
RoundDown(x) == Hour * (x \div Hour)

\* round(): the nearest whole hour, and of two the even one.
Round(x) ==
    LET q == x \div Hour
        r == x % Hour
    IN Hour * IF 2 * r < Hour \/ (2 * r = Hour /\ q % 2 = 0) THEN q ELSE q + 1

\* _broker_time_offset_ms: its value, and what it leaves behind.
OffsetOf(n) ==
    CASE Tick(n) # NoTick -> Round(Stamp(Tick(n)) - now)
      [] Tick(n) = NoTick /\ offsets[n] # Unknown -> offsets[n]
      [] OTHER -> 0

Measure(n) ==
    IF Tick(n) = NoTick THEN UNCHANGED <<offsets, settings>>
    ELSE /\ offsets' = [offsets EXCEPT ![n] = OffsetOf(n)]
         /\ settings' = [settings EXCEPT !.broker_time_offset = OffsetOf(n)]

-----------------------------------------------------------------------------
(***************************************************************************)
(* The calls                                                               *)
(***************************************************************************)
Init ==
    /\ setup \in Setups
    /\ now = 0
    /\ last = [n \in NameSet |-> 0] /\ lost = {}
    /\ settings = Unloaded
    /\ terminal = "none"
    /\ resolved = [c \in Spellings |-> Unresolved]
    /\ offsets = [n \in NameSet |-> Unknown]
    /\ calls = [s \in Symbols |-> Idle]
    /\ answer = NoAnswer

LoadSettings ==
    /\ settings = Unloaded
    /\ settings' = Load(setup.base, setup.over, setup.creds)
    /\ answer' = NoAnswer
    /\ UNCHANGED <<setup, marketVars, terminal, resolved, offsets, calls>>

\* MarketDataClient.from_settings; a terminal that does not answer is
\* Pipeline's ConstructFails.
Connect ==
    /\ settings \notin {Unloaded, Rejected} /\ terminal = "none"
    /\ terminal' = "up"
    /\ answer' = NoAnswer
    /\ UNCHANGED <<setup, marketVars, settings, resolved, offsets, calls>>

Ready(s) == terminal # "none" /\ calls[s] = Idle

\* Any call on a name the broker does not have raises.
NotFound(s) ==
    /\ Ready(s) /\ EnsureSymbol(s) = Unresolved
    /\ answer' = [kind |-> "error"]
    /\ UNCHANGED <<setup, marketVars, settings, terminal, resolved, offsets, calls>>

\* now_ms and get_tick read the tick first, and the offset afterwards.
ReadTick(s, kind) ==
    LET n == EnsureSymbol(s)
    IN /\ Ready(s) /\ n # Unresolved /\ Tick(n) # NoTick
       /\ Remember(s)
       /\ calls' = [calls EXCEPT ![s] = [kind |-> kind, name |-> n, tick |-> Tick(n)]]
       /\ answer' = NoAnswer
       /\ UNCHANGED <<setup, marketVars, settings, terminal, offsets>>

\* Without a tick now_ms is the system's time, and get_tick raises, or, for a
\* tick without a time, shifts the system's time as if it were the broker's.
ReadNoTick(s) ==
    LET n == EnsureSymbol(s)
    IN /\ Ready(s) /\ n # Unresolved /\ Tick(n) = NoTick
       /\ Remember(s)
       /\ \/ answer' = [kind |-> "now", at |-> now, read |-> NoTick, used |-> NoTick, value |-> now]
          \/ answer' = [kind |-> "error"]
          \/ /\ terminal = "up"
             /\ answer' = [kind |-> "tick", at |-> now, read |-> NoTick, used |-> NoTick,
                           value |-> now - OffsetOf(n)]
       /\ UNCHANGED <<setup, marketVars, settings, terminal, offsets, calls>>

AnswerTime(s) ==
    LET c == calls[s]
    IN /\ c # Idle /\ c.kind \in {"now", "tick"}
       /\ Measure(c.name)
       /\ answer' = [kind |-> c.kind, at |-> now, read |-> c.tick, used |-> Tick(c.name),
                     value |-> Stamp(c.tick) - OffsetOf(c.name)]
       /\ calls' = [calls EXCEPT ![s] = Idle]
       /\ UNCHANGED <<setup, marketVars, terminal, resolved>>

\* fetch_candles and fetch_candles_range take the offset first.
ReadOffset(s, kind, request) ==
    LET n == EnsureSymbol(s)
    IN /\ Ready(s) /\ n # Unresolved
       /\ Remember(s) /\ Measure(n)
       /\ calls' = [calls EXCEPT ![s] =
             [kind |-> kind, name |-> n, used |-> Tick(n), at |-> now,
              offset |-> OffsetOf(n), from |-> request.from, to |-> request.to]]
       /\ answer' = NoAnswer
       /\ UNCHANGED <<setup, marketVars, terminal>>

\* copy_rates_from_pos and copy_rates_range.
Rates(c) ==
    CASE c.kind = "candles" -> {t \in Opened(c.name) : t > last[c.name] - OutputSize}
      [] OTHER -> LET to == IF c.to = 0 THEN now ELSE c.to
                  IN {t \in Opened(c.name) :
                        c.from + c.offset <= Stamp(t) /\ Stamp(t) <= to + c.offset}

AnswerCandles(s) ==
    LET c == calls[s]
    IN /\ c # Idle /\ c.kind \in {"candles", "range"} /\ terminal = "up"
       /\ answer' = [kind |-> c.kind, at |-> c.at, used |-> c.used,
                     from |-> c.from, to |-> IF c.to = 0 THEN now ELSE c.to,
                     had |-> Opened(c.name),
                     value |-> {[opened |-> t, stamp |-> Stamp(t) - c.offset] : t \in Rates(c)}]
       /\ calls' = [calls EXCEPT ![s] = Idle]
       /\ UNCHANGED <<setup, marketVars, settings, terminal, resolved, offsets>>

\* The terminal gives no rates, or was shut down since.
NoRates(s) ==
    /\ calls[s] # Idle /\ calls[s].kind \in {"candles", "range"}
    /\ answer' = [kind |-> "error"]
    /\ calls' = [calls EXCEPT ![s] = Idle]
    /\ UNCHANGED <<setup, marketVars, settings, terminal, resolved, offsets>>

Close ==
    /\ terminal = "up"
    /\ terminal' = "down"
    /\ answer' = NoAnswer
    /\ UNCHANGED <<setup, marketVars, settings, resolved, offsets, calls>>

-----------------------------------------------------------------------------
Next ==
    \/ Pass \/ LoadSettings \/ Connect \/ Close
    \/ \E n \in setup.listed : Quote(n) \/ Lose(n)
    \/ \E s \in setup.symbols :
        \/ NotFound(s) \/ ReadNoTick(s)
        \/ \E kind \in {"now", "tick"} : ReadTick(s, kind)
        \/ \E r \in Requests : ReadOffset(s, "range", r)
        \/ ReadOffset(s, "candles", [from |-> 0, to |-> 0])
        \/ AnswerTime(s) \/ AnswerCandles(s) \/ NoRates(s)

Spec == Init /\ [][Next]_vars

-----------------------------------------------------------------------------
(***************************************************************************)
(* Properties                                                              *)
(***************************************************************************)
\* The tick an answer takes its offset from is less than half an hour old,
\* and the broker's clock has not changed since.
Fresh(a) ==
    /\ a.used # NoTick
    /\ 2 * (a.at - a.used) < Hour
    /\ Zone(a.used) = Zone(a.at)

\* now_ms is at most half an hour off, however old the tick, as long as both
\* of its reads see the same one.
NowIsNear(a) ==
    a.kind = "now" /\ a.used = a.read =>
        2 * a.value \in (2 * a.at - Hour)..(2 * a.at + Hour)

\* While ticks come in, what the terminal stamps on this side of a change of
\* the clock comes out in UTC: a tick at the time it came, and a range with
\* exactly the candles that opened within it.
FreshIsTrue(a) ==
    LET SameZone(t) == Zone(t) = Zone(a.at)
        Here == {c \in a.value : SameZone(c.opened)}
    IN CASE a.kind \in {"now", "tick"} -> SameZone(a.read) => a.value = a.read
         [] a.kind = "candles" -> \A c \in Here : c.stamp = c.opened
         [] a.kind = "range" ->
                Here = {[opened |-> t, stamp |-> t] :
                            t \in {u \in a.had : SameZone(u) /\ u \in a.from..a.to}}

\* The offset is guessed anew in every call from a tick that may be hours
\* old, between two reads that the market can come between
\* (_broker_time_offset_ms).
ClockTrue ==
    answer.kind \notin {"none", "error"} =>
        /\ NowIsNear(answer)
        /\ Fresh(answer) => FreshIsTrue(answer)

\* What a table of a document says at a place.
At(rows, place) ==
    LET In == {i \in DOMAIN rows : Strip[rows[i].sym] = place[1]
                                  /\ place[2] \in DOMAIN rows[i].tfs}
    IN IF In = {} THEN Nothing ELSE rows[CHOOSE i \in In : TRUE].tfs[place[2]]

\* What the documents say there, the broker's first.
Says(table, place) == Over(At(setup.over[table], place), At(setup.base[table], place))

Weight(place) == (IF place[1] = Star THEN 0 ELSE 2) + (IF place[2] = Star THEN 0 ELSE 1)

\* The entry at the heaviest place around a symbol and a pair that satisfies P.
MostSpecific(table, symbol, pair, P(_)) ==
    LET places == {p \in {symbol, Star} \X {pair, Star} :
                        p[2] # NoPair /\ P(Says(table, p))}
    IN IF places = {} THEN Nothing
       ELSE Says(table, CHOOSE p \in places : \A q \in places : Weight(q) <= Weight(p))

SaidBound(name, symbol, pair) ==
    MostSpecific("rrr", symbol, pair, LAMBDA e : name \in DOMAIN e)

SaidManagement(symbol, pair) ==
    IF pair = NoPair THEN Nothing
    ELSE MostSpecific("overrides", symbol, pair, LAMBDA e : e # Nothing)

SpelledOnce ==
    \A table \in {"rrr", "overrides"} :
        LET Syms(rows) == {rows[i].sym : i \in DOMAIN rows}
        IN \A a, b \in Syms(setup.base[table]) \cup Syms(setup.over[table]) :
            Strip[a] = Strip[b] => a = b

\* A profile follows the documents through the merge, the parsers and the
\* registry: each bound of the ratio from the most specific place that gives
\* it, the management of the trade from the most specific entry as a whole,
\* the broker's document before the common one.  __post_init__ looks past the
\* overrides and the single ratio, so only from there can a trigger outside 0
\* to 100 or a ratio that is not positive come.  The symbol is one that the
\* registry knows, or is spelled as the tables are.
ProfilesResolve ==
    settings \notin {Unloaded, Rejected} /\ SpelledOnce =>
        \A s \in setup.symbols, pair \in setup.pairs \cup {NoPair} :
            LET profile == Get(settings, s, pair)
                symbol == Strip[s]
                Bound(name) == SaidBound(name, symbol, pair)
                managed == SaidManagement(symbol, pair)
            IN Normalize(s) = symbol =>
               /\ \A name \in {"min_rr", "max_rr"} :
                    Bound(name) # Nothing => profile[name] = Bound(name)[name]
               /\ \A name \in DOMAIN managed : profile[name] = managed[name]
               /\ \A name \in {"tp1_trigger_pct", "tp1_close_pct"} \ DOMAIN managed :
                    profile[name] = Single(DeepMerge(setup.base, setup.over), name)
               /\ profile.min_rr > 0 \/ Bound("min_rr") = Nothing
               /\ profile.tp1_trigger_pct \in 1..99 \/ "tp1_trigger_pct" \in DOMAIN managed

=============================================================================
