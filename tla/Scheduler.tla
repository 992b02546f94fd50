------------------------------ MODULE Scheduler ------------------------------
(***************************************************************************)
(* SignalScheduler: it runs the tick of every subscribed symbol on the     *)
(* candle boundaries, and sleeps over the weekend.                         *)
(*                                                                         *)
(* Timers are threads.  A timer, the thread it wakes and the tick that     *)
(* thread hands to the event loop follow each other, and the end of the    *)
(* tick arms the next timer: the model calls this succession a chain.      *)
(* Timers name their symbol, not their schedule, so a chain can outlive    *)
(* the schedule that began it and go on under the next one.  A step is a   *)
(* section under the scheduler's lock.                                     *)
(*                                                                         *)
(* Time is the position in the week, in units of which Interval make the   *)
(* shortest LTF candle.  It does not pass a timer that is due: a thread    *)
(* wakes and takes the lock in far less than a candle.  A tick may take    *)
(* any time.                                                               *)
(*                                                                         *)
(* The broker's clock is what the settings hold of it: the offset that the *)
(* market data measures, in any thread, from the last tick of whichever    *)
(* symbol it was asked for.  A symbol without fresh ticks leaves an offset *)
(* that is behind.                                                         *)
(***************************************************************************)
EXTENDS Integers, Functions

CONSTANTS
    Symbols,
    Subscribers,
    Chains,         \* bound: timers, threads and ticks at one time
    NoTimer,
    Week,           \* the length of the week
    Interval,       \* the shortest LTF of tf_pairs
    Buffer,         \* candle_buffer_ms
    BrokerOffset,   \* how far the broker's clock is really ahead
    Offsets,        \* what the settings and stale ticks make of it
    MaxCalls,       \* bound: calls of the public API in one unit of time
    Weekends        \* configured closings; close = reopen: no weekend sleep

ASSUME SchedulerAssumption ==
    /\ NoTimer \notin Chains
    /\ Week \in Nat \ {0} /\ Interval \in Nat \ {0} /\ Week % Interval = 0
    /\ Buffer \in Nat /\ MaxCalls \in Nat
    /\ Offsets \subseteq Int /\ BrokerOffset \in Offsets
    /\ Weekends \subseteq [close : 0..(Week - 1), reopen : 0..(Week - 1)]

VARIABLES
    now,         \* the clock, within the week
    weekend,     \* the configured closing
    offset,      \* broker_time_offset_ms, as last measured
    schedules,   \* _schedules: by symbol, its SymbolSchedule
    chains,      \* the timers, threads and ticks there are
    calls,       \* calls of the public API in this unit of time
    dropped      \* history: symbols cancelled under a running tick

vars == <<now, weekend, offset, schedules, chains, calls, dropped>>

(***************************************************************************)
(* SymbolSchedule.  timer is the armed timer: a reference to one that has  *)
(* fired is as good as none, cancelling it does nothing.                   *)
(***************************************************************************)
SymbolSchedule == [is_running : BOOLEAN, timer : Chains \cup {NoTimer},
                   subscriber_ids : SUBSET Subscribers]

\* clock is history: the offset by which a timer sleeps over the weekend.
NoChain == [at |-> "none"]

Chain ==
    {NoChain}
      \cup [at : {"armed"}, symbol : Symbols, left : Nat, clock : Offsets]
      \cup [at : {"woken", "ticking"}, symbol : Symbols]

Scheduled(s) == s \in DOMAIN schedules

\* The chains of a symbol that stand at one of the given places.
ChainsAt(s, places) ==
    {c \in Chains : chains[c].at \in places /\ chains[c].symbol = s}

-----------------------------------------------------------------------------
(***************************************************************************)
(* Delays                                                                  *)
(***************************************************************************)

\* _ms_until_next_boundary
UntilNextBoundary(t) == ((t \div Interval + 1) * Interval - t) + Buffer

\* _broker_seconds_of_week
BrokerTime(t, o) == (t + o) % Week

NoSleep == 0

\* Mutant: the moment of the reopening still counts as closed.
SleepAtReopen(t, o) ==
    LET s == BrokerTime(t, o)
        c == weekend.close
        r == weekend.reopen
        is_closed == IF c < r THEN c <= s /\ s <= r ELSE s >= c \/ s <= r
        until_reopen == IF s < r THEN r - s ELSE Week - s + r
    IN  IF c = r \/ ~is_closed THEN NoSleep ELSE until_reopen + Buffer

\* Mutant: the reopening is always later in the same week.
SleepWithoutWrap(t, o) ==
    LET s == BrokerTime(t, o)
        c == weekend.close
        r == weekend.reopen
        is_closed == IF c < r THEN c <= s /\ s < r ELSE s >= c \/ s < r
    IN  IF c = r \/ ~is_closed THEN NoSleep ELSE (r - s) + Buffer

\* _weekend_sleep_delay_ms
WeekendSleep(t, o) ==
    LET s == BrokerTime(t, o)
        c == weekend.close
        r == weekend.reopen
        is_closed == IF c < r THEN c <= s /\ s < r ELSE s >= c \/ s < r
        until_reopen == IF s < r THEN r - s ELSE Week - s + r
    IN  IF c = r \/ ~is_closed THEN NoSleep ELSE until_reopen + Buffer

\* The delay _schedule_next gives its timer.
NextDelay(o) == IF WeekendSleep(now, o) # NoSleep THEN WeekendSleep(now, o)
                ELSE UntilNextBoundary(now)

Armed(s, delay, o) ==
    [at |-> "armed", symbol |-> s, left |-> delay, clock |-> o]

\* _schedule_next: chain c goes on with a new timer for the symbol.
ScheduleNext(c, s, schedule, o) ==
    /\ chains' = [chains EXCEPT ![c] =
                    Armed(s, NextDelay(o), IF WeekendSleep(now, o) # NoSleep THEN o
                                           ELSE BrokerOffset)]
    /\ schedules' = [schedules EXCEPT ![s] = [schedule EXCEPT !.timer = c]]

-----------------------------------------------------------------------------
Init ==
    /\ now \in 0..(Week - 1)
    /\ weekend \in Weekends
    /\ offset \in Offsets
    /\ schedules = [s \in {} |-> {}]
    /\ chains = [c \in Chains |-> NoChain]
    /\ calls = 0
    /\ dropped = {}

\* A timer that is due, or a thread on its way into _run.
Due(c) == \/ chains[c].at = "armed" /\ chains[c].left = 0
          \/ chains[c].at = "woken"

Advance ==
    /\ \A c \in Chains : ~Due(c)
    /\ now' = (now + 1) % Week
    /\ calls' = 0
    /\ chains' = [c \in Chains |-> IF chains[c].at = "armed"
                                   THEN [chains[c] EXCEPT !.left = @ - 1]
                                   ELSE chains[c]]
    /\ UNCHANGED <<weekend, offset, schedules, dropped>>

\* _broker_time_offset_ms, called with any symbol by a tick or a query.
Measure(o) ==
    /\ offset' = o
    /\ UNCHANGED <<now, weekend, schedules, chains, calls, dropped>>

\* A caller of the public API takes the lock.
Call ==
    /\ calls < MaxCalls
    /\ calls' = calls + 1
    /\ UNCHANGED <<now, weekend, offset>>

(***************************************************************************)
(* subscribe for one symbol; a call with several is one after the other.   *)
(* The first subscriber of a symbol starts a timer that fires at once.     *)
(***************************************************************************)
Subscribe(id, s) ==
    /\ Call
    /\ IF Scheduled(s)
       THEN /\ schedules' = [schedules EXCEPT ![s].subscriber_ids = @ \cup {id}]
            /\ UNCHANGED chains
       ELSE \E c \in Chains :
               /\ chains[c] = NoChain
               /\ chains' = [chains EXCEPT ![c] = Armed(s, 0, BrokerOffset)]
               /\ schedules' =
                    [t \in DOMAIN schedules \cup {s} |->
                        IF t = s THEN [is_running |-> FALSE, timer |-> c,
                                       subscriber_ids |-> {id}]
                        ELSE schedules[t]]
    /\ UNCHANGED dropped

\* _cancel for a set of symbols, leaving the given schedules.
Cancel(symbols, left) ==
    LET timers == {left[s].timer : s \in symbols}
    IN  /\ schedules' = Restrict(left, DOMAIN left \ symbols)
        /\ chains' = [c \in Chains |-> IF c \in timers THEN NoChain ELSE chains[c]]
        /\ dropped' = dropped \cup {s \in symbols : ChainsAt(s, {"ticking"}) # {}}

\* The subscriber leaves some symbols; a symbol without subscribers stops.
Leave(id, symbols) ==
    LET left == [s \in DOMAIN schedules |->
                    IF s \in symbols
                    THEN [schedules[s] EXCEPT !.subscriber_ids = @ \ {id}]
                    ELSE schedules[s]]
    IN  Cancel({s \in symbols \cap DOMAIN left : left[s].subscriber_ids = {}}, left)

Unsubscribe(id) ==
    /\ Call
    /\ Leave(id, Symbols)

RemoveSymbols(id, s) ==
    /\ Call
    /\ Leave(id, {s})

Shutdown ==
    /\ Call
    /\ Cancel(DOMAIN schedules, schedules)

-----------------------------------------------------------------------------
\* A timer fires; from here on cancelling it comes too late.
Wake(c) ==
    /\ chains[c].at = "armed" /\ chains[c].left = 0
    /\ chains' = [chains EXCEPT ![c] = [at |-> "woken", symbol |-> chains[c].symbol]]
    /\ schedules' = [s \in DOMAIN schedules |->
                        IF schedules[s].timer = c
                        THEN [schedules[s] EXCEPT !.timer = NoTimer]
                        ELSE schedules[s]]
    /\ UNCHANGED <<now, weekend, offset, calls, dropped>>

\* _run: the symbol is gone, or its tick still runs: the chain ends.
RunSkips(c) ==
    LET s == chains[c].symbol
    IN  /\ chains[c].at = "woken"
        /\ Scheduled(s) => schedules[s].is_running
        /\ chains' = [chains EXCEPT ![c] = NoChain]
        /\ UNCHANGED <<now, weekend, offset, schedules, calls, dropped>>

\* Mutant: is_running is set before the weekend is looked at.
RunSleepsMarked(c) ==
    LET s == chains[c].symbol
    IN  /\ chains[c].at = "woken"
        /\ Scheduled(s) /\ ~schedules[s].is_running
        /\ WeekendSleep(now, offset) # NoSleep
        /\ offset' \in Offsets
        /\ ScheduleNext(c, s, [schedules[s] EXCEPT !.is_running = TRUE], offset')
        /\ UNCHANGED <<now, weekend, calls, dropped>>

(***************************************************************************)
(* _run over the weekend: sleep on.  _schedule_next looks at the clock     *)
(* again, and a measurement may come in between: the lock does not guard   *)
(* the settings.                                                           *)
(***************************************************************************)
RunSleeps(c) ==
    LET s == chains[c].symbol
    IN  /\ chains[c].at = "woken"
        /\ Scheduled(s) /\ ~schedules[s].is_running
        /\ WeekendSleep(now, offset) # NoSleep
        /\ offset' \in Offsets
        /\ ScheduleNext(c, s, schedules[s], offset')
        /\ UNCHANGED <<now, weekend, calls, dropped>>

\* Mutant: a tick starts whether or not another runs.
RunTicksAnyway(c) ==
    LET s == chains[c].symbol
    IN  /\ chains[c].at = "woken"
        /\ Scheduled(s)
        /\ WeekendSleep(now, offset) = NoSleep
        /\ schedules' = [schedules EXCEPT ![s].is_running = TRUE]
        /\ chains' = [chains EXCEPT ![c].at = "ticking"]
        /\ UNCHANGED <<now, weekend, offset, calls, dropped>>

\* _run: the tick goes to the event loop.
RunTicks(c) ==
    LET s == chains[c].symbol
    IN  /\ chains[c].at = "woken"
        /\ Scheduled(s) /\ ~schedules[s].is_running
        /\ WeekendSleep(now, offset) = NoSleep
        /\ schedules' = [schedules EXCEPT ![s].is_running = TRUE]
        /\ chains' = [chains EXCEPT ![c].at = "ticking"]
        /\ UNCHANGED <<now, weekend, offset, calls, dropped>>

\* _on_done, with the tick's result or its exception.
OnDone(c) ==
    LET s == chains[c].symbol
    IN  /\ chains[c].at = "ticking"
        /\ IF Scheduled(s)
           THEN ScheduleNext(c, s, [schedules[s] EXCEPT !.is_running = FALSE], offset)
           ELSE /\ chains' = [chains EXCEPT ![c] = NoChain]
                /\ UNCHANGED schedules
        /\ dropped' = IF ChainsAt(s, {"ticking"}) = {c} THEN dropped \ {s} ELSE dropped
        /\ UNCHANGED <<now, weekend, offset, calls>>

Next ==
    \/ Advance
    \/ \E o \in Offsets : Measure(o)
    \/ \E id \in Subscribers :
          \/ Unsubscribe(id)
          \/ \E s \in Symbols : Subscribe(id, s) \/ RemoveSymbols(id, s)
    \/ Shutdown
    \/ \E c \in Chains :
          Wake(c) \/ RunSkips(c) \/ RunSleeps(c) \/ RunTicks(c) \/ OnDone(c)

Spec == Init /\ [][Next]_vars

(***************************************************************************)
(* Time passes, due timers fire, threads get the lock, and the callback    *)
(* returns: _on_candle_close awaits finite fetches only.                   *)
(***************************************************************************)
FairSpec ==
    /\ Spec
    /\ WF_vars(Advance)
    /\ \A c \in Chains :
          /\ WF_vars(Wake(c))
          /\ WF_vars(RunSkips(c) \/ RunSleeps(c) \/ RunTicks(c))
          /\ WF_vars(OnDone(c))

-----------------------------------------------------------------------------
(***************************************************************************)
(* Properties                                                              *)
(***************************************************************************)

\* Every variable holds a value of the code's type.
TypeOK ==
    /\ now \in 0..(Week - 1)
    /\ weekend \in Weekends
    /\ offset \in Offsets
    /\ DOMAIN schedules \subseteq Symbols
    /\ schedules \in [DOMAIN schedules -> SymbolSchedule]
    /\ chains \in [Chains -> Chain]
    /\ calls \in 0..MaxCalls
    /\ dropped \subseteq Symbols

(***************************************************************************)
(* No schedule is left without a chain to serve it, whatever calls and     *)
(* ticks cross: is_running stands for a tick that will reset it, and a     *)
(* symbol at rest has a timer or a thread on its way.                      *)
(***************************************************************************)
ChainAlive ==
    \A s \in DOMAIN schedules :
        IF schedules[s].is_running THEN ChainsAt(s, {"ticking"}) # {}
        ELSE ChainsAt(s, {"armed", "woken", "ticking"}) # {}

(***************************************************************************)
(* A tick of a symbol overlaps another only if the symbol was cancelled    *)
(* and subscribed again under a running tick.                              *)
(***************************************************************************)
OneTickPerSymbol ==
    \A s \in Symbols \ dropped : \A a, b \in ChainsAt(s, {"ticking"}) : a = b

(***************************************************************************)
(* What makes the two invariants above inductive: the timer a schedule     *)
(* would cancel is armed for its own symbol, and the tick of a symbol that *)
(* was not dropped under it is known to the schedule by is_running.        *)
(***************************************************************************)
TimerIsOwn ==
    \A s \in DOMAIN schedules :
        schedules[s].timer # NoTimer => schedules[s].timer \in ChainsAt(s, {"armed"})

TickIsKnown ==
    \A s \in Symbols \ dropped :
        ChainsAt(s, {"ticking"}) # {} => Scheduled(s) /\ schedules[s].is_running

(***************************************************************************)
(* What the README says of the scheduler: it skips overlapping ticks for   *)
(* the same symbol.                                                        *)
(***************************************************************************)
NoOverlappingTicks ==
    \A s \in Symbols : \A a, b \in ChainsAt(s, {"ticking"}) : a = b

\* The market is open from a reopening to the next closing, round the week.
MarketOpen(t) ==
    \/ weekend.close = weekend.reopen
    \/ (BrokerTime(t, BrokerOffset) - weekend.reopen) % Week
         < (weekend.close - weekend.reopen) % Week

\* How far an offset leaves the broker's clock behind, round the week.
Behind(o) == (BrokerOffset - o) % Week

\* The length of the weekend.
ClosedLength == (weekend.reopen - weekend.close) % Week

(***************************************************************************)
(* While the market is open no symbol waits longer than for the next       *)
(* candle to settle, unless its timer was armed by a clock that was        *)
(* behind; and then no longer than the clock was behind, nor than one      *)
(* weekend.  So the weekend sleep ends with the weekend when the offset    *)
(* was right, and a stale tick's oversleep is bounded by its age.          *)
(***************************************************************************)
NoOversleep ==
    MarketOpen(now) =>
        \A c \in Chains :
            chains[c].at = "armed" =>
                \/ chains[c].left <= Interval + Buffer
                \/ /\ chains[c].left <= Behind(chains[c].clock) + Buffer
                   /\ chains[c].left <= ClosedLength + Buffer

\* From some time on, only the symbol's own ticks measure the broker's clock.
OnlyOwnTicksMeasure(s) == <>[][ChainsAt(s, {"ticking"}) # {}]_offset

(***************************************************************************)
(* A subscribed symbol keeps ticking, week after week, until its           *)
(* subscribers leave: whatever offset is left behind, a sleep ends and a   *)
(* tick corrects it, unless others go on to put the clock back into the    *)
(* weekend whenever the symbol's timer fires.                              *)
(***************************************************************************)
KeepsTicking ==
    \A s \in Symbols :
        OnlyOwnTicksMeasure(s) =>
            (Scheduled(s) ~> (ChainsAt(s, {"ticking"}) # {} \/ ~Scheduled(s)))
==============================================================================
