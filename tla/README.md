# Quote signal engine: TLA+ models and proofs

A verification project for the trading signal engine in `src/`. The modules
model its control (what is decided, in which order, what survives a restart);
TLC checks them on small instances; TLAPS proves, for every value of the constants,
most of the invariants that TLC checks and the safety of the refinement.

    tlc -workers 4 -config EnginePositions.cfg MCSignalEngine
    tlapm SignalEngineProofs.tla

## The system

One engine process per broker. A scheduler wakes every symbol at each candle
close; the tick of a symbol first re-evaluates the symbol's open signals, then
scans its timeframe pairs for new ones. A session coordinator decides whether a
setup may be emitted; a store keeps open and closed signals over restarts. A
manager runs several engines, merges their signals and serves clients.

| component | state | operations | interacts with |
|---|---|---|---|
| scheduler (`interfaces/scheduler.py`) | `_schedules`: per symbol subscribers, timer, `is_running` | subscribe, unsubscribe, remove_symbols, shutdown, `_run`, `_on_done` | timer threads under one lock; hands a coroutine to the engine's event loop |
| orchestrator (`interfaces/cli/main.py`) | services | start, stop, `_on_candle_close` | called by the scheduler; calls the signal service |
| signal service (`app/services/signal_service.py`) | `_watchlist`, `_pending_emitted` | initialize, update_watchlist, analyze, query_signal_status | event loop, suspended at each candle fetch; coordinator, store, gateway |
| lifecycle policy (`app/engine/market_replay.py`) | none (steps one signal) | step_signal_state, replay_signal_lifecycle | shared by live, query and backtest |
| dedup rules (`domain/signals/dedup.py`) | zone counts, rejection keys, direction locks | replay, register, release_direction, should_emit | owned by the coordinator |
| session coordinator (`app/session/coordinator.py`) | `_state`, `_history`, `_session_day`, `_paused_until` | should_emit, register, record_outcome, rollover, rebuild | shared by all ticks |
| stores (`infrastructure/persistence`) | tables open_signals and closed_signals, a JSON file per day | upsert_open, delete_open, insert_closed, loads | each failure is logged and swallowed by its caller |
| backtester (`app/backtesting/backtest.py`) | a walk over history | `_simulate`, scan loop, accounting | uses the lifecycle policy and the dedup rules |
| market algorithms (`domain/market`, `domain/signals/entry.py`, `builder.py`) | none | swings, structure, rejection, entry, levels | called by a scan, live and in the backtest |
| market data client (`infrastructure/data_providers/market_data.py`) | resolved names, broker clock offsets | connect, now_ms, get_tick, get_candles, get_candles_range | worker threads, one per call; the MT5 terminal |
| settings and profiles (`config/settings.py`, `domain/assets/profiles.py`) | one configuration | merge, parse, validate, `AssetRegistry.get` | read by everything |
| reports (`summarize_result.py`, `streak_analysis.py`, `BacktestReport`) | none (reads a results file) | statistics of a list of trades | - |
| consensus and router (`manager/src/core/consensus.py`, `core/router.py`) | `_pending` | push, drain_expired, on_signal | called by the engines' events; broadcasts through the gateway |
| gateway (`manager/src/server/gateway_server.py`) | `_clients` with their subscriptions | handler, subscribe, broadcast, stop | a task per broadcast, a handler per connection |
| pipeline manager (`manager/src/core/pipeline.py`) | `_entries` | start, `_supervise`, restart, stop | a supervisor task per engine, all on one loop |
| metrics, traces, logs | counters | printing | - |

What is hard here: the ticks of all symbols interleave at every await on one
event loop and share the coordinator; the process can die between any two store
writes; live tracking walks the same candles again on each tick from a status
that has moved on; the session day comes from candle times, not from a clock;
timers, cancels and running ticks cross in the scheduler. In the manager a
broadcast is suspended in every send while connections come and go, a second
broker's report races the drain of the first, and supervisors are cancelled,
awaited and started again on a loop they share. The market client guesses the
broker's clock from the last tick. The backtest takes its locks from candles it
has not reached. `PROJECT.json` lists these hazards line by line with the
properties aimed at them.

What makes each part correct: a symbol never holds two positions in one
direction; a lock lives exactly as long as its signal; a restart brings back
what was there; a candle or a zone does not fire again; the loss breaker holds;
a trade that is closed has the outcome its candles gave it; a scheduled symbol
keeps ticking and does not tick twice at a time; a report goes out once, with the
second broker's or alone, and reaches every subscriber; a broker has one engine,
which comes up again after a failure; a timestamp is UTC; a setting is the most
specific one the documents give; and the reports on one list of trades agree.

## Modules

| module | models | state and actions |
|---|---|---|
| `Lifecycle` | step_signal_state | operators only: one candle applied to one trade |
| `LiveTracking` | update_watchlist for one signal, with query_signal_status and the backtest's replay beside it | `candles`, `trade`; `CandleCloses`, `UpdateWatchlist` |
| `Dedup` | DedupState and rules A, B, D, E | operators only |
| `Session` | the loss streak, the pause, the order closed rows come back in | operators only |
| `SignalEngine` | one engine process: ticks, event loop, coordinator, stores, crash and restart (extends the three above) | below |
| `Scheduler` | SignalScheduler with its timers, threads and ticks | below |
| `Agreement` | what the consensus engine promises, abstractly | `waiting`, `out`, `closed`; `Report`, `Confirm`, `Alone`, `Pass`, `Close` |
| `Gateway` | clients, subscriptions, broadcasts as suspended tasks | below |
| `Delivery` | consensus engine, router, drain loop and shutdown, composed with `Gateway`; shown to implement `Agreement` | below |
| `Pipeline` | PipelineManager and what its engines share | below |
| `Structure`, `Setups` | pivots, breaks, bias, zones, displacement; the CRT rejection, session filter, builder | operators over integer prices |
| `Report` | account simulation, risk sweep, dashboard and streak statistics | operators over the rows of a results file |
| `Backtest` | MultiPairBacktester bar by bar, then its report (extends `Setups`, `Lifecycle`, `Report`) | below |
| `Profiles` | Settings: merge, tables by symbol and timeframe, validation; the asset registry | operators over documents |
| `Market` | MarketDataClient on a terminal and a broker's clock (extends `Profiles`) | below |
| `SignalEngineProofs` | theorems of `SignalEngine`: positions and locks; what the tables remember | - |
| `SchedulerProofs`, `PipelineProofs`, `LiveTrackingProofs` | theorems of the module they are named after | - |
| `DeliveryProofs` | theorems of `Delivery` and `Gateway`, and the refinement of `Agreement` | - |
| `MarketProofs` | theorems of `Market` and `Profiles` | - |
| `BacktestProofs` | theorems of `Backtest`, with `Structure`, `Setups` and `Report` | - |
| `IterationProofs` | lemmas: induction over an interval, and what a loop computes | - |
| `MC*` | values for TLC | - |

### Abstractions

*Prices* are kept as the order the code compares: a candle is the farthest level
each extreme touches (against the trade: none, entry, stop; with it: none, TP1,
TP2). Entry lies between stop and TP1, TP1 between entry and TP2, which is what
`build_signal` constructs. LONG and SHORT are mirror images. `realized_rr` is
named by the formula that computes it.

*Time* is counted in candles of the fastest LTF in the engine and in schedule
units in the scheduler.

*The market* is the environment. In `LiveTracking` a concrete candle sequence is
kept, so that the three replays see the same one. In `SignalEngine` each tick's
walk of a signal is any walk some candles could cause (`Walks`), and a scan finds
any rejection the timing rules admit (`Candidates`). Two ticks may therefore see
histories that contradict each other: this is more behaviour than the code has,
so the invariants shown hold for the code too.

### SignalEngine and the code

A tick is suspended where the code awaits a fetch; between two awaits it owns the
event loop. An action is such a segment, or the piece of one between two writes
to the store; `loop` says which piece comes next, and other ticks can only move
when it is `free`.

| action | code |
|---|---|
| `BeginTick`, `FinishWatch` | `_on_candle_close`, the grouping in update_watchlist, the start of analyze |
| `FetchGroup`, `FetchGroupFails` | the fetch of an LTF group returns or raises |
| `KeepOpen`, `CloseSignal` | `_evaluate_signal` over the candles; `_close_signal` up to delete_open |
| `RecordOutcome` | record_outcome: lock release, history, insert_closed |
| `AppendRecord` | the rest of it: the session JSON, the streak; then the close event |
| `ScanQuiet`, `ScanBlocked`, `ScanEmits` | `_analyze_pair` after its fetches: nothing found, blocked at the gate, emitted |
| `Announce` | SIGNAL_TRIGGERED to the listeners |
| `Crash`, `Restart` | the process dies; the coordinator's constructor and initialize |

`StoreFaults` names the store operations that may fail in a run, `CrashPoints`
the places in a segment where the process may die. `announced` and `ledger` are
history variables of the properties; no action reads them.

### Scheduler and the code

A chain is one line of scheduling: a timer (`armed`), then its thread waiting for
the lock (`woken`), then the tick it handed over (`ticking`), then again a timer.
Timers carry the symbol, not the schedule, as `threading.Timer(..., args=(symbol,))`
does. `Subscribe`, `Unsubscribe`, `RemoveSymbols`, `Shutdown` are the calls;
`RunSkips`, `RunSleeps`, `RunTicks` the three ways through `_run`; `OnDone` the
callback. The clock goes round the week; `weekend` is the broker's closing and
`BrokerOffset` the broker's clock. `MaxCalls` bounds the API calls per unit of
time, so that time passes.

`offset` is what `_broker_seconds_of_week` reads, `settings.broker_time_offset_ms`:
every call of the market client overwrites it from the last tick of the symbol it was
made for (`Measure`), and a stale tick puts the clock behind by its age. At Monday's
reopening (config.example.yaml:17-23) a symbol whose last tick is Friday's puts the
broker's clock at Saturday 00:00, and a symbol rescheduled then sleeps the weekend once
more. `NoOversleep` therefore allows a sleep as long as the measured clock was behind, but
no longer than a weekend; `chains[c].clock` is a history variable that remembers which
offset a sleeping timer was armed by.

### Delivery, Gateway and the code

Everything in the manager runs on one event loop, so an action is what happens
between two awaits.

| action | code |
|---|---|
| `PushFirst`, `PushDuplicate`, `PushSecond` | the three ways through `ConsensusEngine.push`, and on_signal's broadcast |
| `Drain` | a round of `_drain_loop`: drain_expired, one broadcast per expired signal, oldest first |
| `EngineEvent` | any other event, to every client |
| `Connect`, `Subscribe`, `Unsubscribe`, `HandlerEnds`, `HandlerFails` | the connection handler |
| `Run` | a broadcast task: the copy of the clients, a send, the wait for a slow peer, the removal of the dead ones |
| `Disconnect` | the peer goes away (environment), or the closing server closes it |
| `Stop`, `ServerClosed` | the end of bootstrap's run |

The key of a setup leaves out the timeframe pair, as `_key` does. The third
broker's report of a setup starts a new entry and goes out alone; that is what the
code does and `Agreement` allows it. `websockets` is external: a send writes and
may then wait, a broken connection raises.

`ImplementsAgreement` is the refinement. `waiting` is the set of brokers of a
pending entry, `out` what was broadcast so far, in order; buffer, window, drain
period, clients and subscriptions are gone. An event that is no signal passes through
(`Pass`). The abstract fairness (a report that
waits goes out) is part of what is checked.

### Pipeline and the code

A supervisor is at one of its awaits: `new` (created, not yet run), `starting` (in
`engine.start`), `running` (in the wait for its cancellation), `unwinding` (awaiting
the metrics task it cancelled), `backoff`, `done`. A cancellation is noted by the
canceller and acts when the supervisor next runs. `mt5` and `store` are what the
engines of one process share: MT5 has one connection per process, and the signal
store keeps one SQLite connection per thread.

Three restrictions of the properties say something about the code. `raced` holds the
brokers for which a restart was called during another restart or during the stop:
both calls then await the same cancelled task and each creates a supervisor, so a
broker can have two engines, and an engine can outlive the stop. And
`AloneIsIsolated` speaks of one source only: with two, the second engine's connect
moves the first to the other terminal, and both write to the file that was opened
first. And `StopIsClean` allows MT5 to stay connected when `stranded` is set: the
constructor of an engine connects (main.py:58, although the comment above it says
otherwise) and then opens the store (main.py:65); if that raises, the failure is outside
the try of `_run_engine`, nobody calls `stop` on the engine, and a manager stopped before
the next attempt leaves the connection (`FailsConnected`). `FailsUnconnected` is a failure
before that point.

### Structure, Setups, Backtest and the code

Prices are integers, ratios thousandths, and the intervals of a pair are counted in
master candles. `Bar` is one turn of run()'s loop: every pair in order, the HTF window
and zones with their cache, entry, dedup rules, builder, simulation of the whole
future at once, and the direction lock until the simulated close. `ReportRun` hands
the trades to the report, and `ReadRow` builds a results file row by row.

A trade is in the market (`InMarket`) until a candle of its LTF that takes it out has
closed. The lock is dropped when that candle opens, so with an LTF slower than the master
interval the next trade may be entered beside it; `OverlapIsShort` bounds the overlap by
that candle, and says that there is none where the LTF is the master's.

Each report reads a file in an order of its own: the run and the file in the order traded,
the dashboard by pair in file order (`GroupRows`), with each group's saved balances
(`GroupBalances`), the streak analysis by close date (`StreakFrame`). `CurvesAgree` states
what holds whatever the orders are, as bounds, and equality for one pair whose trades
closed in order.

The mitigation rules of the streak analysis claim that "decisions use only trades CLOSED
before each new entry" (streak_analysis.py:354-356). Line 374 tests `close_dt <= now`, and
`close_dt` is the open of the closing candle, so an entry made while that candle runs already
counts its outcome. `MitigationIsCausal` excepts these entries; for all others it says
that exactly the closed trades are seen.

The scan was compared with the program before the third pair joined the instance:
`MultiPairBacktester`, with numpy, dotenv and MetaTrader5 replaced by stubs, ran on the
charts and settings of `MCBacktest` (4,650 runs, 3,021 trades), and every trade was the
model's.

Kept as the code has it: a trailing WIN_FULL books the full ratio; a results file
stops at the trade that blew the account; the R drawdown starts its peak at the
first point and not at zero; `rr_buckets` counts everything between -1 and 1 except
0 under "1-2"; `_ms_cache` is keyed by the HTF alone, so two pairs of one HTF with
different lookbacks would share a window (the instance gives each HTF one).

### Market, Profiles and the code

Each call of the client reads the tick, for the offset, and then the tick or the
candles; the market moves in between. `ReadTick`, `ReadOffset` and `ReadNoTick` are the
first read, `AnswerTime`, `AnswerCandles` and `NoRates` the second. `Quote` and `Lose` are
the terminal's ticks, `Pass` is time, and the broker's clock changes once, at `shift`.
An answer records the tick its offset came from, so that `ClockTrue` can ask for truth
only when that tick was less than half an hour old: an older one shifts the clock
by the hours it is old, as in an engine that starts on a weekend.

`Profiles` has the merge of two documents, the two tables with their wildcards, what
`__post_init__` refuses, and `AssetRegistry.get`. The fields shown are the ratio, trade
management and lookback; the rest are copied by the same `_get`. Four properties of the
code appear as exceptions in `ProfilesResolve`: a trigger outside 0 to 100 is refused in
the plain settings and passes in an override; a ratio that is not positive is refused in
the table and passes as the plain `min_rr`; of a symbol spelled twice (`XAUUSD`,
`XAU/USD`) the later row replaces the earlier one (`SpelledOnce`); and a symbol outside
`ASSET_CLASS_MAP` is looked up with its slash, under which no parsed table has it, so
the property speaks of symbols the registry normalizes to the tables' spelling. The
plain `settings.max_rr` never takes effect, since every asset class sets its own.

## Runs

| run | result | shows |
|---|---|---|
| `live_tracking` | pass, 74,837 states | TP1 announced once; no LOSS after the stop moved; every close is priced; live equals query and backtest where they can be equal |
| `engine_positions` | pass, 681,765 states | one symbol, two pairs on one lock and the opposite direction, a crash at every point |
| `engine_session` | pass, 1,577,212 states | two symbols share the session over midnight and restarts; SQLite reads may fail, and the process may die between the two copies of a close |
| `scheduler` | pass, 298,587 states | calls, timers and ticks of a symbol with two subscribers, three kinds of closing, offsets measured from stale ticks; liveness |
| `delivery` | pass, 79,225 states | reports of three brokers through consensus and gateway to clients that stall, leave and resubscribe; refinement, liveness |
| `pipeline` | pass, 118,763 states | one or two sources with failures, back-off, restarts and the stop in every order; liveness |
| `backtest` | pass, 62,146 states | the loop over small charts, and the reports over every short results file |
| `market` | pass, 99,651 states | calls between ticks that stall and a clock that changes; profiles over every filling of the tables |
| `live_query_parity` | violation | finding 1 |
| `engine_zone_lifetime` | violation | finding 2 |
| `engine_pause` | violation | finding 3 |
| `scheduler_overlap` | violation | finding 4 |

`live_tracking`: `Tp1AnnouncedOnce`, `NoLossAfterTp1`, `ClosedTradeIsPriced`;
`LiveMatchesQuery` (without the breakeven stop the repeated walk changes nothing)
and `WinsAndLossesMatchQuery` (with it, a win or loss is still the query's, to
the candle); `LiveMatchesBacktest` (without the breakeven stop, and when the candle at
triggered_at, which only the backtest sees, touches nothing).

`engine_positions`: `OneOpenPerDirection` (rule B), `LocksMatchWatchlist` (no lock
outlives its signal and none is missing), `StoreTracksWatchlist` (a restart brings
back what was watched, in the status it had), `RejectionFiresOnce` (rule E over a
crash between the write and the announcement).

`engine_session`: `ZoneLimit` (rule A over rollovers and restarts, apart from
signals that expired while the process was down), `AnnouncedIsOnRecord`,
`SessionPauseHolds` (the breaker within a session, restarts and unreadable SQLite
included). Where SQLite may be unreadable the property counts a loss once it is in the JSON
file too: record_outcome writes the one and then the other, and a process that dies in
between leaves the file a loss short (`DurableLosses`).

`scheduler`: `ChainAlive` (a scheduled symbol is never orphaned), `OneTickPerSymbol`,
`NoOversleep` (the weekend sleep ends with the weekend, or as late as the clock it was
measured by was behind), `KeepsTicking`.

`delivery`: `ReportsCountOnce` (no report is in two signals, or in one that went out
and one that waits), `OpenStaysRegistered` (broadcasts that find dead clients remove
no living one), `ImplementsAgreement`, `SubscriberReceives` (a subscriber gets its
signal past slow and dead clients), `StopEnds` (no client and no task is left).

`pipeline`: `OneEngine`, `HealthIsTrue` (get_stats against what the supervisor does),
`StopIsClean` (no supervisor, and no connection but one left by a failed constructor),
`AloneIsIsolated`, `EngineComesUp` (after every failure and restart),
`StopEnds`.

`backtest`: `SettledBreaks` (a break of structure with its pivot bars behind it is never
withdrawn and none appears before it: the scan does not repaint), `LevelsOrdered` (for
any live quote), `OverlapIsShort` (locks taken from the future free a direction early by
less than one candle), `TrailingKeepsLosses` (the giveback trail against the plain
replay), `RiskSweepSound` (an account stops at its first breach and at no other trade),
`CurvesAgree` (the drawdowns in R and in money and the losing streaks of three tools,
each in its own order), `ReportsAgree` (no table loses a trade or an R; over the levels
swept a larger risk never survives longer), `MitigationIsCausal` (the rules of the
streak analysis, replayed with a heap, see exactly the trades closed by the entry, but
for entries within an earlier trade's closing candle).

`market`: `ClockTrue`, `ProfilesResolve`.

### Bounds, and why they are enough

- `MaxCandles` 4 with expiry 3: TP1, a touch of entry before and after it, a tick
  between any two candles, and an expiry from either open status.
- `MaxTime` 4 with expiry 2: a signal is emitted, hits TP1, closes or expires, and
  its direction fires again. `DayLength` 2 in the session run gives three days.
- Two pairs (one symbol) are what a direction lock needs to be contended, two
  symbols what the session needs to be seen from two sides of midnight. A third
  adds no kind of conflict: every rule relates two signals.
- `MaxConsecutiveLosses` 1, so that the breaker trips within the horizon.
- Scheduler: three chains are a tick, a leftover thread and a timer of one symbol,
  the most that can cross; a week of 6 with ticks of 2 and a buffer of 1; two
  calls a unit of time. One symbol: symbols share the lock and `offset`, and `Measure`
  stands for the ticks of any other. Of its three offsets one is right, one three units
  behind, which is more than the shorter closing, and one two ahead.
- `engine_session` leaves the crash point `record` out. `_close_signal` deletes the
  open row before it inserts the closed one, and a process that dies in between
  leaves no trace of the signal: with that point `AnnouncedIsOnRecord` and
  `ZoneLimit` fail. It has the other four, `append` between the two copies of
  record_outcome included; `engine_positions` has all five, with a pause of 1.
- `delivery`: `MCLimits` gives bounds that go together. Three reports without clients
  let a third broker and a second pair meet every entry; one signal and an event for
  two clients let a broadcast stall on the first and serve the second; two signals
  for one client let broadcasts overtake. The window and the drain period are one
  unit, and the drain loop may be late by any time. The run ends at its bounds, so
  deadlock is not checked; nor in the three runs below.
- `pipeline`: two sources share the process, two restarts can overlap, and two
  failures reach the cap of the back-off.
- `backtest`: charts of 8 to 16 candles that begin with a move which leaves a supply or
  a demand zone, and every continuation with five candle shapes, one of them leading to
  two trades whose candles overlap; three pairs, one of them slower in both intervals and
  one in the HTF only; three settings
  (breakeven, trend, displacement and giveback on and off); files of up to four rows of two
  pairs, with holding times of 1, 2, 3 and 5, so that trades close out of order and at the
  moment of another's entry.
- `market`: six quarters of an hour with a change of the clock by an hour in either
  direction, zones of 2 and 3 hours ahead and 3 behind, an alias; the tables with every
  subset of the four places in both documents.
- No run lets operations on the open table fail. If delete_open fails the closed
  signal comes back after a restart, possibly beside a newer one in its direction.

### Fairness

`Scheduler!FairSpec`, for `KeepsTicking`: the clock advances, a
due timer fires, its thread gets the lock (weak fairness: the lock is held for a few
statements), and a tick ends and runs its callback. The last one is an assumption
about the coroutine: a fetch that never returns would leave `is_running` set for
good, and nothing in the scheduler times it out. Calls and measurements are not fair.
`KeepsTicking` has the premise `OnlyOwnTicksMeasure`: from some time on no other symbol's
stale tick puts the clock back, since one that does so whenever the timer fires would keep
the symbol asleep for ever.

`Delivery!FairSpec`: time passes and the drain loop runs while the manager is up; a
broadcast task goes on, because its peer reads or the server's keepalive closes the
connection; a closed connection ends its handler; a closing server closes every
connection. Reports, events, clients and the stop are not fair.

`Pipeline!FairSpec`: the loop runs every supervisor that is ready, sleeps end, an
awaited restart resumes, stop returns once its supervisors have ended. A failure is
not excluded by fairness but by its bound: `EngineComesUp` holds when an engine fails
finitely often. Restarts and the stop are not fair.

The other specifications assume no fairness.

## Findings

Four statements of the repository that the code does not meet, each a run whose
trace shows it:

1. `signal_service.py:14`, live and query "share identical behavior". Each tick
   walks all candles again from the persisted status. With the breakeven stop, the
   candle that hit TP1 is walked a second time against the moved stop and, if it
   also touched entry, closes the signal as BREAKEVEN; the query reports TP1_HIT.
2. `coordinator.py:298`, max_signal_count "applies to the zone lifetime". A signal
   that expires while the process is down is skipped at restart and never closed;
   only closed rows are replayed, so its zone counts from zero.
3. `dedup.py:17`, "After MAX_CONSECUTIVE_LOSSES → pause for PAUSE_HOURS". The
   rollover at midnight clears the pause and loads only the new day.
4. `README.md:236`, "The scheduler skips overlapping ticks for the same symbol".
   `is_running` goes with the schedule: unsubscribe and subscribe under a running
   tick starts a second one. The engine itself never unsubscribes.

## Proofs

A theorem holds for every value of the constants that satisfies the named
assumptions: any number of symbols, brokers, clients and candles, where a run has two
or three. Each proof has an inductive invariant, which also holds on the run's
instance (checked with TLC), one lemma per action that disturbs it, and a last step by PTL.

### The engine (`SignalEngineProofs`)

| theorem | property | the store operations that may not fail, and what else |
|---|---|---|
| `TypeCorrect` | `TypeOK` | - |
| `OnePositionPerDirection`, `LocksAreThoseOfTheWatchlist` | `OneOpenPerDirection`, `LocksMatchWatchlist` | upsert, delete and load of the open table (`RowsReliable`) |
| `RowsAreTheWatchlist` | `StoreTracksWatchlist` | the same (`OpenTableReliable`) |
| `NoRejectionFiresTwice` | `RejectionFiresOnce` | upsert and load of the open table; `LagIsShort` |
| `NoAnnouncedSignalIsLost` | `AnnouncedIsOnRecord` | both tables (`StoreReliable`); `LagBeforeExpiry`; no crash point `record` |
| `NoZoneExceedsItsLimit` | `ZoneLimit` | the same |
| `SessionPauseIsKept` | `SessionPauseHolds` | both tables; `LagBeforeExpiry` |

In `SessionPauseIsKept` both copies of the session may fail: the property itself speaks
of the losses that every copy a restart may read holds. Every other operation may fail
at every call, and the process may die at every crash point. `LagIsShort` says that a
setup becomes too old to be emitted before it expires (`LagBeforeExpiry`) and before the
second candle after it closes; the code drops a rejection after two LTF intervals and
expires a signal after hours. A crash at `record` loses the signal on its way from one
table to the other (see Bounds), so it is excluded where the property is about that.

`OneOpenPerDirection` and `LocksMatchWatchlist` are not inductive: after a crash the
watchlist is what the rows say. `PositionsInv` adds

- `RowsOneOpen`: of the rows a restart would restore no two share a direction;
- `RowsAreWatched`: while the process runs such a row has its signal in the
  watchlist, so a lock that is free is free in the rows too and an emission keeps
  `RowsOneOpen`;
- `ClosingIsGone`: inside `_close_signal` no watched signal has the direction about
  to be released, so releasing it takes no one else's lock;
- `TodoIsWatched`: the signals left to evaluate are watched, so each update
  replaces a signal and never adds one;
- `DownIsEmpty`: a stopped process holds nothing.

The theorems about the tables build on it. `RowsInv`: an id names one row. `FreshInv`: a
signal young enough to be found again has its row (for a restart) and its rejection key
(for rule E). `PlacesInv`: no id is open, closed or being recorded at once, since INSERT
OR IGNORE would otherwise drop an outcome, and rule E knows every rejection on record.
`CountsAreTrue`: the count of a zone is the number of setups a restart would count.
`SessionInv`: the closed table is the ledger, each outcome once; the JSON file of a day
holds no other outcome; the history is the session's and holds at least what the file
holds; a record between its two writes is in it; a pause that is due is set.

### The scheduler (`SchedulerProofs`)

`TypeCorrect` (no computed delay is negative), `ScheduledSymbolsAreServed`
(`ChainAlive`), `TicksDoNotOverlap` (`OneTickPerSymbol`), `SleepEndsWithTheWeekend`
(`NoOversleep`): for any symbols, callers and chains, any closing, interval and buffer,
and any offsets measured in any order. `ChainsInv` adds `TimerIsOwn` (the timer a
schedule would cancel is armed for its own symbol, so a cancel kills no one else's) and
`TickIsKnown` (a tick not dropped under a cancel is known by `is_running`).
`SleepIsBounded` says of a timer what `NoOversleep` needs at every later moment: it ends
within one candle and the buffer, or no later than a sleep that was computed now by the
offset it was armed by. A sleep shrinks with time (`SleepShrinks`), and while the market
is open by the true clock it is no longer than that offset is behind.

### The manager (`PipelineProofs`, `DeliveryProofs`)

`OneEnginePerBroker`, `HealthTellsTheTruth`, `StopLeavesNothing`, `AloneStaysIsolated`:
the four invariants of `pipeline`, for any sources and any failures and restarts.
`PipelineInv` says that of a broker's supervisors outside `raced` all but the one its
entry names have ended, that a restart waits for that one and is alone, that the health
of an entry follows its supervisor's stage, that after the stop only gathered
supervisors live, and that the terminal is connected on behalf of an engine that
exists or was left so by a constructor (`stranded`).

`NoReportCountsTwice` (`ReportsCountOnce`), `OpenClientsAreServed` (`OpenStaysRegistered`)
and `ConsensusImplementsAgreement`. `DeliveryInv` says that ids are given once and that a
broadcast holds as dead only clients that are closed, so that one which removes its
dead removes no open one; and that the buffer has one entry of a setup, so that what
leaves it goes out once. The refinement theorem is `Spec => Agreed!Safety`, the safety of
`ImplementsAgreement`: the initial state maps to the initial state, and each way through
push, each round of the drain, each step of the gateway and of the shutdown maps to a
step of `Agreement` or to a stutter. Its fairness is left to TLC.

### One signal (`LiveTrackingProofs`)

`TypeCorrect` and the six invariants of `live_tracking`, for any number of candles, any
expiry and any ticks. `TrackingInv` says what a trade can be (new, at TP1, or closed
with the price of its outcome), that it is what a single walk of the candles gives or,
with the breakeven stop, closed at breakeven, and that TP1 announced means TP1 passed.
The argument compares two walks of one history: candles that left the trade open leave a
trade at TP1 as it is, unless the stop was moved to entry, and then they can only close
it at breakeven.

### Market data and profiles (`MarketProofs`)

`ConvertedTimesAreTrue` (`ClockTrue`): for any whole-hour clocks, any change of the clock
and any interleaving of ticks and calls. `ClockInv` says what a call holds between its two
reads: the offset of a candle call is the one of the tick it was taken from, which had
come by then. The rest is arithmetic: the nearest whole hour is at most half an hour
away (`RoundIsNear`), and an offset seen less than half an hour late is rounded to what it
is (`RoundIsExact`).

`ProfilesFollowTheDocuments` (`ProfilesResolve`): for any two documents. A table that is
merged and parsed says at each place what the documents say there, the broker's first
(`EntryIsSaid`), and the first candidate that gives a name is the most specific place that
does (`FirstIsHeaviest`).

### The backtester (`BacktestProofs`)

| theorem | property | for every |
|---|---|---|
| `SettledBreaksStay` | `SettledBreaks` | chart, pair, lookback and number of pivot bars |
| `LevelsAreOrdered` | `LevelsOrdered` | quote, rejection and profile the settings admit |
| `OverlapsAreShort` | `OverlapIsShort` | chart, list of pairs, settings and limits, with and without the trail |
| `TrailingKeepsItsLosses` | `TrailingKeepsLosses` | trade of every run |
| `RiskSweepIsSound` | `RiskSweepSound` | list of trades, level and kill conditions |
| `CurvesAlwaysAgree` | `CurvesAgree` | list of trades of a run or a file, and account |

*The scan.* `ScanIsSound` is the inductive invariant, of a run that takes trades one
zone after the other, pair by pair, bar by bar. A lock is set when a trade is taken,
from a simulation over candles that have not come yet, and dropped when its time is
over; what has to hold is that of two trades of a lock the first is over, when it is
simulated over the candles that have closed by then, once its closing candle has ended.
`ScanInv` keeps of each trade (`Trades`) that it is a sound signal whose close is the
one the simulation found, that its rejection is among `seen_rej`, that its lock is still
there or has served its time (`Held`), and that of two trades under one lock the earlier
was over when the later was taken (`Apart`); and that the counts of the zones are the
numbers of their trades (`Counted`). The step from `Apart` to the property is
`SimulateResult`: a close that has happened by a moment is found from the candles up to
that moment alone, for the trail and for the replay.

*The trail* is run beside the plain replay (`BesideAlways`). At each candle both are open
with TP1 passed in both or in neither (`BothOpen`), or both are over with one outcome
(`BothOver`), or the trail is out with at least the protected R and the replay, which has
passed TP1, can no longer lose (`TrailOut`).

*The breaks.* A pivot depends on `PivotBars` candles to either side, so two windows with
the same first candles have the same pivots up to `PivotBars` before the end of the
shorter; the walks over them agree so far, and the events of the longer are those of the
shorter followed by later ones (`EventsSplit`).

*The account* that may stop is run beside the one that never does: they are equal up to
the first breach, and the first stops there (`StoppedWalk`, `StopsAtTheFirst`).

*The curves.* `IsDrawdown` says of a number that no later point of a curve lies further
below an earlier one and that one lies as far; there is one such number, and the peak
carried along the curve, the running maximum over the whole of it and the account's
books (`Ledger`) each compute it. The tools read different orders: a group's rows are
the file's with others left out, which makes no drawdown deeper (`GroupGathers`,
`GroupMoney`), and a file already in close order is left alone by the sort
(`SortedStays`). `Longest` does the same for streaks: counted trade by trade, written
down run by run, or found as the longest stretch of flags. That the tool which reads
outcomes and the tool which reads the sign of R mean the same trades is `RowsAreTrades`:
a simulated trade has a negative R if and only if it is a loss.

### Loops (`IterationProofs`)

The library's induction theorems take an operator, which the provers cannot
instantiate. `IntervalInduction` takes a set instead (one that contains 0 and is closed
under the steps contains 0..n), and `IterationExists` gives a recursive function on 0..n
its equations. With them what the loops of the code compute (`Within`, `WalkCandles`, and
the walks of `Structure`, `Backtest` and `Report`) is proved for every input: each has a
lemma with its equations, from which the others follow by `IntervalInduction`.

### Assumptions, and what is only model-checked

The assumptions on constants are `SignalExpiryAssumption`, `DedupAssumption`,
`SessionAssumption`, `EngineAssumption`, `SchedulerAssumption`, `GatewayAssumption`,
`DeliveryAssumption`, `PipelineAssumption` (the sources are distinct) and
`MarketAssumption` (clocks of whole hours; a document gives a key once, as YAML does; `*`
names no symbol and no pair): types, and non-zero lengths and limits. `BacktestAssumption`,
`SettingsAssumption`, `AccountsAssumption`, `BufferDivAssumption` and `ReportAssumption` say
what charts, profiles and accounts are: candles one after the other, percentages within
the limits Settings checks. Two conditions come from the model's integers: prices are
multiples of a hundred units and at least `BufferDiv`, so that the buffer beyond the wick
and a percentage of a distance are at least a unit, and a cap on the ratio leaves a unit to
TP1; the code has floats there. TLC evaluates the assumptions in each run whose modules
declare them.

Only model-checked: `ReportsAgree` and `MitigationIsCausal`. The tables are made with
SelectSeq, SetToSortSeq and MapThenSumSet, which are opaque to the provers, and that a
larger risk never survives longer is a fact about the levels swept: rounding to cents can
break it between levels that are close. Left to TLC for good, being liveness under
fairness: `KeepsTicking`, `SubscriberReceives`, `EngineComesUp`, both `StopEnds` and the
fairness of `ImplementsAgreement`.

## Not modelled

- Pending-zone notifications; the CSV export (write-only); the history's bound of
  500 records (out of reach in a day of the model); metrics, traces and logs, with the
  gateway's metrics loop.
- The gateway's token check and the parsing of a client's messages.
- `EngineServer` and `ProcessSupervisor`: superseded by the pipeline manager, as its
  header says, and started by no code.
- SQLite, MetaTrader, websockets and the operating system are external: an operation
  happens, waits or fails.
- Ticks that were handed to the loop before an engine stopped and go on after it.
- `max_consecutive_losses = 0`, which the code does not reject and which would index
  an empty list, is excluded by `SessionAssumption`.
- Futures cancelled together with the event loop at exit.
- Of the reports: the HTML page (most of `summarize_result.py`), the Monte-Carlo null,
  the equity filter, pattern and retrace statistics, `monthly_score`, console output
  and charts (`chart_data.py`); the grid search, a loop of backtests. A row without a
  close read from a CSV file is NaT in `_load_csv`: `StreakFrame` sorts it last, as pandas
  does, but the heap of the mitigation rules, where NaT is never popped and blocks what is
  behind it, is checked on rows with dates only.
- `nssm` is vendored.

## Plan

Done: the models of all components but those under "Not modelled", the refinement of
`Agreement`, and proofs of the safety properties of `SignalEngine`, `Scheduler`,
`LiveTracking`, `Delivery`, `Pipeline`, `Market` and `Backtest`. Left, in order:

1. `MitigationIsCausal` and the tables of `ReportsAgree`: the sort and the filter as walks
   the prover can unfold, with the heap's order beside them.
2. Pending zones in `SignalEngine`; ticks in flight when `Pipeline` stops an engine.
