# Sagittarius Elite Warrior: TLA+ models

Sagittarius Elite Warrior is a desktop program for Binance Futures. It
synchronises candles into a local database, backtests strategies over them, and
trades, by an armed strategy or by hand. What is hard in it is concurrent: pool
threads, coroutines and the main thread act on one trading session, one exchange
account, one candle store and one websocket, over network calls that are slow
and may fail. This project models those four, and the two backtest engines.

Paths below are relative to `src/src/` unless they start with `src/`.

## 1. Inventory

| Component | State it keeps | Operations | Hard because |
| --- | --- | --- | --- |
| `application/services/trading_session_state.py` | switch, order count, known open symbols, last order time per symbol, generation, two locks | `enable`, `disable`, `record_order_sent`, `reconcile_position`, `live_submission_guard` | pool workers, the strategy's tick and the account stream all write it |
| `domain/trading/policies/trading_limit_policy.py` | limits | `evaluate` | boundaries; read-then-act |
| `use_cases/trading/execute_order` | none | gate, preview, guard, limits, submit, record | the gate is read before the guard; answers get lost |
| `use_cases/trading/cancel_order` | none | gate, cancel | the order may have filled |
| `use_cases/trading/enable_trading`, `disable_trading` | none | reconcile, `enable`, stream start; `disable`, stream stop | a stop during the reconciliation |
| `use_cases/trading/emergency_stop` | none | disable, cancel all, close all, read back | every step may fail in the middle |
| `infrastructure/binance/futures_trading_client.py` | none | the account calls | lost answers, rejections |
| `infrastructure/binance/futures_user_data_stream.py` | handle, token, generation, coroutines | `start`, `stop`, `_run_stream` | calls on a pool thread, coroutines on the loop |
| `application/services/live_strategy_session.py`, `use_cases/trading/arm_strategy`, `disarm_strategy` | armed configuration, engine, coordinator | `arm`, `disarm`, `dispatch_tick` | re-arming while a candle is in flight |
| `application/services/live_trading_coordinator.py`, `strategy_engine.py` | indicator state | `handle`, `on_tick` | failures swallowed; which candles are committed |
| `infrastructure/binance/binance_websocket_service.py`, `use_cases/stream` | keys per owner, active keys, coroutine, token | `subscribe`, `release_owner`, `stop_all`, `_run_stream` | workers of two screens call it; the coroutine is replaced under them |
| `presentation/ui/screens/trading` (chart) | selected market, token, live or not | change symbol or interval, go live, load and subscribe on a worker | nothing waits for a superseded worker |
| `presentation/ui/screens/dashboard` (stream) | UI mode, form, token, one exclusive action | start, stop, change interval, load history | queued reports that name no run |
| `domain/backtesting/paper_exchange.py` with its `policies/` | balance, positions, trades | `fill`, `check_intrabar_stops`, `force_close`, `equity` | long sequences of legal calls |
| `use_cases/backtest/run_static_backtest` | pending signal, a new exchange and engine per phase | count the rows, replay two samples and the whole | order within a bar; rows counted, then read |
| `use_cases/backtest/run_historical_tick_backtest` | forming bar | replay of ticks | four ways to commit a bar, data with gaps |
| `use_cases/sync`, `in_flight_sync_guard.py`, `infrastructure/binance/client.py` | in-flight set, stream of pages | sync, bulk sync, cancel, retry | cancellation, failure or a restart between pages |
| `use_cases/database`, `infrastructure/persistence`, `backtest_range_coverage.py` | SQLite shards | coverage, gaps, repair, prune, clear, purge | check-then-act against a sync; the candle still forming |
| `presentation/ui/screens/backtest` | state machine, one owned action, cached configuration | run, cancel, sync and run again | a cancelled worker's report, chains of run and sync |
| `presentation/ui/screens/data_management` | UI mode, locked controls | sync one or all, repair, scan, prune, clear | unlocked by whichever worker ends |
| `rate_limiter.py`, other `presentation`, indicators, wiring | timers, views, floats | | |

How they interact: the screens (Trading and Dashboard, each with its own tracker
of running actions, so that both may dispatch at once) dispatch commands to a
thread pool. A websocket coroutine emits `MarketTickEvent`s which
`MarketTickEventHandler` passes to `LiveStrategySession.dispatch_tick`, which runs
the engine and hands its signal to `LiveTradingCoordinator`, which dispatches an
`ExecuteOrderCommand` like a screen does. `FuturesUserDataStream` reads account
updates and corrects `TradingSessionState` through `reconcile_position_state`.
The backtest, data management, trading and dashboard screens all download into
one store through `SyncMarketDataCommand`, kept apart per market by
`InFlightSyncGuard`; a screen's worker reports to the main thread by queued
signals. The trading chart and the dashboard share one kline websocket, each
under its own owner name.

The hazards of the code, each at its line, are in `PROJECT.json`. What makes
each part correct: orders never exceed the limits however callers interleave; a
stop wins over everything that started before it, except for the order already
past its gate; a stop's report is true; the account feed acts only while it is
started; a signal belongs to one arming from candle to order; a sync leaves no
hole and no stale price behind it; a screen is busy exactly while something will
end its being busy, and shows no result it was told to forget; the websocket
carries what the screens show as live; a backtest counts every row, bar and tick
once and its accounts balance.

## 2. Modules

| Module | Models | State and actions in the code |
| --- | --- | --- |
| `TradingLimitPolicy` | the four limits | `FailedLimits` is `evaluate` |
| `TradingSessionState` | the session record | one operator per locked method |
| `TradingAccount` | the exchange account (external) | `position`, `ledger`; what each client call does |
| `LiveTrading` | the five commands over session and account | one action per access to shared state or network call; `pc[w]` is where worker `w` stands in its handler |
| `StrategySession` | arming and the way of a candle to an order | `armed` is the engine-coordinator pair, `stage` the websocket thread |
| `AccountFeed` | abstract account feed | what `LiveTrading` assumes of the stream |
| `FuturesUserDataStream` | the stream itself | one action per statement of `start()`/`stop()`, one per await of the coroutine |
| `PaperExchange` | the simulated broker and its three policies | `cash`, `positions`, `trades`; one operator per policy method, one action per operation |
| `StaticBacktest` | one phase of a static backtest | `step` is the place in the loop of `_simulate`; the bars and signals are arbitrary |
| `TickBacktest` | the realtime engine | ticks, the bar they form and the four ways to commit it |
| `Backtests` | one backtest as the screen dispatches it | the static handler's three phases over a table that grows, or the realtime handler |
| `CandleStore` | the table of candles and the clock | which candles are stored and which of them while still forming; `SaveKlines`, gaps and the two coverage verdicts |
| `MarketDataSync` | the sync handler behind its guard, the repair handler, the exchange client | `stage[w]` is where worker `w` stands; one action per query, page, save or release |
| `ActionOwnership` | `ActionOwnershipTracker` | the owned action, by kind and id |
| `BacktestScreen` | the presenter, its state machine, its workers and their queue | one action per slot of the presenter and per stretch of a worker between shared accesses |
| `DataManagement` | the presenter, its UI mode, its workers and their queue | likewise |
| `MarketData` | both screens over one store and one guard, with restarts of the process | |
| `LiveStreamService` | the kline websocket | the registry, the coroutine in charge and those cancelled |
| `TradingChart` | the chart of the trading screen | `loading[l]` is the worker on thread `l` |
| `DashboardStream` | the live stream of the dashboard | `mode` is the UI mode, `worker` the holder of the exclusive action, `reports` the queued signals |
| `LiveCharts` | both screens over the websocket, until the process stops | |
| `MCLiveTrading`, `MCStrategySession`, `MCBacktests`, `MCMarketData`, `MCLiveCharts` | symmetry, prices, tables and configurations for TLC | |
| `*Proofs` (eight) | theorems | |

`LiveTrading` extends `TradingAccount`, which extends `TradingSessionState`, which
extends `TradingLimitPolicy`. `FuturesUserDataStream` instantiates `AccountFeed`
under a refinement mapping. `StaticBacktest` and `TickBacktest` extend
`PaperExchange`; `Backtests` extends the first and instantiates the second.
`BacktestScreen` and `DataManagement` extend `MarketDataSync`, which extends
`CandleStore`; `MarketData` extends both. `TradingChart` and `DashboardStream`
extend `LiveStreamService`; `LiveCharts` extends both.

### LiveTrading

A worker runs one handler at a time; `Return(w)` ends it and resets its locals.
A command refused at its first gate changes nothing and is no step. The checks
between the gate and the guard of an order (connection, preview, minimum
notional) either pass or end the command (`ExecuteNotReady`).
`live_submission_guard()` is the variable `guard`, held from `PassLimits` to
`RecordOrder`, `AnswerLost` or `OrderRejected`; a refusal takes and releases it in
one step. Each network call may fail before the exchange acts; `place_order` and
the calls of the emergency stop may also fail after it. The exchange fills or
expires resting orders, and closes positions (liquidation, or the user
elsewhere), at any time. The account is in one-way mode with one unit per order.
`EmergencyStop` follows the four steps with the code's own early returns: the
first symbol that cannot be cancelled ends the cancel step, the first position
that cannot be closed ends the close step, and the next step always runs.
`FullySucceeded` leaves out `trading_disabled.succeeded`, which is false only when
`stop()` of the stream raises.

While the feed runs it may notice a symbol, then read the position, then apply
what it read, with anything in between. Here an update names one symbol
(`UpdatedSymbols` bounds which); the full message is in `FuturesUserDataStream`.

The variables `disables`, `before`, `mark` and `flatSince`, and the fields `by`,
`at`, `lost` and `late` of a ledger entry, are history: no guard reads them.

### StrategySession

An arming has the generation it was made in and a market (symbol and interval).
What the engine decides, and whether sizing and the limits let an order through,
is nondeterministic: order submission is reduced to its gate (`PassGate`) and its
network call (`SendOrder`).

### FuturesUserDataStream

Message handling is synchronous, so it blocks the loop: no other coroutine moves
while one is `handling`. `handle.cancel()` is taken to raise `CancelledError` at
the await the coroutine is suspended at; it is the engine's task manager, which
is not in this repository. `start()` and `stop()` are statement by statement, one
call after the other; overlapping calls are not modelled. The refinement mapping
takes the stream as started from the moment the coroutine exists until the first
statement of `stop()`.

### PaperExchange and StaticBacktest

The program is sequential here; what is hard is the order within a bar (fill at
the open, stops over the range, decision at the close) and the accounts kept
over a long sequence of calls. Money is in integers that round down, so a few
cents that the code keeps as a fraction of a contract are lost to `pnl`; the
accounts still have to balance to the unit. A configuration is chosen at the
start and kept. The strategy may answer with any signal or none, also with one
that makes no sense for the open side, because strategies are plug-ins. A
position records the bar of its signal where the code copies the signal's reason
and metadata. The closing of several positions, a loop without an await, is one
action. The equity curve, progress and statistics are left out: nothing reads
them back. `Cancel` is asked before a bar is touched, as in the code.

### Backtests and TickBacktest

A static run counts the rows first, splits the count, and then streams the
in-sample rows, the rest and all of them by three queries with a limit and an
offset; `AppendRow` and `RewriteRows` are writes of other screens between them
(rewritten rows, by a repair or a prune, set `disturbed`). In a realtime run a
tick is a stored kline of the tick resolution; a bar is committed when its last
tick is seen, when a tick beyond it arrives, when the tick that closes it does,
or when the ticks end, and the strategy is evaluated on every tick of it. A
realtime run never looks at stops or targets (section 6).

### CandleStore and MarketDataSync

A candle is its number on the interval's grid; `now` is the one still forming. A
stored candle is remembered as `stale` if it was saved while it was forming,
until it is saved again: that is all of a price the properties tell apart. A page
is read from the exchange in one step and saved in another, so a `Tick`, a clear
or another worker's save may come in between. `BeginSync` reads the newest stored
candle after it has acquired the guard, as the handler does. A transient failure
costs one retry of the budget and resumes at the candle after the last one
yielded; any other failure, cancellation and the end of the stream each release
the guard on their own way out. A restart of the process empties everything but
the store.

### BacktestScreen, DataManagement and MarketData

Slots of a presenter run one at a time on the main thread; a worker's signal is
queued and handled later, in order. Each screen's token, tracker and mode are
read where the code reads them, so a worker may be cancelled, superseded or left
behind at any point. The engine inside a run is reduced to how it may end, since
`Backtests` has its inside. `MarketDataSync` takes the start and the cancellation
of a sync from an arbitrary environment, and `MarketData` is one such environment:
that it is, is the theorem `ProgramIsSync`.

### LiveStreamService, TradingChart, DashboardStream and LiveCharts

Every call of the service runs under its lock, so it is one step, on whichever
thread calls it. A coroutine is a number; numbers are reused once it has ended. An
`OSError` makes a coroutine connect again and changes nothing; any other
exception ends it (`Die`) and leaves handle and keys behind. A worker of a screen
takes one step per call it makes, and looks at its token right after a call, so
that between the last look and `subscribe` there is a state in which it can still
be cancelled. What the charts draw is left out.

`chartSlipped` and `boardSlipped` are history. They record that the code has just
taken one of the two courses it does not guard against, until the screen lets go
of its stream again: a worker cancelled between its last look and `subscribe`, and
a stale report that moved the mode of a newer start. `started`, `status` and the
field `stale` of a report are history too.

## 3. Runs

| Run | Question | Result |
| --- | --- | --- |
| `orders` | do the limits hold for two workers, a moving clock and the feed? | `TypeOK`, `SessionOrderCap`, `OneOrderPerFlatReading`, `OrdersSpacedOut` hold |
| `control` | what do stops promise against every other command, on two symbols? | `OneLateOrderPerStop`, `StopReportTruthful`, `NoEnableAcrossStop` hold |
| `stop_liveness` | does an emergency stop end while a submission hangs? | `StopCompletes` holds |
| `strategy_session` | does a signal keep to its arming and market? | `TypeOK`, `SignalStaysWithItsArming`, `EngineSeesItsMarketOnly`, `OneOrderAfterReplacement` hold |
| `account_stream` | does the stream implement the feed, do its coroutines end? | `TypeOK`, `ImplementsAccountFeed`, `SupersededEnds` hold |
| `backtests` | do the accounts balance, do the rules of a bar hold and is every row and tick counted once, over any signals, in either engine? | `RunsTypeOK`, `BookWithinLimits`, `AccountsBalance`, `StopsHonoured`, `FilledInTheNextBar`, `EntriesAreCovered`, `RiskPerEntryHonoured`, `SamplesMakeUpTheRun`, `TicksInTheirBars`, `EvaluatedOnce` hold |
| `market_data` | what do two screens and their workers do to one store and to each other, through errors, cancellation and restarts? | `SyncTypeOK`, `OneFetchPerMarket`, `FinalStaysFinal`, `SyncCatchesUp`, `SyncLeavesNoHole`, `GuardReleased`, `CoverageVerdictsAgree`, `OneLiveWorker`, `BusyHasOwner`, `NoResultAfterCancel`, `NoSyncLoop`, `UnlockAlwaysComes` hold |
| `live_charts` | does the shared websocket follow two screens whose workers overlap? | `StreamCarriesSubscriptions`, `SubscriptionsFollowScreens`, `LockedEnds` hold |
| `late_order` | does disabling first keep orders out? | no: `NoOrderSlipsIn` is violated |
| `stream_outlives_switch` | does the stream follow the switch? | no: `StreamFollowsSwitch` is violated |
| `closing_order_refused` | may an order close a position? | no: `ClosingOrderNotRefused` is violated |
| `forming_candle` | are indicators fed closed candles only? | no: `OnlyClosedCandles` is violated |

What the four violations show:

* **late_order.** The switch is read once, before the network calls of the gate,
  and not again under the guard. An order past the gate is accepted while an
  emergency stop cancels and closes. `OneLateOrderPerStop` is the bound that does
  hold: one order per worker and stop, and only from a command that passed the
  gate before. `StopReportTruthful` is therefore stated for a stop no order
  slipped past.
* **stream_outlives_switch.** `start()` follows `enable()` without a fence; a stop
  in between leaves the stream running with trading off.
* **closing_order_refused.** The position limit does not know `reduce_only`. With
  the default limit of one position per symbol, the order that would close the
  position is refused.
* **forming_candle.** Kline updates are not filtered on `is_closed` on the live
  path, so a forming bar is committed to the indicators several times.

### Bounds

`MaxGeneration` stops new commands (and account updates) once the session has
changed that often, but what has begun runs on. Three changes are enough for
enable, stop and enable again around one submission. `MaxLedger` is one more than
`MaxOrdersPerSession` in `orders`, so that a lost answer fits beside a full
session. `MaxTime` gives the interval one tick. Two workers suffice for every
race in the list: each is between two commands, and the feed and the exchange
move on their own. `control` has two symbols, for a step that fails between
them; its actions are one that opens and one that closes. `MaxTasks` is three
coroutines: two superseded ones and a current one. `StrategySession` has two
markets and three armings, enough to arm, re-arm and return. In `backtests` a table has up
to four rows: the first decides, the second and third open and add, the fourth
rejects, closes or stops, and three rows are the least that split into two
samples with something in each. The prices make a bar that reaches stop and target
at once, a gap beyond a stop, and levels that are exact. The four configurations
are a spot account that adds once and runs out of cash, a leveraged one sized by
risk with slippage, one sized in contracts without levels, and one that deploys
fixed cash. The grids of a realtime run are one, two or three ticks to a bar, or
ticks of two units in a bar of two, over four units of time, so that every bar may
be whole, cut off, or missing.

`market_data` has one symbol on two intervals, five workers (the backtest screen's
sync, a single sync, two targets of a bulk sync, a repair) and a clock of four
candles; the store starts with a hole ({1, 3}, of which 3 is still forming) or
with an old candle ({1}). A page is two candles and the retry budget one, so a
stream has a second page and a second failure. `MaxCommands` is three, where
syncing all markets costs three by itself: enough for an action, its
cancellation and the next. `live_charts` has two symbols on two intervals, two
threads for the chart, three coroutines alive at once and three clicks; the
safety properties were also run once with four clicks (14 million states). Deadlock is checked
in `strategy_session`; in the others the bounds end every command, or the user
may stay idle, so the runs say `CHECK_DEADLOCK FALSE`. Workers, symbols and markets are symmetric; the
symmetry is used only in runs without liveness.

### Fairness

`StopCompletes` assumes weak fairness of the steps of a stop that has begun, per
worker: a pool thread runs on, and each network call returns or raises by its own
timeout. Nothing is assumed of other commands, so a submission may hang for ever.
`SupersededEnds` assumes that a call of `stop()` runs on, that message handling
ends, and strong fairness of a coroutine that is ready to run: the loop's ready
queue is first in, first out, and another coroutine's message only delays it. No
fairness is assumed of `recv()`, which may wait for ever. That is why cancelling the
handle matters.

`GuardReleased` assumes that each worker's download runs on: the client's calls
return or raise, and its retries are bounded. `LockedEnds` assumes that the main
thread takes its signals, that the calls of the dashboard's worker return, and
that a cancelled coroutine ends; the last one is only there because a bound of
three coroutines would otherwise keep the worker from subscribing. It does not
assume that the user clicks.

## 4. Theorems

Each is proved by TLAPS for any constants that satisfy the named assumptions.

* `LiveTradingProofs`: `TypeCorrect`, `EnableNeverCrossesStop`,
  `OneLateOrderPerStopHolds`, `StopReportTruthfulHolds`, `SessionCapHolds`,
  `OneOrderPerFlatReadingHolds` (assumes `MaxPositionsPerSymbol <= 1`, since the count
  is never above one) and `OrdersSpacedOutHolds`. `EnableNeverCrossesStop` rests on an invariant relating
  a generation read earlier to the number of disables since.
  `OneLateOrderPerStopHolds` rests on the fact that a worker's late orders carry
  disable counts no later than the present one, and that a command which began
  while trading was on has not been late for any disable before it.
  `StopReportTruthfulHolds` needs `StopInv`: a stop that has failed in nothing, with no
  order accepted since it turned trading off, has in its lists all that is left to
  do. While it cancels, every symbol with a resting order is still to be cancelled;
  after that nothing rests, so nothing can be opened, and while it closes, every
  open position is on its list with at least the amount that is open. Fills,
  expiries and liquidations only shrink both.
  The last three are not inductive: between acceptance and `record_order_sent` the
  ledger is one order ahead of the session. `SubmissionInv` says that only the
  holder of the guard is in that section, that it still satisfies the limits it was
  checked against, and that everything else in the ledger is already recorded.
* `StrategySessionProofs`: types, `SignalStaysWithItsArmingHolds`,
  `EngineSeesItsMarketOnlyHolds` and `OneOrderAfterReplacementHolds`. The argument is
  that armings are numbered by the generation, so one that was replaced never
  comes back, and a snapshot is only taken of what is armed.
* `PaperExchangeProofs`: what each operation of the broker keeps, for both engines.
  Its predicate `Account` says that positions and trades are finite sets of records
  with integers in them, that a position is named by the bar it was opened in, and
  that the money adds up. The sums of the model are folds of the library over a
  set in the order of `CHOOSE`. That adding or removing an element changes such a
  sum by its value, whatever the order, would be an induction over finite sets; it is
  proved from a smallest counterexample instead, which `FS_StrictSubsetOrderingWellFounded`
  and `WFMin` give without an operator as parameter (`SmallestSet`). The rest is that
  every exit releases its margin and its profit (`ExitsBalance`), and that the clamp
  of an entry leaves no cash below zero (`OpenBalances`, `AffordableType`).
* `TickBacktestProofs`: `TickInvHolds`, for every stream of ticks that fits the bars
  (`TicksFitBars`, which the command validates). `TicksInTheirBars` and `EvaluatedOnce`
  need to know in which order things lie in time: every committed bar ends before
  the forming one starts, or, while none is forming, before the next tick can be;
  a forming bar between two ticks has not been reached (`InOrder`); and its ticks
  were each evaluated once, except for the one that has just arrived
  (`FormingEvaluated`).
* `BacktestsProofs`: `RunsTypeOKHolds`, `AccountsBalanceHolds`, `BookWithinLimitsHolds`,
  `StopsHonouredHolds`, `FilledInTheNextBarHolds`, `EntriesAreCoveredHolds`,
  `RiskPerEntryHonouredHolds`, `SamplesMakeUpTheRunHolds`, `TicksInTheirBarsHolds` and
  `EvaluatedOnceHolds`, for every
  configuration `ConfigAssumption` admits, any prices, tables and bounds.
  * The properties of a bar need one invariant together (`StaticInv`): a signal that
    waits was decided in the bar just seen, none waits while a bar is being worked
    on, and the account of the present bar holds. `PhaseSteps` shows that a step of a
    run is a step of a phase, leaves it alone, or begins one.
  * `RiskPerEntryHonoured` is arithmetic (`RiskAtStop`): the sizing divides the share of
    the equity by the distance of the stop, and the clamp (`ClampLowers`), each of the
    three commissions (`QuantityCosts`) and every division round what is bought down.
    Only a long's stop level is rounded against the account, where the code has
    floats; `StopRounding` adds that, one per unit bought, and is zero wherever the
    level is a whole price, as it is throughout the run.
  * `SamplesMakeUpTheRun` rests on `ReadsAsCounted`: as long as nothing before the newest
    row was written, each phase has read what its slice would select today, since an
    appended row comes after all that were counted (`AppendKeepsSlices`). That a limit
    of `k` selects `k` rows is that ranks are the numbers from zero on, each once:
    they are distinct and there are no more of them than rows (`FirstRows`, by the
    library's theorem on injections between sets of one size).
  * `RunReplaysTicks`: `Backtests` implements the specification of `TickBacktest`, so that
    what is proved of one replay holds within a run. The two instances that occur
    (`Realtime` in the model, `Replayed` with the theorems) are shown to be the same
    operation by operation (`SameSpec`).
* `FuturesUserDataStreamProofs`: types, and `StreamImplementsAccountFeed`, that every
  step maps to a step of `AccountFeed` or a stutter. It rests on `captured` being
  the current generation only for the coroutine of the running start, and on at
  most one message in hand.
* `MarketDataProofs`, first part: `SyncTypesCorrect`, `OneFetchPerMarketHolds`,
  `FinalStaysFinalHolds`, `SyncCatchesUpHolds` and `SyncLeavesNoHoleHolds` of
  `MarketDataSync`, for any environment that starts and cancels syncs. The
  second is inductive with the stages that hold the guard. The third needs to know
  how old the rows in a worker's hand are (`AgeInv`): a stale row in a page is the
  candle that was forming when the page was read, nobody else has stored that
  candle as final unless it closed since, and a repair holds closed candles only.
  The last two rest on `Progress`, which says of every sync that the page in its hand
  is the last stretch of what it went through (`StreamOf`; a page is an interval, and
  one that is short has reached the present, `PageIsInterval`), and that all from its
  anchor, the newest candle there was, to where it is now is stored as it closed or in
  hand, as long as the anchor is there (`NothingSkipped`). That is inductive because
  nobody else can bring a lost anchor back (`AnchorWasThere`): the guard keeps other
  syncs out, and a repair stays strictly inside a gap that was listed
  (`RepairsInGaps`). A sync that saves its anchor again has its first page in hand.
  The database and the clock are assumed not to raise.
* `MarketDataProofs`, second part: `ProgramIsSync`, that the whole program implements
  `MarketDataSync`, hence the theorems above of the program
  (`ProgramTypesCorrect`, `ProgramFetchesOnce`, `ProgramKeepsFinal`, `ProgramCatchesUp`,
  `ProgramLeavesNoHole`); and of the screens
  `OneLiveWorkerHolds`, `BusyHasOwnerHolds`, `NoResultAfterCancelHolds`,
  `NoSyncLoopHolds` and `UnlockAlwaysComesHolds`. Their invariant says that the
  backtest screen either rests with nothing left, or is busy with exactly one
  worker or report of the action it shows, except for a cancelled run that has
  lost its report; and that while Data Management is locked, a job that will
  unlock it or the queued signal is left. `CoverageVerdictsAgreeHolds` is about
  two operators and needs no invariant: the verdict from the SQL aggregates and
  the one from the rows agree for every store and range.
* `LiveChartsProofs`: `TypeCorrect`, `StreamCarriesSubscriptionsHolds` and
  `SubscriptionsFollowScreensHolds`, for any markets, threads, coroutines and
  clicks. The service's invariant ties registry, active keys and the coroutine in
  charge together after each call. The chart's says that at most one worker still
  believes in its token, that it works for the market selected and that nothing
  was reported since. The dashboard's says that, while nothing has slipped, a
  worker on a start is awaited by a LOCKED screen that holds no stream, and that a
  report which is not stale is the only such report and tells what is the case. It
  is this proof that shows that the two windows named in the property are the only
  ways in which a screen can come to hold a key it does not show.

Only model-checked: `StopCompletes`, `SupersededEnds`, `GuardReleased` and
`LockedEnds` (liveness is out of the prover's reach), and the four violations.

## 5. Not modelled, and the plan

Not modelled at all: dry-run orders (`live=False`), which change nothing; payload
mapping, rounding and signing; equity sampling; the rate limiter's waiting;
wording, logging, progress and layout; what a chart draws, loading of older
candles and the dashboard's autostart timer; the action trackers of the order
form; indicator arithmetic; configuration, CLI and Qt; a screen's `RunBacktestCommand`
path that nothing dispatches. The wall clock is assumed to move forward. The
backtest has no liquidation (`exit_reason.py` says so): a leveraged or short
position may take the balance below zero, which the model shows as the code does
it. `position_sizing.py` says that a stop loses exactly the risked share; the code
adds the fees and takes less when the cash does not reach, so the property is
that it risks no more than the share before fees.

Next, in order:

1. Overlapping `start()` and `stop()` in `FuturesUserDataStream`, and the stream that
   died with its handle set.
2. `LiveCharts` composed with `StrategySession`: arming subscribes nothing, so an
   armed strategy is fed only by what a screen happens to have subscribed.
3. `LiveTrading`'s feed shown to implement `AccountFeed`.

## 6. What the models show beside the properties

Behaviour of the code that the models have, met while writing or proving them. The
properties are stated so that they exclude exactly this, and nothing more.

Trading:

* A tick whose snapshot was taken while trading was off may find trading on at its
  gate and its strategy replaced meanwhile; `live_strategy_session.py:30-33` argues
  that no order can then be sent. `OneOrderAfterReplacement` is the bound that holds.

Backtests:

* The realtime loop never calls `check_intrabar_stops`: stop-loss and take-profit are
  ignored there, while `run_historical_tick_backtest/handler.py:57-61` says that
  only the replay loop, the commit of indicators and the fill price differ.
* A bar cut off by a gap, or by the end of the ticks, has its last state evaluated
  twice, though BOT-042D speaks of each tick once.
* A repair or a prune between the queries of a static run moves the boundary
  between its samples.

Market data:

* A cancel that lands after a run has returned and before its coverage report is
  handled (`backtest_presenter.py:790-815`) leaves the screen in CANCELLING.
* The backtest's sync resumes at the first missing candle, so a tip stored while it
  was forming is never corrected by it; a page that ends in the forming candle,
  followed by a tick, leaves a stale row below the tip.
* The first failed target of a bulk sync unlocks Data Management while the batch
  goes on, so a clear or purge can run during a sync.
* The presenter's one token is overwritten by the next job, so a cancel misses the
  older one; a sync skipped by the guard is reported as completed.
* A shard found empty is deleted later: a sync that stored into it meanwhile loses
  its rows, against `scan_coordinator.py:197` ("data loss is not possible").
* "Sync data now" after the toolbar was changed ends in COMPLETED with results of
  other parameters; a cancelled automatic sync returns to IDLE and forgets that
  there were results.

Live charts:

* A superseded chart worker past its last look at its token subscribes after the
  newer one, and the trading chart then listens to a market it does not show,
  against `chart_coordinator.py:71-72` ("live for whatever symbol/interval is currently
  selected").
* The dashboard, stopped in the same window, is IDLE and holds a stream;
  `_on_stop_stream` then returns early. Its success and failure signals name no
  run, so a stale one can move the mode of a newer start.
* An interval changed while the dashboard is LOCKED is shown, but the stream comes
  up for the old one and every tick is filtered out.
* A coroutine that dies of anything but an `OSError` keeps handle and active keys,
  so subscribing to the same keys starts nothing.
* A subscribe that comes after `stop_all` starts the websocket again during
  shutdown.
