# Botik: a TLA+ model of its control logic

Botik trades on Bybit. The repository holds a Python trading core (`src/botik`), an
app-service (`app-service`, FastAPI) that runs jobs and trading runtimes as child
processes, a React frontend and a Tauri desktop shell. The specifications here cover
the parts where several actors meet. Three large modules model the job layer, the runtime
control and the futures trading runtime with its exchange; fourteen smaller ones model one
protocol each, seven on the trading side and seven around it. Paths below are relative to the repository;
`app-service/...` stands for `app-service/src/botik_app_service/...`.

## 1. Inventory

| Component | State | Operations | Hard parts | Correct when |
|---|---|---|---|---|
| Job manager, supervisor, store (`app-service/jobs`) | state and exit code of each job, `_runs`, one wait task and two reader tasks per job, control files | start, stop, shutdown, lines from the worker, end of the worker | stop calls that overlap, `wait_for` cancelling the shared wait task, lines that arrive late, two shutdown passes | a job is settled once, after its worker and with the right verdict; stops end the process tree; shutdown misses no job |
| Process adapter (`jobs/process_adapter.py`) | none | start, terminate, kill tree | the tree is found from a live root only | part of the two services that use it |
| Workers (`app-service/runtime/*_worker.py`) | stdout pipe, training child, exit code | print, poll the control file, exit | full pipes, children that survive | part of the job layer |
| Runtime control (`app-service/runtime_control`) | run on file and control file per runtime, one wait task per process | start, stop, shutdown, observations | runs filed by runtime and not by process, a suspension inside `start`, one control file for all processes of a runtime | what is on file is alive or awaited; a stop reaches the process it is meant for; "offline" is true |
| Runtime status, app lifespan, admin shutdown | none of their own | read; the shutdown sequence | snapshots | - |
| Futures runtime (`src/botik/main.py`, linear branch) | signed position per symbol, seen executions, throttle and cooldown clocks | refresh, protect, force exit, exit quote, entry, restart | the exchange moves between any two awaits, answers are lost, restarts rebuild the position from two sources | the position is the one of the exchange; a position without a stop does not stay; no entry while protection or reconciliation is open |
| Protection rules (`risk/futures_rules.py`, `risk/futures_protection.py`) | `protection_status` | transition, plan, blocking set | status read from one row, position on the other side | "protected" only when the exchange says so |
| Reconciliation (`execution/reconciliation_service.py`) | issues, lock per symbol | import positions, open and resolve issues | issues must stay open while they are active | a row without a position keeps the symbol locked |
| Exchange (Bybit, external) | position, stops, orders, executions | executes, lapses, stops fire | everything asynchronous | - |
| Spot trading (`main.py`, spot branch; `risk/manager.py`) | position per symbol, four cached views of the account | count positions, enter, quote exits, force exits | views of different ages, quotes that execute meanwhile | positions stay within `max_open_positions` |
| Spot holdings, hold policy (`risk/spot_rules.py`, `storage/spot_store.py`) | one row of `spot_holdings` per coin | fills, wallet check, wallet reconciliation | four writers of one row | what the owner put there is held, what the strategy bought can be sold |
| Executions and outcomes (`main.py`, `storage/lifecycle_store.py`) | `seen_exec_ids`, `executions_raw`, `outcomes` | poll, book, write the ledger, recover | bounded windows, a bounded set, several writes per execution | each execution counts once, outcomes catch up |
| Order reconciliation, account readers | order rows, issues | compare, import, report, resolve | lists fetched earlier, one page | conflicts come to light, locks are current |
| Telegram control (`control/telegram_bot.py`, `state/state.py`) | four flags without a lock | pause, resume, panic, update, restart | threads of the bot against the await points of the runtime | one pull at a time, a panic leaves nothing |
| Paper engines and runners (`execution/*_paper.py`, `runners/`) | memory and tables | open, protect, close, learn, restart | one transaction per step, any of which fails | own stops, one outcome per trade, books that balance |
| Market feed (`marketdata/ws_public.py`, `universe_loop`) | order books, topics | connect, subscribe, update the universe, deltas | two senders on one socket that breaks | quiet books are whole |
| Candles (`data/backfill_worker.py`, `runners/data_runner.py`, `marketdata/ohlcv_worker.py`) | `price_history`, `symbol_registry` | page, refresh, count | two processes, errors that read as the end | a clean backfill has no gap |
| Schema (`storage/migrations.py`, `ensure_*_schema`) | tables, marks | migrate, ensure | processes at once, kills, two definitions of a table | marked is applied, nobody raises |
| Models (`ml/registry.py`, `ml/trainer.py`), ML service (`ml_service/`) | model files, `model_registry` | train, deploy, load, activate | pairs of files, activation in two writes | the newest pair loads, the best model is used |
| Event stream (`jobs/event_publisher.py`, job monitor page, log bridge) | buffer, queues, snapshots | publish, subscribe, replay, reconnect | replay beside live events, a bounded buffer | nothing skipped, the page shows the newest state |
| Desktop shell (`apps/desktop/src-tauri`) | one child | start, probe, shut down, kill | a second service on the port, signals of two platforms | nothing survives |
| Recovery guard, read services, deployment, tools, backtests | - | - | - | not modelled, see section 7 |

Interaction. The frontend and the desktop shell call the app-service over HTTP. All
requests, reader tasks and wait tasks share one asyncio event loop; workers are separate
processes that talk back by stdout and exit code and are asked to stop by a control file,
then by `terminate()`, then by `kill_tree`. The futures runner is one of these worker
processes or runs on its own; inside it `trading_loop` is one coroutine that alternates
with the exchange, and memory, database and exchange can each be ahead of the others.
Beside it run the metrics and universe loops of the same process, the threads of the Telegram
bot, and the processes of the data runner, the paper runners and the ML service, which meet
it only in `data/botik.db`, in model files and in the flags of `TradingState`.

## 2. Modules

| Module | Models |
|---|---|
| `JobLifecycle` | what a client of `/jobs` is promised: launch, stop request, end of the worker, settlement |
| `JobSupervisor` | `JobManager`, `JobSupervisor`, `JobStore`, `ProcessAdapter`, the workers, the stop callers, both shutdown passes |
| `RuntimeControl` | `RuntimeControlService` and `managed_runtime_worker` |
| `ProtectionLifecycle` | what is promised about the protection status of a position row |
| `FuturesRuntime` | the linear `trading_loop`, protection, reconciliation of positions, recovery, and the exchange, on one symbol |
| `SpotPortfolio` | the spot branch of `trading_loop` over several symbols and the limit on positions |
| `ExecutionWindow` | how executions are fetched, told apart, stored, booked and recovered; the outcome of a signal |
| `OrderReconciliation` | open orders on the exchange, their rows, the account readers, issues and locks |
| `HoldPolicy` | the row of `spot_holdings` of one coin, its writers, what a sell intent may sell |
| `OperatorControl` | the Telegram bot's threads, the update worker, the runtime's loops and the hot restart |
| `FuturesPaper`, `SpotPaper` | the two paper runners with their engines and tables |
| `CandleStore` | the data runner and the backfill worker on one symbol's candles |
| `SchemaBootstrap` | the fifteen migrations and the four `ensure_*_schema` functions on one database file |
| `MarketFeed` | `BybitPublicOrderbookWS` and the universe refresh |
| `ModelDeploy` | the trainers and the model files of one scope |
| `MlService` | the training service, `model_registry` and the trading process that reads it |
| `EventStream` | `EventPublisher`, its subscribers and the job monitor page |
| `DesktopShell` | the shell, its app-service and an older one on the port |
| `JobSupervisorProofs`, `RuntimeControlProofs`, `FuturesRuntimeProofs` | theorems about the three large modules |
| `TradingProofs` | theorems about `HoldPolicy`, `OrderReconciliation`, `OperatorControl`, `SpotPortfolio` and all of `MCTrading` |
| `PaperProofs` | theorems about `FuturesPaper`, `SpotPaper` and `ExecutionWindow` |
| `PlatformProofs` | theorems about `DesktopShell`, `EventStream`, `MarketFeed`, `SchemaBootstrap` and all of `MCPlatform` |
| `LearningProofs` | theorems about `MlService`, `ModelDeploy` and `CandleStore` |
| `FiniteSetFacts` | least elements of finite sets of numbers and sums over finite sets, for the proofs |
| `MCJobSupervisor`, `MCRuntimeControl`, `MCFuturesRuntime` | values of the constants for TLC |
| `MCTrading`, `MCPlatform` | seven of the smaller modules each, side by side, for TLC |

`JobSupervisor` refines `JobLifecycle` (`KeepsContract`: its `worker` is `proc`), and
`FuturesRuntime` refines `ProtectionLifecycle` (`KeepsProtectionContract`: a row without a
quantity counts as closed).

### JobSupervisor

One action is the code between two points where a coroutine really suspends. The publisher
puts into unbounded queues, so publishing does not suspend; the states queued and starting
are never visible between two steps and `Start` covers `JobManager.start` with `spawn`.

| State | Code |
|---|---|
| `state`, `exitCode` | `JobStore` (2 stands for `None`) |
| `runs`, `stopRequested`, `controlFile` | `_runs`, `ManagedRun.stop_requested`, the control files on disk |
| `waitTask`, `reader` | `wait_task`, the reader of stdout (that of stderr only logs) |
| `proc`, `code`, `child`, `signal`, `left`, `pipe` | the worker process, its exit code, its training child, the strongest signal, lines still to write, lines in the pipe |
| `pc`, `target` | where each stop call is inside `terminate()` |
| `todo`, `phase` | the snapshot of `JobManager.shutdown` and which pass is on |

`Expire` is the heart of the module: `asyncio.wait_for(run.wait_task, ...)` cancels the task
it waits on when it times out, so the wait task goes through its `finally` block (the run is
forgotten, the control file removed) without the settlement before it, and every other wait
on that task raises `CancelledError`, which no `except` clause in `terminate()` catches
(`StopAborts`). A `CancelledError` out of a shutdown pass ends the pass.

Python code not in the repository: `ProcessManager`, which starts the legacy training. That
it starts a process of its own (`SpawnChild`) follows from how `training_control_worker`
starts, polls and stops it.

### RuntimeControl

`runs` maps a runtime to the process on file, as `_runs` does; `waitTask` belongs to a
process. `Finalize` pops by runtime, whichever process the caller has, and removes the
control file all processes of the runtime share. `StartOverExited` and `Respawn` are the
two halves of `start()` around the suspension in `_finalize_run`. `observations()` has no
state; `Offline` says what it and the process probe report together.

### FuturesRuntime

| State | Code |
|---|---|
| `xpos`, `xstops`, `orders`, `execs` | the exchange: position, stop loss and take profit set, resting quantities by kind (`mm-`, `px-`, `force-exit-`, `prot-fail-` links) and side, executions |
| `stored`, `row`, `latest`, `locks` | `executions_raw`, `futures_positions`, which rows share the latest `updated_at_utc`, open lock issues |
| `net`, `seen`, `todo` | `net_position_base`, `seen_exec_ids`, fetched executions of the current refresh |
| `attempted` | `last_protection_apply_ts` is set (how long ago, against the 8 s throttle, is left open) |
| `answer` | the answer to `get_positions` between the request and its use |
| `pc` | the await at which `trading_loop` is; in `recover_positions_on_startup`, the replay, which books one execution per step (`Replay`) |
| `phantom`, `crashes`, `started` | history: an emergency close was accepted since the restart; restarts so far; the loop has begun |

A quantity is a whole number of position floors with the side as its sign, so the dust
branches never apply. Prices are left out: whatever depends on a price may happen or not.
Orders carry no `reduceOnly` (`bybit_rest.place_order` has no such field), so any exit can
open a position of the other side. Cancelling may succeed or fail without the loop noticing,
as nothing looks at the answers. `Restart` may come between any two awaits.

What `FuturesRuntime` leaves out: other symbols and the limits across symbols; executors
without the protection or reconciliation capability; order issues of the reconciliation;
`futures_protection_orders`, decisions and audit rows, which the loop never reads back; the
100-execution and 24-hour windows and the clearing of `seen_exec_ids` at 20000; more than
one intent per iteration (the next iteration stands for it); a forced-exit cooldown of zero
(the default is 10 s, so the exit quote of the same iteration is skipped after a forced exit);
risk-manager refusals are contained in "no entry is sent".

### The smaller modules

Each has one action per handler, transaction or request, a history variable or two for what
the properties speak of, and a `...Spec` of its own. What each keeps and leaves out:

* `SpotPortfolio`: `stepNow` is the step of an iteration of `trading_loop`, `views` the four
  sets that `_all_active_symbols` joins. Quantities are entries; dust, prices and percentages
  are left to chance. `skipped` says that an iteration went on without all executions, which
  the default settings allow. An entry is refused, accepted, or raises after the exchange got it
  or not; answer 10004 ends the loop.
* `ExecutionWindow`: executions are numbered as the exchange makes them. `seen` gets an
  identifier before the execution is stored (`Take`, `Store`), the ledger and the outcome come
  after an await (`Write`); each write may raise, which ends the refresh. `Start` is
  `recover_positions_on_startup`.
* `OrderReconciliation`: a run is split at its requests. A row is live, missing or not there;
  `legacy` is the table `orders`. The readers fetch a list and save it later. Issues are kept
  by kind for the one symbol, as `_issue_once` does by kind and symbol.
* `HoldPolicy`: `ours` and `theirs` say who bought a coin, which the code cannot see.
* `OperatorControl`: handler threads set one flag per step; a loop looks at a flag at the top
  of an iteration and acts on it after the next await.
* `FuturesPaper`: stops of a side live in a row that outlives its trade; `unsaved`, `blind`
  and `unwritten` remember which transaction failed. Prices are 1 to 3, the range of a candle
  is 1.
* `SpotPaper`: amounts are in thousandths so that the fee is exact.
* `CandleStore`: time is counted in candles. A page is a range of them; a failed request is an
  empty page, as `_fetch_kline` has it.
* `SchemaBootstrap`: a statement is one step; `pending` are the versions a program found unmarked
  when it started, `line` is its next statement of the first of them. Of every migration and every store one or two
  tables are kept, those on whose columns the two disagree or which a later migration alters.
* `MarketFeed`: a book is whole, partial, old, empty or not there, not a list of levels.
* `ModelDeploy`: a model is the number of its training; `SortsBefore` compares file names.
* `MlService`: activation is `Deactivate` and then `Register`.
* `EventStream`: events are numbered; one subscriber is the page, the other the log bridge.
* `DesktopShell`: `Dies` is the end of a process without its `finally` clause, `EndsInOrder`
  the end with it.

## 3. Runs

| Run | Instance | Result |
|---|---|---|
| `jobs_safety` | 2 jobs (1 with control file, both ignoring terminate), 1 client and the shutdown, 2 lines, pipe of 1 | `TypeOK`, `SettledMeansOver`, `TrackedIffAwaited`, `StopSignalsAreAsked`, `ShutdownMissesNobody`, refinement of `JobLifecycle` hold |
| `jobs_liveness` | 1 job without control file, 2 clients | `FinishedJobIsSettled`, `StopEndsTree` hold |
| `jobs_stop_tree` | 1 training job, 1 client | `StopEndsTree` is violated (finding 1) |
| `jobs_stop_settles` | 1 training job, 1 client | `StoppedJobIsSettled` is violated (finding 2) |
| `runtime_control` | 1 runtime, 2 clients and the shutdown, 3 processes | `TypeOK`, `TrackedIsAwaited`, `StopFileIsForTrackedRun`, `AbandonedIsTerminated`, `StopEndsRuntime` hold |
| `runtime_offline` | the same | `OfflineMeansNoProcess` is violated (finding 3) |
| `futures_safety` | Buy entries of quantity 1, 3 executions, 1 crash | `TypeOK`, `MemoryMatchesExchange`, `GhostRowIsLocked`, refinement of `ProtectionLifecycle` hold |
| `futures_liveness` | the same with 2 executions | `NakedPositionIsLeft` holds |
| `futures_status` | 3 executions, no crash | `FilledPositionHasStatus` is violated (finding 4) |
| `futures_emergency` | 3 executions, no crash | `EmergencyEndsExposure` is violated (finding 5) |
| `trading_parts` | seven modules of the trading side, bounds below | 13 invariants hold |
| `platform_parts` | seven modules around it, bounds below | 9 invariants hold |

`trading_parts` and `platform_parts` check fourteen modules, one part at a time: the variable
`part` chooses, in the initial state, whose steps a behaviour takes, and the others stay where
they start. Nothing is lost by that: no property speaks of two parts, and none of them reads a
variable of another, so a behaviour of all of them together restricted to one part's variables
is a behaviour of that part. That the two compositions only do what their parts do is proved
(`TradingParts`, `PlatformParts`, section 5).

| Module | Bounds | Why they are enough |
|---|---|---|
| `FuturesPaper` | 2 trades, prices 1..3, 2 records of a trade | a second trade finds what the first left behind; a price can be below, at and above the entry |
| `SpotPaper` | 2 symbols, prices 1..3, balance 4, 2 sales a life, 1 restart | a balance that pays for one more purchase or not; a sold symbol bought again; a restart with one of two holdings |
| `SpotPortfolio` | 2 symbols, limit 1, 2 entries a symbol | one symbol more than the limit; an entry on top of an exit that has not executed |
| `ExecutionWindow` | 4 executions of one signal, windows of 2 and 3, 3 seen identifiers, 1 restart | executions that leave each window, a set that is emptied, stored and unstored ones at a restart |
| `OrderReconciliation` | 1 entry and 1 exit order, pages of 1, 1 revived row | a page too small for the orders, an order unknown while the other is known |
| `OperatorControl` | 2 handler threads, 3 updates | an update that runs, one that waits and one that starts after a restart; a panic during a panic |
| `HoldPolicy` | 3 coins of each owner | less than, exactly and more than half of a wallet tracked |
| `CandleStore` | pages of 2, 3 candles back, clock 3..5 | two pages, the last one short; the clock moves during and between backfills |
| `SchemaBootstrap` | 2 runners and the trading loop, 3 starts | two at once and one that comes after both |
| `EventStream` | 4 events, buffer of 2, 2 connections | events that leave the buffer while the page is away, and events during the replay |
| `DesktopShell` | 2 services, 2 platforms | one more service than the shell's own |
| `ModelDeploy` | 2 trainers, 3 trainings from version 6 | two trainers that choose one version; a torn file followed by a whole one; versions of one digit |
| `MarketFeed` | 2 symbols, 3 messages on the wire, 3 refreshes, 2 breaks | removed and added again on one connection and over two |
| `MlService` | 7 trades, batches of 2 from 3 on, scores 0..2, 1 restart | three trainings, of which one is better, equal or worse than another |

The invariants of the two runs:

| Property | Module | Says |
|---|---|---|
| `WatchedWithOwnStops`, `OutcomeLearnedOnce` | `FuturesPaper` | an open trade is watched with its own stops although the row is keyed by side; its outcome is learned once; each unless the write it depends on failed |
| `BooksBalance`, `GuardedUnlessRestored` | `SpotPaper` | cash, holdings and profit add up and the table agrees; stops belong to what is held |
| `LimitKept` | `SpotPortfolio` | positions and working entries on the exchange stay within the limit when every iteration applies all executions |
| `FillsCountOnce`, `OutcomeCatchesUp` | `ExecutionWindow` | an execution counts exactly once until the set is emptied, and at least once after; an outcome has all stored executions of its signal once the newest was booked |
| `LockIsCurrent`, `ConflictsAreReported` | `OrderReconciliation` | open issues are those of the last complete run; an unknown order is reported, a dead row is reported once |
| `PullsAreExclusive`, `PanicLeavesNothing` | `OperatorControl` | one update works on the tree, none during a reload; after an obeyed panic no order works until resume |
| `HoldFollowsOwner` | `HoldPolicy` | what was found is not sold by an intent, what was bought can be |
| `CleanBackfillIsWhole` | `CandleStore` | a backfill without errors has no gap; the registry claims no candle too many |
| `RunnersMigrateSafely` | `SchemaBootstrap` | what is marked is applied, in order; runners do not stop each other |
| `NothingSkipped`, `PageShowsNewest` | `EventStream` | every event once and in order; a page that caught up shows the newest state |
| `NothingSurvives` | `DesktopShell` | the end of a process takes its workers along, where its `finally` clause runs |
| `NewestPairLoads` | `ModelDeploy` | a start loads the two models of the last deployment |
| `QuietBooksAreWhole` | `MarketFeed` | once refresh and reconnect are through, every book comes from a snapshot and all deltas since |
| `BestModelIsUsed` | `MlService` | the active model is the best registered one and the trading process never goes back |

Many are conditional on a history variable (`~blind`, `~unwritten`, `~skipped`, `~cleared`,
`~unsent`, `~cutShort`, `~traded`, `~overrun`). Each condition names a failure after which the
code does not keep the promise; section 6 lists them.

The bounds. Two jobs are needed for a shutdown snapshot that misses one; jobs do not
otherwise share state. Two lines with a pipe of one give a blocked writer, a line read after
the stop request and a line read after the exit. Two callers (a client and the shutdown, or
two clients) give every overlap of two stop calls: a third can only find the wait task
cancelled or done, as the second does. Three processes of one runtime give an old process
that ends while two newer ones compete; runtimes share nothing with one another. Three
executions give an entry, an exit and one execution too many, the least that over-closes a
position; the mirror image with Sell entries is the same up to the sign, and one crash is
enough for every reading of the database by a later life of the runtime. `CHECK_DEADLOCK
FALSE` is set in all runs: the service goes down, the loop ends on answer 10004, and each of
the smaller parts may come to rest.

Why some properties are the ones worth having:

* `SettledMeansOver`, `KeepsContract`: a late progress line, a dead reader or a timed-out
  wait could each re-open or wrongly settle a job; the contract forbids each such step.
* `StopFileIsForTrackedRun`: a process must not find the stop request of the one before it,
  although all share one file and old ends and new starts interleave.
* `MemoryMatchesExchange`: executions come from two sources in overlapping windows, and each
  source may fail; each must count once.
* `GhostRowIsLocked`: an issue that is open already must count as active in every run, else
  the second reconciliation would unlock the symbol.
* `NakedPositionIsLeft`: reconciliation marks the position, the gate row it reads may be that
  of the other side, the throttle may delay the protection; the forced exit comes in the end.

## 4. Fairness

* Jobs: weak fairness of the readers, the wait task, the timers and the stop calls, all run by
  an event loop that is never blocked, and of the effect of a signal on a live process.
  Workers, clients and the shutdown owe nothing.
* Runtime control: the same, and a worker that was signalled or is stopping itself ends. It
  need not notice the control file before that file is gone.
* Futures: weak fairness of the coroutine. Strong fairness of: reconciliation falling due
  (its interval passes whatever the loop does), `get_positions`, `get_open_orders` and
  `get_execution_list` being answered when asked again and again, and a forced exit being
  sent when it is due again and again (its cooldown ends, the order book comes back). That
  the exchange answers in the end is an assumption about the exchange; so is that the
  operator does not leave the runtime paused. The exchange owes no execution, which is why
  `NakedPositionIsLeft` asks for the order and not for its execution.

* The smaller modules state no liveness and assume no fairness.

## 5. Proofs

Seven modules hold the theorems and an eighth the lemmas they share. All are for every value of
the constants, any number of nodes, orders, events or restarts, and rest on nothing but the
named assumptions on constants of the modules they are about (`JobSupervisorAssumption`,
`FuturesRuntimeAssumption`, ...: sets are finite where the code counts them, bounds are numbers,
and the like), which TLC evaluates for the instances of section 3. `ModelDeploy` assumes versions below 100,
since file names are compared digit by digit. `CandleStore` assumes that time does not end before
it starts and that the candles the data runner refreshes are not older than time 0; without the
second its type invariant does not hold, which the small instance could not show.

| Module | Theorem | Statement | By |
|---|---|---|---|
| `JobSupervisorProofs` | `TypeCorrect`, `Invariance` | `Spec => []TypeOK`, `Spec => []IInv` | `JobInv`, `CallerInv` |
| | `SettledIsOver`, `TrackedExactlyWhileAwaited`, `StopsAreAsked` | `[]SettledMeansOver`, `[]TrackedIffAwaited`, `[]StopSignalsAreAsked` | `IInv` |
| | `ShutdownReachesAll` | `[]ShutdownMissesNobody` | `ClosingInv` |
| | `SupervisorKeepsContract` | `Spec => KeepsContract` | `IInv`, step by step |
| `RuntimeControlProofs` | `TypeCorrect` | `Spec => []TypeOK` | `CallerInv` |
| | `TrackedRunsAreAwaited`, `StopFileBelongsToRun`, `GivenUpIsTerminated` | `[]TrackedIsAwaited`, `[]StopFileIsForTrackedRun`, `[]AbandonedIsTerminated` | `SafetyInv` |
| | `NobodyElseIsTerminated`, `StopReturnsAfterExit` | `[]OnlyAskedAreTerminated`; a stop call returns only after the exit of its process (action property) | `StopInv` |
| `FuturesRuntimeProofs` | `TypeCorrect` | `Spec => []TypeOK` | `RecoveryInv` |
| | `GhostRowsLock` | `[]GhostRowIsLocked` | itself, with `TypeInv` |
| | `ExecutionsCountOnce` | `[]MemoryMatchesExchange` | `BookInv` |
| | `ImplementsProtectionLifecycle` | `Spec => KeepsProtectionContract` | `ProtectionInv`, step by step |
| `TradingProofs` | `HoldFollows` | `HoldPolicySpec => []HoldFollowsOwner` | `HoldInv` |
| | `LocksAreCurrent`, `ConflictsComeToLight` | `OrderReconciliationSpec => []LockIsCurrent`, `[]ConflictsAreReported` | `RunInv`, `TraceInv`, `AnswerInv` |
| | `CleanRunsLiftLocks` | `[][LiftedByCleanRun]` (action property) | `RunInv` |
| | `PanicStaysQuiet`, `OnePullAtATime` | `ControlSpec => []PanicLeavesNothing`, `[]PullsAreExclusive` | `QuietInv`, `UpdateInv` |
| | `PositionsStayWithinLimit` | `PortfolioSpec => []LimitKept` | `AccountInv`, `ViewsInv` |
| | `TradingKeepsTypes` | `TradingSpec => []TradingTypeOK` | `TradingParts`, the invariants of the parts |
| | `TradingKeepsPromises` | `TradingSpec => ` the twelve other invariants of `trading_parts` | `TradingParts`, the theorems on the parts |
| `PaperProofs` | `TradesHaveOwnStops`, `OutcomesLearnedOnce` | `FuturesPaperSpec => []WatchedWithOwnStops`, `[]OutcomeLearnedOnce` | `WatchInv` |
| | `GuardsFollowHoldings` | `SpotPaperSpec => []GuardedUnlessRestored` | `GuardInv` |
| | `BooksAlwaysBalance` | `SpotPaperSpec => []BooksBalance` | `BalanceInv` |
| | `FillsCountExactlyOnce`, `OutcomesCatchUp` | `ExecutionWindowSpec => []FillsCountOnce`, `[]OutcomeCatchesUp` | `BatchInv`, `SeenInv`, `LedgerInv` |
| `PlatformProofs` | `WorkersEndWithService` | `ShellSpec => []NothingSurvives` | `WorkersInv` |
| | `BooksAreWhole` | `FeedSpec => []QuietBooksAreWhole` | `BooksInv` |
| | `StreamsSkipNothing`, `PageCatchesUp` | `EventStreamSpec => []NothingSkipped`, `[]PageShowsNewest` | `PlacesInv`, `PageInv` |
| | `LiveEventsGoForward` | `[][BackOnlyInReplay]` (action property) | `ShownInv` |
| | `MigrationsStayApplied` | `SchemaSpec => []RunnersMigrateSafely` | `RunnersInv`, `MarksInv`, `ColumnsInv` |
| | `PlatformKeepsTypes` | `PlatformSpec => []PlatformTypeOK` | `PlatformParts`, the invariants of the parts, `QueuesInv`, `RequestsInv`, `CountsInv`, `TimesInv` |
| | `PlatformKeepsPromises` | `PlatformSpec => ` the eight other invariants of `platform_parts` | `PlatformParts`, the theorems on the parts |
| `LearningProofs` | `BestModelStaysInUse` | `MlSpec => []BestModelIsUsed` | `ActiveInv`, `UsedInv` |
| | `PairsLoadTogether` | `ModelDeploySpec => []NewestPairLoads` | `DiskInv`, `DeployingInv`, `AloneInv`, `WholeInv` |
| | `BackfillsLeaveNoGap` | `CandleStoreSpec => []CleanBackfillIsWhole` | `CoveredInv`, `CountInv` |

None of the properties is inductive by itself. What each strengthening adds, and why:

* `JobSupervisor`. `JobInv` says how the store, the process, the reader and the wait task of a
  job go together: an awaited run is in the state the stop request calls for, a draining or done
  wait task has an exited process, a done one has settled the job after its reader ended, a
  cancelled one leaves it in stopping, a job without a wait task never had a process.
  `CallerInv` says that a caller only waits for a job that was asked to stop, without which a
  signal could not be shown to be asked for. `ClosingInv` says that during the last pass every
  run is asked already or still on the list: no start comes between the snapshot and the end.
  The refinement maps each action to one of `JobLifecycle` or to a stutter; a second stop request
  and a progress line change nothing the contract sees.
* `RuntimeControl`. Processes are numbered; `FreshNumbers` says that those to come have no wait
  task. The three properties then hold each other up: a process that is not on file was popped by
  a finalisation, and that removed the control file. `StopInv` follows the stop calls instead of
  the file: a caller inside `stop()` asked the process it holds, whatever is filed under the
  runtime by now, and a wait that was not cancelled ended with that process. So `terminate()`
  reaches only who was asked, and a call that returns without an error tells the truth.
* `FuturesRuntime`. The position is the sum of the executions seen, but no sum is taken:
  `AddUpTo` says that running totals exist (`RunsUp`), so that a step extends or shifts them and
  no induction over the executions is needed. `BookInv` keeps two such totals, all executions
  against the exchange and the unseen ones against what memory lacks. A lemma per step says how
  the totals change when an execution comes and when one is taken. `RecoveryInv` says that
  nothing is seen before the recovery. `ProtectionInv` says that while protection is applied and
  verified the row of that side is open and pending or repairing, so that the outcome is a
  transition `ProtectionLifecycle` allows.
* `HoldPolicy`. `HoldInv`: what was traded has a row, and the position and what is not booked yet
  stay in range together.
* `OrderReconciliation`. `RunInv` relates the issues to the run in progress, `TraceInv` says that
  a row comes from a placed order and from one of three writers, `AnswerInv` that an answer that
  was worked through is known. From `RunInv` it also follows that no step but the end of
  a complete run lifts a lock, and only for a conflict this run did not meet.
* `OperatorControl`. `QuietInv`: after an obeyed panic the runtime is paused, no order works and
  the loop is not on its way to place one. `UpdateInv`: who holds the lock has the flag set, and a reload comes of a restart, unless
  a message could not be sent.
* `SpotPortfolio`. `AccountInv`: coins are what memory knows plus what it has not seen; `ViewsInv`:
  once refreshed, each symbol with coins or a quote is in one of the cached views. The limit on
  the views is then one on the account.
* `FuturesPaper`, `SpotPaper`. `WatchInv`: one open trade at most, the newest while its stops are
  saved, and nothing to learn is open; `GuardInv`: restored symbols are held ones.
  `BalanceInv`: the books, with the types and `GuardInv`; a purchase or a sale changes the cost
  of all holdings by that of the one symbol it touches (`CostWithout`, `CostUnchanged`).
* `ExecutionWindow`. `BatchInv` says that the batch is a run of consecutive executions and that
  what came before it is accounted for (booked, slid out of the window or lost to an error);
  `SeenInv` relates the set of identifiers to what was booked, with the one execution between
  `Take` and `Store` as the exception; `LedgerInv` relates the ledger to the table.
* `DesktopShell`. `WorkersInv`: workers run where their service serves or drains, and a service
  that is being ended gets no new job.
* `MarketFeed`. `BooksInv` says what a book that is not whole waits for: a request of the
  reconnect or the refresh, or a snapshot on the wire.
* `EventStream`. `PlacesInv` says that what a subscriber got, is replayed and has queued are
  consecutive and end with the newest event; `PageInv` that up to the place the page reached no
  state is newer than the one shown; `ShownInv` that the state shown is older than all that is
  queued. A page may go back, but only while it replays the buffer after a lost connection:
  that it never goes back at all is false, as TLC finds at once. `QueuesInv` bounds what is
  replayed by the size of the buffer.
* `SchemaBootstrap`. The fifteen migrations and the ensure functions are looked at statement by
  statement (`MigrationsAreSound`, `EnsureIsSound`): only 14 and 15 alter tables, an index comes
  after its table. `RunnersInv` says that what a runner is past has been done and lasts, or was
  swallowed; a dropped column lasts only where its table exists, which is why the order of the
  marks is part of `MarksInv`. `ColumnsInv` says that without the trading loop a table has the
  columns that are indexed, so that no statement of a runner is refused.
* `MlService`. `ActiveInv`: one active model, the best outside of activations, and during one
  the model in hand beats all there are; `UsedInv` follows the trading process.
* `ModelDeploy`. `DiskInv` and `DeployingInv`: the historian is written before the predictor, from
  one memory; `AloneInv` and `WholeInv`: a deployment nobody overlapped is the newest by number,
  and by name as long as versions have one digit. The lemmas on `SortsBefore` order file names.
* `CandleStore`. `CoveredInv`: what a filler is past in its range is stored, up to the time it
  read when it started; `CountInv`: counts do not exceed what is stored.

* `MCTrading`, `MCPlatform`. `TradingParts` and `PlatformParts` say that each behaviour of a
  composition is one of every part: its initial states are initial in each part, and each of its
  steps is a step or a stutter of each part. All that is proved of the parts holds of the
  compositions, which are what the two runs check. The type invariants of `MarketFeed`,
  `EventStream`, `MlService` and `CandleStore` are not part of the invariants above and need
  strengthenings of their own (`RequestsInv`, `QueuesInv`, `CountsInv`, `TimesInv`).

The library's induction theorems take an operator as a parameter and cannot be cited.
`FiniteSetFacts` derives what they would give from the well-foundedness of strict subsets: a
finite set of numbers has a least (and a greatest) element, a non-empty family of finite sets
has a smallest member, and a sum over a finite set, which the community modules define by a
fold that takes the elements in an unspecified order, does not depend on that order
(`Sums`, `FirstOf`). The proofs about pages, batches, model versions, the newest job state and
the books use it wherever one would otherwise induct.

Only model-checked: `FinishedJobIsSettled`, `StopEndsTree`, `StopEndsRuntime` and
`NakedPositionIsLeft`, which are liveness properties: fairness and `ENABLED` are out of the
prover's reach.

## 6. Where code and documentation disagree

1. A stop is documented as graceful signal, bounded timeout, hard kill of the tree
   (`docs/architecture/process-lifecycle.md:93-96`). For jobs with a control file the second
   wait runs on a task that the first one has cancelled; `CancelledError` leaves
   `terminate()` before `kill_tree`, and a training process survives its worker.
2. The same timeout cancels the only task that marks a job completed, failed or cancelled
   (`process-lifecycle.md:55`): the job stays in stopping.
3. "offline: no matching runtime process detected" can be shown while a process runs that
   nobody asked to stop, after two starts that overlap (`runtime_control/service.py:67`, `218`).
4. The documented flow "entry -> pending -> set_trading_stop -> verify"
   (`docs/PROD_RUNBOOK.md:55-58`) is skipped for a position that opens within 8 s of the last
   attempt on its symbol (`main.py:1322`).
5. The emergency close ("to prevent unprotected exposure", `main.py:1558-1563`) zeroes the
   position before its closing execution is applied; the execution then makes a position that
   does not exist, and leaving that one opens a real, unprotected one (`main.py:1580`).

Seen while modelling, without a run of their own: a `CancelledError` in one stop ends a whole
shutdown pass; exit quotes are recorded as reduce-only (`main.py:378`) and sent without it;
a row left by a stop that fired while the runtime was down, or by a reversal, is never closed,
so its lock stays until somebody edits the database; the restart log says "without cancel-all"
(`main.py:3217`), while the new loop starts with `cancel_all_orders` (`main.py:3199`).

Seen in the smaller parts, and left as conditions of their properties:

* Schema: the trading loop and the runners create the same tables with other columns. The
  trading loop first, migration 4 fails on `signals(model_scope)` at every start of a runner;
  a runner first, `ensure_futures_schema` fails on `futures_funding_events(funding_time_ms)`
  (`migrations.py:72`: "Safe to call on every startup"). Migrations 14 and 15 swallow every
  exception and are marked all the same.
* Executions: a crash or an error between `insert_execution_event` and the ledger leaves a fill
  without records for good; an identifier is seen before it is stored, so a failed insert loses
  the execution until a restart; above 20000 identifiers executions count again.
* Position limit: with executions not refreshed in every iteration, the default, the limit can
  be exceeded.
* Order rows never leave "New" by themselves, so every ended order is reported missing by the
  next reconciliation and locks entries until the one after; a reader that imports an orphan
  first hides it; a late reader revives a dead row; one page of orders is read.
* Hold policy: reconciliation never updates an existing row, so an empty row of a coin the
  owner deposits later protects nothing; a missing coin becomes `stale_hold`, which may be sold;
  forced exits and exit quotes do not ask the policy.
* Operator: the panic flag is cleared when the cancellation failed, too, and a second panic
  during the await is lost; an iteration between the two assignments of `do_panic` trades on; a
  message that cannot be sent clears `update_in_progress` of another update; a restart applied
  before `set_update_in_progress(True, "restart_pending...")` leaves it set.
* Futures paper: a failed read of the open trades opens a second one; a failed write of a closed
  trade closes and learns it again. Spot paper: restored holdings have no stops and are sold at
  the first tick, from a full balance.
* Candles: an error reads as the end of the history; a page that cannot be written is skipped;
  80 % of the candles skip the backfill; a pause longer than a refresh leaves a gap; INSERT OR
  IGNORE keeps the unfinished candle although `data_runner.py:12` speaks of an update.
* Market feed: a list captured by `run()` before a refresh subscribes removed symbols, which get
  no second snapshot when they come back; a refused request is only logged.
* Models: from version 10 on the newest file is not the one loaded (`registry.py:225`).
  ML service: after a crash between the two writes the next model is activated whatever its
  score.
* Event stream: a waiting subscriber does not notice the publisher's stop; a snapshot of the
  page hides polled states also when later ones left the buffer.
* Desktop shell: on Windows `os.kill(SIGTERM)` ends the service before its `finally` clause, and
  managed runtimes survive; readiness accepts the answer of an older service on the port; on
  POSIX the last wait has no time-out.

## 7. Not modelled

Exit prices, strategies, scanner scores, labelling, the bandit and what models compute are
floating-point: the models let every result happen. In the job monitor the log lists, in the log
manager the files and channels, in the read services and the other pages the queries are views
of state that is modelled elsewhere. The recovery guard is a stub. `paper.py` and the backtests
replay candles in one sequential pass. Of the stores, the read and write helpers appear in the
modules that use them. Deployment scripts and tools run by hand and have no protocol. In the
reconciliation, fills are only copied.

## 8. What is left

Every invariant and every action property of the passing runs is proved, and both refinements.
Left to TLC alone are the four liveness properties. The models could grow where section 7 names
what they leave out: several symbols in `FuturesRuntime`, prices and dust, order issues next to
position issues in one reconciliation run.
