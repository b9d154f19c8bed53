# Verification of `binance_bot_pro_live`

The repository is a Binance futures trading bot: strategies emit *intents*, an
execution core turns them into orders, a set of asyncio tasks keeps the bot's
picture of the account in step with the exchange, and a web application starts,
configures and shows all of it. This directory holds TLA+ models of the core, of
the strategy and the market data that feed it, and of the journals, states and
settings around it, translated from the Python source, TLC configurations that
check them on small instances, and TLAPS proofs of what matters most.

## 1. Inventory

One process, one asyncio event loop, one execution stack per trading session.
In the execution core interleaving happens at every `await` and nowhere else.
Around it there are threads: the runner that turns candles into orders, the
pool in which symbol requests run, and the threads that apply a pending symbol.

| Component | Source | State it keeps | Operations |
|---|---|---|---|
| Policy and planner | `trading_core/execution_policy/*`, `execution/orchestrator/planner.py` | none | `evaluate_intent`, `build_plan`, `verify_execution_result` |
| Orchestrator | `execution/orchestrator/orchestrator.py` | failure count, the running execution | `submit_intent`, `_run`, `_execute_step`, confirmation polls, `_finalize` |
| Lock and window | `execution/system/execution_lock.py`, `execution_window.py` | owner, phase; open execution | `acquire`, `guard`, `update_phase`, `abort`, `release`; `open`, `mark_closing`, `close`, `force_close` |
| Supervisor, drift detector, invariant engine, restart guard | `execution/reconciliation/*` | one loop task; `execution_state.status` is its output | `_tick`, `_handle_strict`, `_handle_verify`, `restart` |
| Execution state | `execution/state/*` | `INIT … FROZEN` | transitions |
| Live execution system | `execution/live_execution_system.py`, `live_bootstrap.py` | manual-close tasks, pending brackets | `start`, `stop`, `restart`, `execute_plan`, `close_manual_position` |
| Sync engine, position/order/account engines, user stream | `execution/sync/*`, `execution/adapter/binance/user_stream.py` | local positions and orders, manual-open flags, bracket metadata | `bootstrap`, `on_user_event` |
| Exchange adapter, trade client | `execution/adapter/binance/*` | idempotency keys | `place_order`, `close_position`, brackets |
| Execution journal | `backend/core/persistence/execution_journal.py` | SQLite rows | `append_event`, queries |
| Replay, recovery | `execution/replay/*`, `execution/recovery_manager.py` | none | `rebuild`, `validate`, `recover_execution` |
| Trading session, live runner | `backend/core/trading_session.py`, `run_manager.py`, `backend/runtime/live_runner.py`, `backend/services/live_service.py`, `backend/api/routes_system.py` | session status, active and pending symbol, market, runner thread, drawdown | `start`, `stop`, `request_symbol_change`, `try_apply_pending_symbol`, `inject_intent`, the runner's bar loop |
| Intent websocket, strategy adapter | `backend/ws/intent_ws.py`, `backend/execution/strategy_execution_adapter.py` | processed intents | submit under the session's lock |
| Strategy | `trading_core/engines/dual_engine.py`, `*_engine_raw.py`, `trading_core/runtime/account.py` | breakout levels, the engine's own position, the account's day | `on_bar` |
| Risk court | `trading_core/risk/*` | `RiskState`, dashboard limits | equity updates, rollover, `allow_trade`, commands |
| Market data | `backend/adapters/market/*`, `backend/live/*` | history cache, feature window, websocket, queue | load, connect, push, `stop` |
| Trade journal, recorder | `backend/analytics/*`, `backend/observability/execution_*`, `backend/services/session_trade_archive.py` | open trade, its file, SQLite rows, archive | fills, restore, archive, reset |
| System state, state hub | `backend/core/system_state_engine.py`, `state_hub.py`, `backend/ws/state_ws.py` | execution block, last sent block, clients | intents, heartbeats, snapshots, deltas |
| Settings, session API, backtests | `backend/runtime/*`, `backend/api/routes_session.py`, `routes_control.py` | `runtime_config`, session files, sessions, backtest threads | control routes, create, start, stop |
| Lifecycle, slots, config jobs | `backend/core/session`, `backend/core/execution`, `backend/core/control` | slots, jobs | acquire, preempt, release; run a job |
| Backend risk | `backend/risk/*` | streaks, daily counters | checks, resets |
| Metrics, alerts, dashboard cache, frontend | `backend/analytics`, `backend/observability`, `frontend` | read models | reporting |

**How they interact.** A strategy or the intent websocket calls
`ExecutionOrchestrator.execute`; that is `submit_intent`. It evaluates the
policy, takes the lock, opens the window, journals each step, calls the trade
client (which checks the lock again), polls REST for the fill and then the local
position, reconciles through the supervisor and releases. Meanwhile the user
stream applies position reports to the local picture and may start a manual
close that competes for the same lock; the supervisor ticks on its own, may
freeze the system or restart it (a REST snapshot overwriting the local
picture); the account's owner trades by hand. The journal is written by the
orchestrator only.

The runner's thread calls the strategy with the candles that the market adapter
queues; the strategy keeps a position of its own and sends orders through the
adapter, which waits for the event loop. What the sync engine learns of fills it
publishes on a bus, from which the trade journals and the execution recorder write
their tables. Intents, execution events and heartbeats write the system state, whose
deltas and snapshots the hub sends to the browsers. The control routes change
settings in threads of the server's pool, while coroutines of the same server start,
stop and create the sessions that read them.

**What is hard.** Every check in the orchestrator is stale after the next
`await`; locks are aborted from under their owner (`abort()` checks no owner);
confirmation deadlines race late fills; journal appends can raise anywhere,
including in the handlers of other errors; the restart writes `status` without
looking at it; order and position reports of one fill come in either order and
hints swallow some of them; a symbol switch takes seconds, in a thread, without
the lock that serialises intents; a stop joins a thread that may be waiting for
the loop the stop blocks; starts, stops and restarts suspend between the flags they
read and set; a save takes its payload before its lock; a crash falls between a
commit and the removal of a file; candles stop while a socket reconnects; daily
rules meet the exit of a trade on one bar. `PROJECT.json` lists these hazards at their lines.

**What makes each component correct.** The policy: what is allowed can be
planned and, executed, verifies. The lock: orders of different executions never
interleave on the exchange. The window: open exactly while a submission
executes. The supervisor: no market order goes out in a state other than READY,
and a frozen system sends nothing. The journal: rows of an execution are in order
and true. The breaker: its count can be told from the journal. The submission: it
returns, and the lock is given up. The local picture:
it ends at the exchange's position, whatever the order of the reports. The
session: one intent at a time and each once, and one runner on the symbol that
was asked for last. Start and stop: what trades is watched, and an event arrives
once. The strategy: rules that forbid entries never drop an exit, and no entry
comes without its retest. The risk court: what the code law forbids stays forbidden
for the day. The window of candles: each once, in order, with no hole of its own
making. The trade journal: it books what closed, once, and agrees with the exchange.
The system state: what it says of an intent is true and the browsers end with it.
Settings: what a request acknowledged survives.

## 2. Modules

| Module | Models | How |
|---|---|---|
| `ExecutionPolicy` | policy, planner, verifier | pure operators over positions as sequences of entries |
| `PolicyPipeline` | the shadow/live pipeline over an exchange that fills at once | `Evaluate`, `Plan`, `ExecuteStep`, `Finalize` |
| `ExecutionLock` | lock and window | operators from record to record; the caller owns the variables |
| `Reconciliation` | drift detector, invariant engine, the supervisor's verdict | pure operators |
| `ExclusiveExecution` | what the lock promises | abstract specification: `Grant`, `Act`, `Follow`, `Revoke` |
| `OrderExecution`, `OrderExecutionMC` | one session's execution stack: orchestrator, bracket tasks, closers, supervisor, stream, journal, exchange | one action per stretch between two awaits |
| `OrderExecutionProofs` | | theorems and proofs about `OrderExecution` |
| `SyncEngine` | sync and position engine, the stream's reports, bracket tasks | one action per report, task or exchange event |
| `SyncEngineProofs` | | theorems and proofs about `SyncEngine` |
| `TradingSession` | a live session: routes, runner, symbol switches, intent queue | one action per stretch between two awaits, or between two waits of a thread |
| `TradingSessionMC` | | symmetry and a bound of `TradingSession` for TLC |
| `TradingSessionProofs` | | theorems and proofs about `TradingSession` |
| `Supervision`, `SupervisionMC` | starts, stops, restarts, supervisor loops, user-stream listeners | one action per stretch between two awaits of each coroutine |
| `SupervisionProofs` | | theorems and proofs about `Supervision` |
| `BreakoutStrategy`, `BreakoutStrategyMC` | `DualEngine`, the long and short engines, the account's daily rules | one step per bar |
| `RiskCourt`, `RiskCourtMC` | the risk package of `trading_core` | one action per update, command or intent |
| `TradingCoreProofs` | | theorems and proofs about `BreakoutStrategy`, `RiskCourt`, `PolicyPipeline` and `LiveMarket` |
| `LiveMarket` | history cache, feature window, websocket, runner queue | one action per load, candle or disconnection |
| `TradeJournal`, `TradeJournalMC` | trade journals, execution recorder, archive, crashes | journal operations as functions of what one journal may change; one action per report |
| `TradeJournalProofs` | | theorems and proofs about `TradeJournal` |
| `SystemState`, `SystemStateMC` | execution block, intents, heartbeats, hub, browsers, daily drawdown | one action per stretch between two awaits |
| `SystemStateProofs` | | theorems and proofs about `SystemState` |
| `ControlConfig` | runtime and session settings, session creation, backtest threads | one action per stretch a thread runs between shared reads and writes |
| `ControlConfigProofs` | | theorems and proofs about `ControlConfig` |

The detailed modules meet at narrow places. `OrderExecution` takes from
`TradingSession` that one intent is submitted at a time (`OneSubmission`, a
theorem); `TradingSession` has an execution as one step that may or may not move
the position; `SyncEngine` has it as a lock that is held while orders go out, and
is the detail of the one action `StreamPosition` of `OrderExecution` and `Sync` of
`TradingSession`. `Supervision` has any verdict of a tick where `OrderExecution`
computes it, and several loops where `OrderExecution` has one. `TradeJournal` takes
from `SyncEngine` what it publishes of a fill; `SystemState` has an execution as a
call that returns or raises, and the local position as something that follows.
`LiveMarket` ends where `TradingSession`'s runner takes a bar and `BreakoutStrategy`
begins.

### OrderExecution

The variables are the objects of the running stack: `status` and `streamFrozen`
(`execution_state`), `lock`, `window`, `orch` (where `submit_intent` awaits and
its locals), `failures` (the breaker), `closer` (manual-close tasks),
`manualOpen` (the sync engine's two flags), `sup` (the supervisor's task),
`local` and `exch` (the net position as the bot and as the exchange see it),
`working` (orders accepted and not yet filled), `orders` (a history of accepted
orders), `journal`. `lastExec` numbers executions where the code draws a uuid.
An action is the code between two awaits, so the interleavings of TLC are those
of the event loop; `orch.pc` names the await.

Abstractions, each on the side of more behaviour unless noted:

- The exchange keeps one symbol in one-way mode; a position is an integer. An
  order is accepted once, accepted with its reply lost, or refused; the trade
  client's retries are part of that step, because the exchange drops a second
  order with the same client id.
- A fill may be partial, late, or never come; the owner of the account may trade
  by hand. Fills are reported by the stream in any delay; `StreamPosition` may
  apply a report in cases where the code's manual-open branch returns early.
- The FILLED order report starts a manual close; what it does to the local
  position, and which brackets are pending, is in `SyncEngine`.
- `PlaceBrackets` is a bracket task: one from the reply to an OPEN that tells of a
  fill, one from its FILLED report. Each passes the trade client's guard alone
  (`TradeGuard`), which lets any id pass when nothing runs and looks at FROZEN only.
  A task may run at any moment after its OPEN was accepted, or never, so it may come
  late, while the next execution runs. Its stop and target are one entry of `orders`;
  that one of them is reached is a `UserTrade`, a move of the position nobody ordered.
- Both kinds of EXECUTION_FAILED row (`RUNTIME`, `FINALIZE_MISMATCH`) count as failed.
- The supervisor always judges strictly. Its grace mode looks at the window of
  the bootstrap, while the session builds a second orchestrator with a window of
  its own (`backend/core/trading_session.py:334-342`), so it never sees it open.
- The restart guard looks at a lock nobody takes (`live_execution_system.py:69`;
  `live_bootstrap.py:159` replaces the system's lock, not the guard's).
- One submission runs at a time: the session's asyncio lock serialises intents
  (`intent_ws.py:139`, `strategy_execution_adapter.py:136`).
- Boot is the end of `build_live_execution_system`: READY, flat or holding, breaker 0.

### ExclusiveExecution

The abstract promise: the right to act is given to one holder at a time, each
newer than the last, may be revoked, and only the holder acts. What follows an
execution up, its brackets, needs no right, but never comes between what another holder
does (`Follow`). `OrderExecution` implements it with `holder <- lock.owner`,
`newest <- lastExec` and the accepted orders, with their execution and whether they
follow one up, as `acted`.

### SyncEngine

One symbol in one-way mode. The exchange has at most one market order at work
(`order`), fills it in parts or lets it expire, and sends reports into `stream`.
`Receive` is `SyncEngine.on_user_event`: `OnPosition`, `OnNew`, `OnFilled` are its
branches, `ApplyEvent` is `PositionEngine.apply_event`, and `positions` keeps the
engine's list, which can hold both sides of a symbol. `botOpen`, `manual`,
`recent`, `reduceGuard`, `partials` are the flags and dictionaries by which the
code tells its own orders from trades by hand and one report of a fill from the
other. `brackets` and `tasks` follow the stop-loss and take-profit orders from
registration to the trade client's guard.

- Reports arrive in the order sent, but for every fill either of the order report
  and the position report may be first. A restart drops what is on its way.
- Time is abstract: the two seconds of `_last_execution_ts` and the three of the
  reduce guard end in `Elapse`, at any moment.
- An execution (`owner`) may start when the lock is free and end at any time;
  `OrderExecution` has its detail. The freeze check of the trade client is left
  out: it only makes fewer orders.
- The exchange trims a reduce-only order to the position and refuses it without one.
- `disturbed` is a history of the traffic the engine cannot follow, listed at
  its definition. The properties speak of the rest; section 5 says what happens
  otherwise. The rest includes trades by hand that open a position or close it in one
  fill, orders of the bot in any number of fills, and restarts that lose no report and
  fall between no two fills of a close.

### TradingSession

A session in mode `live`. `Start`, `StartMarket`, `StartRunner` are the start route and
`LiveService.start`; `Stop`, `StopSystem`, `StopSession`, `StopDone` the stop route.
Both block the event loop while they join or build (`LoopBusy`), and intents
stand still then. `runners` are the `LiveRunner` threads; a thread that was
started sets `running` when it begins and so undoes a `stop()` that came before.
`Request` is `request_symbol_change` in a thread of the pool, `TryApplyPending` the
thread a bar starts; both wait for the old runner (10 s) and for the new market's
history before `Replace`. The history comes over REST and may raise: `ReplaceFails` and
`StartMarketFails` are what the code leaves then (section 5), and `failed` remembers it
until another market is built. `tasks` are the coroutines of the websocket and of
`StrategyExecutionAdapter`; `Acquire` takes the session's asyncio lock and runs
`inject_intent` to its first await.

- An execution may open, close or do nothing (`Execute`), in any number of fills.
- Candles come at any time, also from a market that was stopped. A bar thread that
  applies a pending symbol may run late.
- The daily drawdown block and other refusals are a free choice in `Acquire`.
- Joins return when the thread has ended or, after their timeout, while it is in a
  bar; a runner that waits for a candle looks every second and so ends in time.
- The check of `request_symbol_change` and the assignments up to its join are one
  step: they wait for nothing, though a thread switch is possible there too.
- The symbol stored for the session may be any at a start: a symbol request for one
  session stores it and then fails with a `NameError`
  (`routes_control.py:58` calls `ensure_engine_config`, which it does not import).

### Supervision

`LiveExecutionSystem.start`, `stop` and `restart` are coroutines that suspend between
reading one flag and setting another. `co` holds what each of them does and where it
waits; a slot also stands for a supervisor loop. They are called by the session's
tasks (`tasks`, created by `StartSession`, `StopSession`, `RestartSession`), by the
dashboard's routes (`StartLive`, `StopLive`), by a tick about itself (`TickDrifted`,
`TickCrashes`) and by the verification that ends an execution
(`ExecutionMistrusted`). `Halt` is what a stop does before its first await, `Start` what a
start does before it connects, `Connected` the rest. `listeners` are the user stream's
tasks that still hand events on; only the newest can be cancelled.

- What a tick concludes is a free choice (`OrderExecution` computes it). A tick always
  judges strictly, as in `OrderExecution`.
- The freeze of the user stream is left out: nothing lifts it.
- `vouched`: an execution older than a start may set READY when it ends, after the
  start found a fatal drift and returned. `SupervisedWhenReady` sets it aside.
- `crossed` counts the stops that ran into a connecting start, whose listener nobody
  can cancel any more; `EventsArriveOnce` allows one listener for each.

### BreakoutStrategy

One step is one bar: `OnBar` is `DualEngine.on_bar` with the day change, the daily rules,
the exit of an open trade and both engines, in the order of the code. `engine` is what
each engine keeps of the level it waits on, `position` the engine's own position,
`account` the counters of the day. The short engine is the long one with prices negated,
and the model writes it so (`Face`).

- Prices are ranks; depth is a percentage of the range, as in the code. Indicators and
  filters (session hours, trend, momentum) are a free choice of whether a breakout
  counts and an engine is called. Money counts in units of the risk of a trade.
- The first of `RANGE_LEVELS` decides, because a breakout that passes for a longer range
  passes for every shorter one; the module's header says why.
- A configuration with `counts` is a backtest account; without, the stateless account
  of a live session, for which only the drawdown counts.
- `hidden` counts the bars an engine that waits is not called with: while a position is
  open, on a blocked day, when the filter is off. Its clock stands still then, and
  `EntryFollowsRetest` excuses exactly these.

### RiskCourt

`RiskState` field by field. `EquityUpdate` judges an update (`DailyStop`, `Blocks`);
`Rollover` starts a day; `ManualFreeze`, `ManualUnfreeze`, `UpdateLimits` are the dashboard's
commands; `Rebuild` builds engines with the limits in force; `Grant` is `allow_trade` with
the daily guard, `MarkTrade` and `Abandon` what follows. A limit is `{}` (None) or `{n}`.

- The package is exercised by `tests/step7` alone. How its parts are wired is taken from
  their constructors: engines keep the limits they are built with, so a tightened
  limit reaches them only when they are built again.
- Intents are granted one at a time and marked as trades before the next.
- Percentages are whole numbers, compared by multiplication.

### LiveMarket

A candle is its index in time. `Load` is a new `BinanceMarketAdapter` with its history (cold, or
the class-wide cache and a warm load); `Connect`, `Disconnect` the websocket client; `Push`
`_on_ws_candle` with `push_candle`, the rebuilt hourly context and the queue; `HandleBar`
the runner. A candle loaded while it is open is `partial`.

- `missed` are candles that closed while no websocket took them; the code never asks
  for them again. `skipped` are those a warm load (5 bars) did not reach back to.
- A websocket holds at most one candle on its way; the exchange closes the next one
  after it is received.

### TradeJournal

`World(j)` is all that one journal can change, and the journal's methods are functions
from world to world; `Becomes` writes one back. `Publish` hands a fill to the execution
recorder and to the journal that the bus finds on the call stack (`TargetJournal`).
`openFile` is the one `open_trade.json` that all journals share. `Crash` keeps the disk;
`CrashAfterCommit` falls between the row's commit and the removal of the file.
`archive`, `Archive`, `Reset` are the dashboard's.

- Two regimes, chosen in `Init`: in "crash" the bot's own orders and a process that may
  die anywhere; in "hand" the owner reduces, adds and turns by hand and reports are
  doubled. Both at once lead to journals that no property describes.
- `missed` and `misled` are histories of the cases the journal cannot follow (a report
  lost in a crash; an addition by hand, a turn to more than the double, two like closes
  within 0.35 s), listed at their actions.
- The recorder forgets its keys after 10 000 fills, which is out of bounds.
- No client order id occurs twice, so no fill is merged into a trade's entry.

### SystemState

`block` is `state["execution"]`; `Resume` (the intent), `ExecuteReturns`, `ExecuteRaises`,
`Heartbeat`, `StatusMoves` and `EmitSnapshot` write it. `outbox` are deltas whose hub task
has not run (`Broadcast`), any number of them. A delta refers to the execution dict and is
serialised when its task runs: `{}` is a delta that refers to the current dict, which
intents, results and `inject_intent`'s position are written into; `_refresh_execution` puts
another dict in its place, and what waits keeps the old one (`Detached`). A snapshot is
sent at once and overtakes what waits. `ws`, `members` and `view` the browsers' connections, what the hub
holds of them and what they show. `daily` are the session's `_daily_*` attributes.

- Two regimes: "browsers" (connections, requests, one intent, a position that is long or
  flat, for SHORT is its mirror image) and "intents" (several, while equity and days
  move, and nobody is connected). The loop counts of restarts are in both.
- Other blocks hold nothing that a decision depends on.
- `late` stands for the age of the active intent (1.5 s).
- `ViewsConverge` speaks of what a browser is `Told` of intents and of the status. Of the
  position it would be false (section 5).

### ControlConfig

`memory` and `disk` are `runtime_config` and its file, `files` the settings stored per
session, `sessions` the live objects. The routes of `routes_control` and the dashboard's
creation of a session are sync functions: `SetRuntime`, `BuildPayload`, `WriteRuntime`,
`ReadRisk`, `PushRisk`, `LoadStored`, `WriteStored`, `FindNoSession`, `RegisterFound` are the stretches
of a thread between what it shares. The coroutines of `routes_session` are single steps.
`Restart` is a new process: settings from the file, no sessions.

- Of each store one key that both have (`risk_percent`) and one of its own.
- `kept` and `promised` are what a request acknowledged, with an older save that was
  already under way set aside (`stale`): it overwrites, and section 5 says so.
- A thread of a backtest runs to FINISHED or ERROR under fairness.

## 3. Runs

| Run | Question | Bounds | Why they are enough |
|---|---|---|---|
| `policy_pipeline` | Do policy, planner and verifier agree? | two symbols, up to two entries, sizes up to 4 at lot size 2 | every transition class, a foreign symbol, a hedge, an amount below the lot and one between two lots occur |
| `order_concurrency` | Are orders exclusive, do they keep to READY, are lock and window never leaked, does the lock implement `ExclusiveExecution`? | two executions, one manual-close task (which may be started again), two trades by hand, one bracket placement, size 1 | a REVERSE has two orders; the close, and the bracket task of an older execution, may precede, fall between or follow them |
| `order_faults` | Are journal and breaker right under failures, and does every submission return? | two executions, size 2 (partial fills), one failing append, one lost reply, threshold 2 | the second failure trips the breaker; a fault falls in every place an append occurs |
| `sync_engine` | Does the local picture end at the exchange's position, on one side, with no manual open forgotten? | two orders of size up to 2, one execution, one restart, one refused bracket, start flat or holding | open then close, close by parts, a fill's reports in both orders, a restart between any two of them |
| `trading_session` | One intent at a time, each once; one runner, on the symbol asked for last? | two symbols, two switching threads, four requests of any kind, two intents, both at most five (`Bounded`), any load may fail | start, switch, switch back, and again after a load that failed; start, switch, stop; start, stop, start; a strategy intent that timed out beside one of the websocket |
| `supervision` | Is a system that trades watched, does an event arrive once? | three coroutine slots, two listeners, three requests | a stop within a start within a restart; a loop that restarts itself beside a start; a second listener exists |
| `breakout_strategy` | Do the daily rules forbid entries and never an exit, does an entry follow its retest, once? | four prices, nine bars, days of four bars, `RANGE_MAX_BARS` 2, three configurations | breakout, retest and entry on both sides, a trade over the change of day, a stop that ends the day, two days blocked in a row |
| `risk_court` | Does what the code law forbids stay forbidden? | four amounts, two intents, three dashboard updates, three trades a day | tighter, looser and partial updates; a day that loses, regains and rolls over; engines built before and after |
| `live_market` | Is the window whole and the hourly context fresh? | histories of seven bars, windows of six, at least four, hours of two, warm loads of two, twelve candles, three adapters, one disconnection | a full window, a warm load that reaches and one that does not, a full queue |
| `trade_journal` | Is each fill booked and recorded once, does the journal agree with the exchange? | one session and the legacy journal, two prices (symmetric), size up to 3, four orders, two crashes, two reports on their way | open, close in parts, turn and close again; a crash in every place, a second one after the restore |
| `system_state` | Is what the state says of an intent true, do the browsers end with it, is no failed intent left open? | one browser, two intents, two moves of the exchange, two requests, two deltas that wait at once (`Bounded`), two days | an intent replaced by the next, invalidated before its answer, a restart's second heartbeat, a browser between two deltas, a snapshot that overtakes two of them, a position taken back |
| `control_config` | Does an acknowledged setting survive, do racing updates converge, does a backtest end? | two threads, three requests, two values, one session, one restart, two backtests at a time | two saves in each order, a save over a restart, a creation beside an update, a backtest begun after a stop |

`CHECK_DEADLOCK FALSE` is set where the bounds end a run (executions, orders,
requests), and because a frozen system may really stop.

**Bounds.** Constants named `Max…` bound how often something happens and appear in guards
only: executions, failing appends, lost replies, brackets and trades by hand in `OrderExecution`;
orders, restarts and refused brackets in `SyncEngine`; start, stop and symbol requests
together, and intents, in `TradingSession`; requests in `Supervision` (its `MaxCrossed` is one
less than the listeners, beyond which further ones could not be told apart); orders,
crashes and reports on their way in `TradeJournal`; intents, moves, requests and
days in `SystemState`; requests, backtests and restarts in `ControlConfig`; time, loads and
disconnections in `LiveMarket`; bars in `BreakoutStrategy`; trades a day in `RiskCourt`. The
theorems hold for all of them. `sync_engine` with three orders was explored to 27 million
states without a violation; it does not finish in reasonable time.

Two runs have a constraint on states instead, so that no action waits for a bound:
`trading_session` follows three requests beside two intents, or four beside one;
`system_state` leaves out orders in which three deltas wait at once. The event loop runs
a hub task in the turn after the one that created it, so three would need three writers
within two turns. `order_faults` has no brackets, which have no rows and which no
submission waits for, and no trades by hand. `order_concurrency` tells states apart
without the journal (`VIEW AllButJournal`), which no action reads and none of its
properties mentions. In `OrderExecution` a trade by hand keeps the position within
`MaxSize`.

**Fairness.** `OrderExecution!FairSpec` assumes weak fairness of `Orchestrate` and of each
`CloserStep`: asyncio runs every ready coroutine, and each poll loop has a deadline (15 s
for the fill, 5 s for the local picture) after which it goes on. Nothing is assumed of
the exchange, the stream, the supervisor, the owner or of new submissions. That the
lock is given up needs no property of its own: a taken lock has a live holder
(`LockHasLiveHolder`) and the holder returns (`SubmissionReturns`). `SystemState!FairSpec`
assumes that timers fire (`Heartbeat`, which beats every second, and `GracePasses`), that
created tasks run (`Broadcast`, `SnapshotOfStart`) and that the sync engine follows the
exchange (`SyncFollows`, which `SyncEngine` has in detail); nothing of intents, browsers,
requests or the end of an execution. `ControlConfig` assumes that the threads of
backtests run and that a backtest, a loop over a file, ends.

## 4. Proofs

`OrderExecutionProofs` proves, for every value of the constants that
`OrderExecution`'s assumptions admit (any sizes, any set of closers, any bounds):

| Theorem | Says |
|---|---|
| `TypeCorrect` | `[]TypeOK` |
| `NeverInterleave` | market orders of different executions never interleave, and no bracket comes between two of another execution |
| `ImplementsExclusive` | `OrderExecution` implements `ExclusiveExecution` |
| `LockNeverOrphaned` | without journal faults a taken lock has a holder that will give it up |
| `WindowNeverLeaks` | without journal faults the window is open exactly while a submission executes |
| `MarketOrdersAlwaysNeedReady` | no market order is accepted outside READY, no bracket while FROZEN |
| `JournalTellsOrders` | `[]JournalCoversOrders`: the journal's SENT rows and the orders agree |
| `BreakerTellsTheRun` | `[]BreakerMatchesJournal`: the breaker counts the newest executions that failed in a row, from the newest finalize mismatch on |

`TypeOK` is not inductive: `StepQty` reads the head of the plan, so one needs
that a submission that waits for an order still has its step, and that whoever
acquired the lock carries an id. `IInv` adds both, and `IInvHolds` is the
invariant everything else stands on. For exclusion, `OrderInv` adds that the
market orders are sorted, that the last one is not newer than `lastExec`, and
that the lock's owner is either 0 or `lastExec`: an aborted owner never comes
back, because the next `acquire` draws a newer id. Every action is classified
once (`EveryStep`): it leaves lock and orders alone, grants the lock to a new
id, acts as the holder and perhaps gives the lock up, or places brackets while the
lock is free or its own; invariance and refinement both follow from the four cases. The leak theorems split by
action, `Owned` relating the lock's owner to the program counter.

The two journal theorems count rows and orders of an execution. `JournalInv` adds to the
counts whose they are (`RowsDrawn`): a journal belongs to an id that was drawn, a submission
has one from the start, a manual close, which writes no row but does order, never.
Otherwise an order could be counted to the journal of another execution.
`BreakerMatchesJournal` is about rest; while a submission executes, its journal exists and
has no verdict yet, so `CountsRun` compares the count with the run of the others
(`ConcludedRun`), and `NewestUnderWay` says that the one under way is the newest, so that its
verdict ends or extends that run. Ids are bounded in the model; `RoomInv` says that who
waits for the lock still has one to draw, or else a submission could fail unjournaled.

`TradingSessionProofs` proves, for any number of threads, requests, timeouts and
intents:

| Theorem | Says |
|---|---|
| `SymbolsTyped` | symbols that may reach an intent are symbols |
| `SessionSerialises` | `[]OneSubmission`: one intent at a time between the guard and the orchestrator's return |
| `CopiesAreDropped` | `[]AtMostOnce`: copies of a websocket intent are executed at most once |
| `TypesAlwaysHold` | `[]TypeOK` |
| `SwitchesAlwaysConverge` | `[]SwitchesConverge`: at rest one runner at most, on the symbol of configuration and market; none, if the last market could not be loaded |
| `LastRequestAlwaysWins` | `[]LastRequestWins`: at rest the symbol asked for last is active, or pending, or stored by a start that failed |

`OneSubmission` alone is not inductive: an injector must also hold the lock
(`InjectorHolds`), or `Acquire` could add a second. `AtMostOnce` rests on two facts
about the whole list, of which it mentions only a part: every websocket id in it
is marked (`Marked`), and occurs once (`Single`). Two lemmas say what a new intent
and one that moves on do to the list, and every action is one of the two or
leaves it alone. The one assumption on constants is that no websocket id is the
name under which strategy intents are listed; the code draws uuids.

`SwitchesConverge` and `LastRequestWins` are about a session at rest, so neither is
inductive. `RequestInv` covers the time in between with one formula for each request that may
be under way: a session at rest is `Settled`; while `start` loads or builds no runner lives and
the configuration has its symbol (`StartsAlone`); a symbol switch that stopped the runner is
alone with the symbol it will start (`SwitchesAlone`). A load that fails ends in a rest of
its own: `SwitchFailed` or `StartFailed` instead of `Converged`, with no runner alive,
until another request builds a market. All of it holds while
`wanted` names a symbol: requests that overlap clear it, and then nothing is claimed.
Runners that wind down are handled once, by `RunnersAlone`: a runner that was told to
stop never lives again.

`TradingCoreProofs` proves of `RiskCourt`, for every code law, every dashboard command and all amounts:

| Theorem | Says |
|---|---|
| `CourtInvariant` | `[]CourtInv`: types, and the two facts below |
| `DrawdownAlwaysFreezes` | `[]DrawdownFreezes`: a drawdown the code law forbids keeps the system frozen |
| `StopAlwaysLasts` | `[]StopLastsTheDay`: after a forbidden daily loss nothing passes that day |
| `TradesAlwaysWithinLaw` | `[]TradesWithinLaw`: no day holds more trades than the code law allows |

The properties compare what happened with the code law, while the engines look at
limits of their own, which commands change. What connects the two is `LawHolds`: some
limit the engines hold is no looser than each limit of the code law. `PickIsTighter` and
`EffectiveIsTighter` say that the resolver cannot produce anything else; `FlagsHold` says
that a breach of the code law has raised the flag that stands for it, and only a new
day lowers both.

`ControlConfigProofs` proves, for any number of threads, sessions, keys, requests and
restarts:

| Theorem | Says |
|---|---|
| `ControlInvariant` | `[]IInv`: types, and what the copies on their way hold |
| `RuntimeSurvives` | `[]RuntimeIsDurable`: a saved setting survives later saves and restarts |
| `SettingsSurvive` | `[]SettingIsKept`: an acknowledged field survives updates of the others, and its session's creation |
| `RiskAlwaysConverges` | `[]RiskConverges`: no session is left with a global risk that is no longer in force |

Each property speaks of a place (a file, a live session), which another thread may be
about to overwrite with a copy it took earlier. So each invariant says of the copies
what the property says of the place: `CopiesKeep`, `StoresKeep`, and `PushIsFresh` for the
risk. A save may promise its value because every other copy on its way holds the same
(`CopiesAreFresh`); that is what `stale` records, and TLC had shown that marking only the
writer that is overtaken before it built its payload is not enough. Where a session's
risk is behind, some request is about to push (`Behind => PushComes`).

`TradingCoreProofs` proves of `BreakoutStrategy`, for all prices, candles, configurations and numbers of
bars:

| Theorem | Says |
|---|---|
| `StrategyInvariant` | `[]IInv`: types, and the facts below |
| `BlockNeverTraps` | `[]BlockedMeansFlat`: a blocked day finds no position open |
| `EntriesFollowRetests` | `[]EntryFollowsRetest`: no entry is stale or too deep |
| `OneTradePerBreakout` | `[]NoSecondEntry`: one trade for a breakout |
| `DrawdownLasts` | `NoEntryAfterDrawdown`: no entry for 24 hours after a drawdown |

`BlockedMeansFlat` carries itself, because a loss closes the position in the step that
counts it and a new day only lowers what is counted (`TodayIs`). `EntryFollowsRetest`
looks back to a breakout; `Paced` is what a waiting engine knows of it: the bars since
are those it counted and those hidden from it, and without hidden ones it has seen
the worst price. `BlockLasts` says that the block outlives the reset of the day.

It proves of `PolicyPipeline`, for any symbols, sizes and lot size, on the accounts of the
model, which have at most two entries:

| Theorem | Says |
|---|---|
| `PipelineTypes` | `[]PipelineTypeOK` |
| `PlansMatchTransitions` | `[]PlanMatchesTransition`: a REVERSE closes first, reduce-only; a CLOSE opens nothing; an OPEN closes nothing |
| `AllowedIntentsComplete` | `[]AllowedIntentCompletes`: what the policy allows ends at its target, with the exceptions the property names |

The result of a plan is compared with a decision taken on an account the plan has changed
since. `PipelineInv` therefore says that the decision is the policy's on the account as it
was (`Chosen`), and that while the plan runs the account is at one of three places:
as it was, without the symbol that was closed, or with the entry that was opened
(`Progress`). `PlanShape` relates the steps still to come to those places, `PlannerRefusal`
says that nothing is refused but a change of size and an emergency. The sum behind
`Project` and the filter behind a CLOSE are recursive functions; they are computed for lists
of up to two entries by giving a function that satisfies the recursion.

And of `LiveMarket`, for any history, window, minimum and queue (the window and the minimum
whole numbers of hours, as 1200 and 300 are of 12), and any number of adapters and
disconnections:

| Theorem | Says |
|---|---|
| `MarketTypesHold` | `[]MarketTypeOK`, with the limits of cache and queue |
| `GapsAlwaysAccounted` | `[]GapsAreAccounted`: the window has no hole but what was missed or skipped |
| `ContextAlwaysFresh` | `[]ContextIsFresh`: the hourly context is at most an hour behind |

`MarketInv` follows each candle: from the first bar of the window to the candle in progress,
each one is final in the window, on its way, or lost (`Covered`); the cache is covered in
the same way, but only up to its newest bar, since nobody adds to it between two loads. What
a load adds to the lost ones is exactly what lies between the cache and the warm load.
For the context, `Fresh` says that the bars ahead of it are at most those of the hour in
progress and one more. When the window is full, as many bars leave it as enter, so the
count must stay a multiple of the hour: `KeptCount` proves that `tail(n)` keeps exactly
`n`, by induction on finite sets (a smallest counterexample, `MinimalSubset`).

TLC refuted an earlier form of `ContextIsFresh`, which spoke of every window: below
`MinBars`, where `push_candle` returns `None`, no context is built, and for a minimum of
more than two hours it may be further behind. The strategy is not called then, and
the property now says so.

`SupervisionProofs` proves, for any finite sets of coroutines and listeners (the
assumption `FiniteAssumption`) and any number of requests:

| Theorem | Says |
|---|---|
| `SupervisionInvariant` | `[]IInv`: types, and the facts below |
| `AlwaysSupervised` | `[]SupervisedWhenReady`: a running system that trades is watched |
| `EventsAlwaysArriveOnce` | `[]EventsArriveOnce`: a further listener takes a crossed stop |

Both properties speak of quiet states or of a bare count, so neither carries itself.
`Watched` says why a system may run unwatched: a start connects, and will start the
supervisor, or a start returned early and left the state frozen, which no execution
begun since can lift. `Counted` counts a connecting start as the listener it will
add: orphans, connecting starts and the live listener are at most one more than the
stops that crossed, and at most that many while the system does not run, which is when
the next start may add one. `Cancellable` says that a stream that is down has no listener
a stop could still reach.

`SystemStateProofs` proves, for any browsers, sizes, equities and bounds:

| Theorem | Says |
|---|---|
| `SystemStateInvariant` | `[]IInv`: types, and the facts below |
| `StatusAlwaysTrue` | `[]StatusIsTrue`: what is shown as completed has completed |
| `NeverResolvedTwice` | `ResolvedOnce`: what is resolved stays as it was resolved |

The block is copied into the last delta, the queue of the hub and every browser, so the
invariant speaks of a set: `TrueBlocks`, the blocks that call an intent completed only if
its own execution returned success. It grows with `executed`; `Said` keeps all copies in
it, and a delta that refers to the current dict says what the block says (`DetachedSays`). `Fresh` is the argument that a result resolves the right intent: what executes is the
active intent, if one is still active, and an active intent is the last one and open;
an id is larger than all the block has named.

`TradeJournalProofs` proves, for any sessions, prices, sizes, numbers of orders, crashes
and reports on their way:

| Theorem | Says |
|---|---|
| `TypesAlwaysHold` | `[]TypeOK` |
| `ArchiveNeverRefusesATrade` | `[]ArchiveKeyIsUnique`: the archive ignores no row that is another trade's |
| `EveryFillHasItsRow` | `[]ExecutionsAreRecorded`: an order has one row in the execution history |
| `NoCloseIsBookedTwice` | `[]BookedOnlyWhatClosed`: no more is booked than the exchange closed |
| `AnOpenTradeIsAPosition` | `[]OpenTradesAreReal`: an open trade, once reports are handled, is the exchange's position |
| `OneJournalAgrees` | `[]JournalAgrees`, if there is one session |

What a journal knows is always behind what the exchange did, by the reports on their
way, so no relation between the two is inductive by itself. The proof speaks of *points*, a
position and the quantity closed so far. `IsRun` is a sequence of points, each reached
from the one before by a report (`Opens`, `Shuts`, `Turns`), or the same if the report is a
copy; `Reaches(x)` says that the reports on their way lead from `x` to the exchange. `JInv`
is: each session's journal stands at such a point (`Stands`), with its trade the position
there and no more booked than was closed by then. Handling a report moves the journal to
the run's next point, an order adds one at its end, a copy adds none (`OrderInv` says copies
follow their original). A crash loses the reports and the memory; what remains is the
file, so a trade restored from it is `HeldBack` until the exchange confirms it: the
exchange has that position, or is flat, and then no report is to come. `WhereInv` says that
a trade is in one of these places only.

`JournalAgrees` says besides that the journal misses no position. That rests on
`open_trade.json`, which all journals of a process share: with two sessions the second
overwrites the first one's trade, a crash then loses it, and TLC refutes the property
for two sessions. `OneJournalAgrees` assumes `OneSession`; `AloneInv` says which
trade the file then holds. `OpenTradesAreReal`, the half that does not need the
file, is proved for any number of sessions.

`SyncEngineProofs` proves, for orders of any size in any number of fills, and any number of
orders, executions and restarts:

| Theorem | Says |
|---|---|
| `TypesAlwaysHold` | `[]TypeOK` |
| `Convergence` | `[]LocalConverges`: with every report handled, the local position is the exchange's |
| `OneSided` | `[]NeverHedged`: one entry at most, with reports on their way too |
| `PendingCloseIsSpawned` | `[]PendingIsResolved`: a pending manual close has its FILLED report still to come |

Here too the local state is behind the exchange by the reports on their way, but it is
more than behind: hints and guards make it skip some reports and overwrite by others. So the
proof has *views*: what the reports up to some point have told, the position before the
order at work, how much of it is filled, and which of a fill's two reports came first.
`Tells` is what each report does to a view, `IsRun` a sequence of views along the reports
on their way, and `Matched` says that from a view the local state `Sees` they lead to what
the exchange has `Told`. `Sees` is the argument about the code: how much of the order the
local position `Shows` in each phase, when the hint `botOpen` is set, when the order is in
`partials`, and that a manual close is pending only between fills of an opening order,
whose FILLED is then still to come. One lemma for each pair of a phase and a report proves
that handling it leads to the next view. `Limit` says that the order at work stays within
the position it closes; `Mid` and `LinkInv` are what the snapshot of a restart needs. TLC
refuted an earlier form of `LocalConverges` for orders of four lots: a restart between the
fills of a reduce-only close was not set aside.

Every safety invariant and action property of the runs is proved (`JournalAgrees` for one
session: for more it is false), and the refinement. Only model-checked: the liveness
properties (`SubmissionReturns`, `ViewsConverge`, `FailedIntentIsResolved`, `BacktestEnds`),
since liveness under fairness and ENABLED are beyond the prover. So is what a recursive
definition computes for every input (the induction theorems of the library take an operator
as a parameter), hence the two entries of `PolicyPipeline`'s accounts, and whatever is in
modules that declare RECURSIVE operators.

The type invariants are theorems or parts of the invariants proved, except those of
`BreakoutStrategy`, `SystemState` and `Supervision`: they bound some variables more tightly
than the proofs need (which have a `TypeInv` of their own), and were checked with TLC.

## 5. Known divergences

Each was met while modelling; those of the modules below are behaviours of the model that
TLC reaches, and the properties set them aside by name.

What the source says of itself and the code does not keep:

- "assert confirmed flat before open" (`planner_guard.py:7`): a failing REST read counts as
  size 0 and so confirms a CLOSE that did not happen (`orchestrator.py:349`).
- A manual close that finds the lock busy aborts it, under the comment "abort correctly"
  (`live_execution_system.py:457`); the lock is the submission's.
- "THRESHOLD REACHED → FREEZE SYSTEM" (`orchestrator.py:136`) and "Cannot move to READY from
  FROZEN" (`execution_state.py:61`): a restart in flight overwrites the freeze
  (`restart_guard.py:40`) and ends READY.
- After a manual position was closed while the hint swallowed its report,
  `_manual_open_flag` stays set and the next manual open is not noticed.
- The bracket task runs while the execution still holds the lock, and its orders, under
  an id the lock does not know, are refused (`sync_engine.py:720` against "After
  orchestrator MARKET entry fills, schedule protective STOP / TP").
- A symbol switch succeeds while an order of the old symbol is in flight
  (`trading_session.py:664` against `:106`).
- "PRESERVE execution state (VERY IMPORTANT)" (`system_state_engine.py:241`): the snapshot then
  normalises that block in place and drops the active intent.
- "When set, update only this session (file + live object)" (`routes_control.py:81`): the file
  is written, then `ensure_engine_config`, which is not imported, raises (`:58`).

In `PolicyPipeline` and `OrderExecution`:

- With any position held, the plan trades the symbol of the first position instead of
  the target's (`planner.py:26` against "target is authoritative", `:18`).
- A `FINALIZE_MISMATCH` is journalled as EXECUTION_FAILED and then resets the breaker
  (`orchestrator.py:202` against `:97`), so the count is not the number of failed
  executions in a row that the journal shows; `BreakerMatchesJournal` says which it is.
- Brackets go out while SYNCING, DEGRADED or BOOTSTRAPPING, and with nobody holding the
  lock: the trade client's guard checks FROZEN only (`trade_client.py:34`) and lets an order
  pass when nothing runs (`:43`). `MarketOrdersNeedReady` and `ExclusiveSpec` name them.
- Two failing appends leave the window CLOSING (`orchestrator.py:447`, `:114`
  against `:482`).
- A late fill of the bot's own order counts as opened by hand once the lock was
  aborted (`sync_engine.py:383` against `:379`).
- A quantity below the lot size passes the check for being positive and is then
  floored to 0, which the planner reads as FLAT (`quantity_policy.py:75` against `:65`).
- The strict tick freezes the system while an execution is under way
  (`supervisor.py:167` against "NEVER freeze while execution is active.", `:295`).
- `execute_plan` reads `self.timeline`, which is never assigned
  (`live_execution_system.py:331`, `:354`): a manual close that filled raises after its
  order, and aborts the lock.

In `SyncEngine`, what `disturbed` sets aside:

- A hand order that adds to a position leaves the size of the last order.
- A full close in several fills that is not reduce-only, its last position report
  before FILLED, leaves a position on the other side that does not exist; so does
  one whose NEW was missed in a restart. One that turns the position leaves both
  sides in the engine.
- A restart between the fills of a close clears the record of its partial fills
  (`sync_engine.py:233`), and FILLED subtracts the cumulative quantity again from the
  snapshot, which has seen the first ones (`sync_engine.py:549`, `:632`).
- An order that expires after a partial fill leaves the local picture flat, when
  the hint swallowed the position report.
- The snapshot of a restart is taken before the listener has connected; a fill in
  between is in neither (`binance_adapter.py:132`).
- An entry whose reply and whose FILLED report both lead to a bracket task gets two
  pairs of protective orders.

In `TradingSession`, when requests overlap:

- Two symbol requests while the first still joins or loads leave two runners, and
  the market of whichever finished last ("Single active symbol uses one live market
  at a time", `trading_session.py:46`).
- A stop while a switch is joining or loading is undone by it: the new runner sets a
  STOPPED session to RUNNING. So does a runner that had not begun when it was stopped.
- A request answered "pending" is forgotten when an earlier switch ends
  (`trading_session.py:243`).
- A request whose load fails does not withdraw a symbol parked before it (`:242-243`), and a
  late bar thread may still apply that one; so may one after a start that kept it.
- A start of a session whose runner lives overwrites `config.symbol` with the stored
  one and returns (`live_service.py:18`); the guard then drops every strategy intent.
- A signal computed on one symbol is sent for another when the switch falls between
  the candle and `send_order` and the join times out.
- An order of the strategy that is refused, dropped or late leaves the engine's own
  position set, and pending switches wait until a candle reaches one of its levels.

And when a market cannot load its history (`binance_history_loader.py:29`):

- A switch has written the symbol and stopped runner and market before it raises
  (`trading_session.py:264`): the session stays RUNNING on the new symbol without a runner,
  with the old market. A repeated request for the symbol is answered "noop" (`:232`), so only
  another symbol or a start recovers. A switch of a bar's thread only prints it (`:304`).
- A start (`live_service.py:51`) leaves the stored symbol in the configuration, the session
  RUNNING, the old market and no runner.

In `Supervision`:

- One start of the dashboard creates two start tasks (the manager's and `LiveService`'s); the
  second returns early unless a stop came in between.
- A stop during the pause of a restart, or while a start connects, is lost.
- A snapshot that raises leaves BOOTSTRAPPING with `running` set, and no loop.
- A restart for fatal drift adds a loop to the one that asked for it; the flag ends both.
- A failing connect is only logged: the supervisor then watches without a stream. A
  listener whose socket raises ends without a word.
- `to_syncing` refuses to leave FROZEN, so the restart's branch that clears a freeze does
  nothing (`live_execution_system.py:498`, `execution_state.py:53`).
- The freeze that `verify` asks for after its own restart can hit a system that is READY
  again (`supervisor.py:252-263`).
- The restart guard captures a lock that nobody takes (`live_execution_system.py:69`
  against `live_bootstrap.py:159`).

In `BreakoutStrategy`:

- A breach on the last bar of a day is never blocked: the next bar's reset comes first.
- Daily rules count losses for `PaperAccountAdapter` only; the default account of a
  backtest never counts them, and the live account has no state.
- Long and short engines are blocked in different hours; ranges of `RANGE_LEVELS` beyond the
  first never decide; the rule for two signals on one bar cannot be reached.
- A flat range gives a stop equal to the entry; the adapter raises and the engine keeps
  the position.

In `RiskCourt`:

- Tightened limits reach the engines only when they are built again.
- The dashboard's symbols replace the code's and so may widen them (`resolver.py:37`).
- The "daily" drawdown block measures from the peak of all time, so it blocks again at the
  next update after an unfreeze; a freeze outlives the rollover that clears its flag.
- A day that starts with a balance of 0 is stopped at once; `safe_mode` is read by nobody; a
  notional without a mark price gives the verdict FREEZE and freezes nothing.

In `LiveMarket`:

- A warm load keeps holes in the history it calls complete (`binance_market_adapter.py:44`); a
  reconnect fetches nothing.
- A full queue drops the newest bar. `stop()` does not end the listener until its socket does,
  and a stop before the runner's thread runs is undone by it.
- Once the window of 1200 bars is full, the hourly bars are rebuilt at every push, from
  at most 100 hours.

In `TradeJournal`:

- All journals share one `open_trade.json` (`trade_journal.py:378` against `:23`).
- Additions by hand are ignored; two like closes within 0.35 s count once; a turn to more
  than the double is recorded whole.
- The recorder's key has no session, symbol or order: like fills, also of another session,
  leave one row, and a key is marked before its row is written.
- The frontend resets a table after an archive that failed (`dashboard_v8.js:3741-3750`).
- Closes at the exchange's own initiative would be journalled from `ACCOUNT_UPDATE`, which the
  user stream turns into `POSITION_UPDATE` first (`user_stream.py:46`), so they are not.

In `SystemState`:

- The orchestrator answers ALLOW or REFUSED only, so neither OPENED nor CLOSED anchors the
  daily drawdown of a live session, and it never blocks (`trading_session.py:889`).
- An intent that takes longer than 1.5 s, or SET_FLAT, is INVALIDATED by a heartbeat before its
  answer, which is then lost.
- A position that `inject_intent` reads from the exchange is written into the dict to which
  the intent's delta refers (`trading_session.py:720`), after the copy for comparison was taken
  (`system_state_engine.py:405`). If the intent's execution raises and the sync engine never
  saw the position, which was closed meanwhile, the next heartbeat finds the block equal to
  that copy and sends nothing: the browser keeps the position. A snapshot, which is
  compared with nothing, can do the same. So what `ViewsConverge` says of intents and
  status is false of positions, as TLC shows for the whole block.
- `/restart` adds a second heartbeat loop; the system's stop ends heartbeats for good.
- `session.risk_engine` is never set and a live session's `risk_system` is None.

In `ControlConfig`:

- The payload of a save is built before its lock; an older save may overwrite a newer one.
  `save_control_config_merge` reads outside its lock, too.
- A session's file, once written for one field, fixes all six; a global risk nonetheless
  reaches every session, whatever its file says.
- Two creations of one session may both find none; the later replaces a session that may
  already run.
- A backtest begins RUNNING after a stop; a second start runs beside the first; `start()` of a
  RUNNING session raises and shows ERROR while the engine runs.
- `trading_enabled` is looked at by the intent websocket only (`intent_ws.py:114`).

## 6. Not modelled

- **Retries and idempotency keys of the trade client**: one call is one step; no other actor
  sees its attempts.
- **Grace and verify modes of a tick, OPEN path of `execute_plan`, `open_position`,
  `_sync_position_from_exchange`, `handle_intent`, `StubExecution.execute`**: no caller reaches them.
- **Journal replay and recovery**: `RecoveryManager` is built at boot and never used, and the
  replay imports modules that do not exist.
- **Lifecycle, slots, configuration jobs** (`backend/core/session`, `core/execution`, `core/control`,
  `backend/control_plane`): wired by `backend/app.py` only; `backend/main.py`, which mounts every
  route modelled here, does not build them.
- **Backend risk** (`backend/risk`): used by `run_live_shadow.py` alone, a sequential loop. Its
  `DailyLossRule` refuses a CLOSE that another rule's docstring always allows
  (`risk_rules.py:35`), and its daily limit is measured from the first equity ever.
- **Decision orchestrator of `backend/core`**: called by tests only.
- **Paper mode**: its runner is handed no strategy and never trades; its adapter streams the whole
  file into a queue of 1000.
- **Metrics, alerts, dashboard cache, frontend**: they change no trading state. Seen on the way:
  an escalation to CRITICAL while WARNING is active only counts; the failure counter never
  falls, so its alert never resolves; panels cached for two seconds stand beside fresh ones;
  the dashboard's routes block the event loop while they ask the exchange.
- **Indicators, PnL arithmetic, numeric backtests, latency telemetry**: data.
