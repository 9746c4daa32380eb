# A TLA+ development of the trading bot

The bot trades crypto futures on its own: a worker process fetches market data,
asks a language model for a decision per symbol, passes it through deterministic
risk checks, places orders and manages the open positions; a REST API serves the
dashboard and the manual kill switch. Only the PAPER environment is wired today.
This directory models the parts of it where several processes, failures and long
sequences of steps meet, checks them with TLC on small instances and proves the
main properties with TLAPS for every value of the parameters.

`PROJECT.json` lists components, runs, mutants, the map from definitions to
source lines, findings, hazards and theorems. All source paths start at `src/`.

## Inventory

| component | state | operations | what makes it correct |
|---|---|---|---|
| bot state machine (`backend/trading_core/bot_state_machine.py`) | one of five `BotState`s in memory, one row per change in `bot_state` | `transition_to`, `force_set`, `can_trade`, `is_running` | memory follows the database; only ACTIVE opens positions |
| emergency stop (`emergency_stop.py`) | row lock on `bot_runs` | `trigger` | no stop overwrites a stronger one; a refusal frees the lock |
| orchestrator (`orchestrator.py`, `worker/run_worker.py`) | the worker's `BotRun` | start-up transaction, signals, `close` | one RUNNING run; a stopped bot stays stopped over a restart |
| cycle runner (`cycle_runner.py`) | shutdown event, `_opened_this_tick`, the open transaction | `run`, `_sync_state_from_db`, `_tick`, `_run_decision_pipeline` | a stop takes effect before the next symbol; entry limits hold inside a tick |
| kill-switch API (`api/routes_kill_switch.py`) | one request, one session | `trigger_kill_switch` | answered, final |
| health monitor, reconciliation gate | none of their own | `check_and_enforce`, `run_and_enforce` | anomalies reach SAFE_MODE, never undo a kill switch |
| reconciliation engine | reports | `reconcile` | every difference between exchange and database is reported |
| position manager (`position_manager/`) | per symbol: plan, effective SL/TP, levels left, high-water mark, trailing stop, invalidation mark | `set_config`, `remove_config`, `tick`, `update_sl`, `update_tp`, `trigger_setup_invalidation` | an open position always has an exit; stops only tighten; nothing is closed twice |
| position tick service | a lock | `tick_all` | a failed close order never leaves a position uncovered |
| execution engine (`execution/engine.py`) | orders, trades, positions, a thread pool | `execute_approved_plan` | one order per decision; a fill always has a row and a plan |
| paper adapter | positions, orders, balance | `place_order`, `cancel_order`, ... | idempotent by client order id |
| BingX adapter (`exchange_adapters/bingx_adapter.py`) | symbols of known orders, one-way and isolated flags, fee rates, circuit breaker | orders, queries, settings, each a sequence of signed requests | an order, an end and an execution it reports are so on the exchange, whatever the network lost |
| risk engine, decision aggregator | none (pure) | `validate`, `aggregate` | blocking rules block; adjustments only shrink |
| GPT client, token budget, schema guard | budget counters, circuit breaker | `request` | budget respected, failure policy applied once |
| retry and circuit breaker (`core/retry.py`) | failure count, opening time | `before_call`, `on_success`, `on_failure` | opens at the threshold, lets one probe in |
| market data (`market_data/`) | last prices and books | `tick_all`, fetch, validate | no stale or inconsistent snapshot reaches a decision |
| auth (`auth/`) | users, login lockouts | login, throttle, tokens | lockout after N failures under concurrent logins |
| signals, features, strategy registry | none | pure functions | classification total and consistent |
| storage, migrations | tables | repositories, audit | constraints match the application's assumptions |
| backtesting, replay | simulated account | run, replay | same exits as the live cycle |
| frontend, scripts | — | presentation, tooling | — |

How they interact: the worker and the API share only PostgreSQL (READ COMMITTED):
`bot_runs.status`, the latest `bot_state` row, and row locks. Inside the worker
everything runs on one thread, in the order market data, health monitor, position
ticks, reconciliation gate, decision pipeline; the pipeline awaits the model for up
to minutes per symbol with a transaction open. Within a tick the position manager
and the execution engine meet in the adapter's positions and in `set_config`.

What is hard: a kill switch racing a start-up, a SAFE_MODE transition or a symbol
in flight; row locks kept by a transaction nobody ends; workers that crash or run
twice; commits whose answer is lost; close orders that are rejected or executed
without an answer; several exit rules acting on one stop over many ticks; an order
whose call times out and fills later; requests sent again after an answer was lost;
a breaker shared by all requests of a client; rules that must hold alike on both
sides of the market and at the exact limit.

## Modules

| module | about | proofs |
|---|---|---|
| `BotControl` | runs, states, locks, workers and kill-switch handlers | `BotControlProofs` |
| `RunHistory` | the abstract history of runs that `bot_runs` and `bot_state` show their readers; `BotControl` implements it | `RunHistoryProofs`, `BotControlProofs` |
| `PositionExits` | one symbol's position and its exit plan | `PositionExitsProofs` |
| `Execution` | the tick from market data to committed orders: reconciliation, gate, execution engine, paper adapter, calls that time out | `ExecutionProofs` |
| `OrderLedger` | the abstract promise of the execution: who may send, accept and record an order; `Execution` implements it | `ExecutionProofs` |
| `MarketAnalysis` | pure: which snapshots are taken, signals, regime assessment, volatility and the leverage it recommends, aggregator | `MarketAnalysisProofs` |
| `RiskEngine` | pure, extends `MarketAnalysis`: decision schema, fees, slippage, closed trades, config limits, checks, `validate` | `RiskEngineProofs` |
| `CircuitBreaker` | the breaker of `core/retry.py` as a value, and when a retry loop gives up | with its two users |
| `Decision` | a symbol's way through the GPT client, its budget and breaker, aggregator, Risk Engine and order; extends `RiskEngine` and `CircuitBreaker` | `DecisionProofs` |
| `BingXAdapter` | the adapter's operations against the exchange and the network; extends `CircuitBreaker` | `BingXAdapterProofs` |
| `MCBotControl`, `MCPositionExits`, `MCExecution`, `MCDecision`, `MCBingXAdapter` | instances for TLC | |

Definitions marked `Fault:` are mutations of the definition they precede. They are
used by no specification: each is a plausible bug, and substituting it for the
original makes TLC report the property named in `PROJECT.json`.

### BotControl

State: the rows of `bot_runs` (numbered by age), the status and the latest
`bot_state` of each, the row locks; per worker the control point, the run it owns,
the state in memory, and what its open transaction holds (`share`); per API handler
its control point and target. `late` and `blind` are observations used only in a
property.

Handlers are split where another process can act. A start-up is *read the previous
state*, *select orphans*, *update orphans (lock)*, *insert and commit*. A
SAFE_MODE transition or a kill switch is *lock, re-read, decide* and *write,
commit*. A symbol is *re-read and check*, *insert the audit row and ask the model*,
*outcome*. `share` records why PostgreSQL matters here: a row that references
`bot_runs` takes its parent FOR KEY SHARE when it is inserted, until the end of the
transaction ("outer") or the rollback of the symbol's SAVEPOINT ("inner"), and
SELECT ... FOR UPDATE conflicts with that. Environment steps are crashes (at any
point), shutdown signals, exceptions that leave the loop, and at most `MaxDbErrors`
transient database errors, including commits that were applied although the
answer was lost.

Abstractions: a corrupt `bot_state.state` does not occur; the health and
reconciliation checks find anomalies at will; a tick delivers any number of
snapshots up to `NumSymbols`; the model's answer, risk checks and order outcome are
a choice between "no entry", "error before an order" and "order placed". A new run
created by a worker is always younger than the earlier ones.

`StartupOverlap = FALSE` restricts the environment: no kill-switch request is in
flight while a worker starts. It is the assumption under which `KillCarriedOver`
holds; with TRUE the start-up race below breaks it.

### RunHistory

The two tables as their readers see them, without locks, sessions and processes: runs
in the order of their birth, the status and the state of each. Three atomic steps
remain: a run is born (and the one left open, if any, declared crashed with it), a run
stops, an open run is restricted. In `BotControl`, `newest` is `nRuns`, `status` is
`runStatus` and `state` the resolved `botState` of the rows created (no row means
ACTIVE), `Overlap` is `StartupOverlap`; the property `RunHistoryKept` is the abstract
specification under that mapping. The abstract steps allow what the code does:

* a birth declares at most one run crashed, and no run stays open beside the new one.
  It may be a run that stopped after it was selected: the UPDATE of the start-up does
  not look at the status again;
* a worker whose run was declared crashed may still stop it, writing STOPPED over
  CRASHED: nobody tells it (the assumption of a single worker in
  `docs/decisions/F15-03-bot-run-active-resolution.md:57`);
* the state of a new run is the kill switch of the newest one, or ACTIVE. With
  overlapping start-ups a kill switch may be missed (the race below), or inherited from
  a run that another start-up has followed in the meantime.

### PositionExits

State: the adapter's position of one symbol, the position manager's dictionaries
for it (one record), the mark price, the outcome of the last operation; `closes`
and `failedFull` are observations. One action per outcome of `tick()`, in the
priority order of the code (`TriggerOf`), each with the trailing and break-even
updates that precede it (`Followed`); `TickFails` is the rejected or unanswered
close order together with the except branch of `tick_all`. Other actions: an entry
(which may add to or replace a position, as the adapter does), an external close,
`update_sl`, `update_tp`, the manual invalidation, a price move.

Abstractions: prices are integers of any tick size and PERCENT distances are
rounded down; a close is partial or full (no quantity); symbols do not interact, so
there is one. `Plans` are the entries the risk engine may approve, filtered by
`validate_config`; `LastLevelCloses` is what `TakeProfitLevel` asks of its caller.
The dynamic ATR mode is left out: `PositionTickService` never passes an ATR, so a
seeded plan behaves as the static mode and an unseeded one has no trailing stop.

### Execution

State: the adapter's orders by client id and its open symbols; the committed rows of
`orders` and `positions`; the plans of the position manager; the bot's state; the
worker's place in the tick with the locals of `_tick`; the call to `place_order` the
worker waits for; the calls that have timed out and whose thread goes on (`orphans`).
`fills`, `late` and `tick.exposed` are observations.

Actions follow `CycleRunner._tick`: market data (the position count is read here, once),
position ticks, the gate with any set of failed queries, then per symbol *skipped*,
*replayed* (the decision id has a row), *not sent* (an error before the order), or
*sent*, followed by the adapter's look-up and fill, the timeout, the persistence, its
failure before or after `set_config`, and the exit plan refused after the fill. An
orphan's two steps may come at any later time. The decision id is GPT's and nothing
checks that it is new, so ids come back.

Abstractions: no quantities, prices and sides: an opposite entry replaces the
position, an equal one adds to it, both leave it open. Differences of side, size or
manual SL/TP are left out of the report because no flag of the gate blocks on them.
`positions` rows are never closed by the code and stay OPEN here. `PaperAdapter`
never answers CANCELLED or FAILED, so the branch that takes an attempt back
(`cycle_runner.py:612-616`) is unreachable and not an action. A plan is refused
(`PlanRefused`) when `PositionConfig` takes no distance of 0: an ATR of 0 passes the
check before the order, which looks for `None` only (`engine.py:166-171`,
`position_manager/schemas.py:102,108`). The other error of `build_position_config`,
the FIXED trailing mode, cannot come that far: such a config does not load
(`core/config.py:518-525`). A restart, which empties
`PaperAdapter`, is in `BotControl` and not here.

### OrderLedger

What an auditor gets of the execution: an order is asked for only while it is not
recorded, a call creates at most one order, only accepted orders are recorded, and a
record is never withdrawn. This is the order of the code, which sends first and records
after, and less than `docs/decisions/F10-05-order-idempotency.md` (sections 1 and 3)
decides: there the row is PENDING in the database before the order is sent. The
difference is a finding of `PROJECT.json`; `execution_double_fill` shows what it costs.
In `Execution`, `calls` are the worker's call and the orphans', `accepted` is `fills`,
`recorded` the decisions with a committed row; the property `LedgerKept` is the abstract
specification under that mapping. Two promises are stated of the ledger,
`RecordedAccepted` and `NotAskedAgain` (no call begins for a recorded order, and no
record is forgotten), and proved of `Execution` through the refinement.

### MarketAnalysis and RiskEngine

Operators over records, named as the functions they translate. Fractions are
integers, quotients are compared crosswise, and `tanh` has five steps (it is odd and
growing, which is all the rules use). Facts of the code that shape the model:
`signal_strength_score` and `signal_conflict_score` are never given, so the fallback
is always taken and `quant_internal_conflict` is never found; the score of a sweep
does not depend on the level swept (`liquidity_sweeps.py:180-182`); the fetchers fill
no `history_*`, the model allows it; the liquidation distance is GPT's claim and
nothing derives it from the leverage; the leverage cap of the decision's schema is
that of the environment GPT writes, the Risk Engine's that of the config; the
ADJUST_DOWN of `check_liquidation_safety` is not looked at; a LONG that declares a
distance of 100 % makes `_sl_buffer_percent` divide by zero (outcome RAISES). Every
gate of the config is enabled. `ASSUME ConfigLoads` is what the validators of the
config demand, `RiskLimits` that limits are positive, which they do not.

### Decision

State: the retry attempt, the breaker, the usage rows in the two windows of the
token budget, and per symbol what the aggregator read, what it answered, what the
Risk Engine read and answered, and the order with the estimate stored beside it.
A call is refused by the breaker, fails (retryable or not) or succeeds with a usable
answer or not; an answer outside the schema, a budget exceeded and either failure
policy end the symbol. Snapshots, answers, terms and accounts are chosen from the
constants at the step that reads them, and only snapshots that pass the schema and
the validators are delivered. The worker is wired without a `budget_manager`
(`orchestrator.py:158`); the model is of the client that has one.

### BingXAdapter

State: the exchange's orders and account settings; the adapter's flags, caches and
breaker; the operation under way with its current request and attempt. Each step is
one attempt of one request: refused by the breaker, carried out and answered,
rejected, turned down, lost (before or after it was carried out) or garbled; the
operation then goes on as the code does on that outcome. Orders execute in part or
whole, expire and fail at any time. One operation runs at a time, as the adapter's
docstring asks of its caller. An order has its status and whether any of it has
executed; EXPIRED is CANCELLED, as in `_STATUS_MAP`. `_parse_order` answers the status
of the order, or FAILED for a status it does not know (`bingx_adapter.py:590-592`), and
what has executed, or 0. A garbled answer is one the breaker counts as a failure (no
JSON, no "data") or as a success (an order that cannot be parsed, or none).
`get_open_orders` reads "clientOrderId" only, so its answer may leave the cache as it
was. The adapter is not wired yet: only PAPER runs.

## Runs

| run | instance | states | checks |
|---|---|---|---|
| `bot_control_safety` | 2 workers, 1 handler, 2 runs, 2 symbols, 1 database error, symmetry | 1.1 M | `TypeOK`, `RunningIsNewest`, `LateEntriesBounded`, `MemoryBacked`, `KillIsFinal`, `ClosedRunsFrozen`, `RunHistoryKept` |
| `bot_control_restart` | 1 worker, 1 handler, 3 runs, 2 symbols, 2 database errors, no start-up overlap, fairness | 247 K | `KillCarriedOver`, `RunHistoryKept`, `KillTakesEffect`, `KillStopsWorker` |
| `position_exits` | 4 prices, 15 plans (13 valid) on both sides, 2 entries, 1 failed order, fairness | 107 K | `TypeOK`, `CoveredAfterTick`, `StopsHonoured`, `ReclosedOnlyAfterFailure`, `BreakEvenNeverStopsOut`, `StopsOnlyTighten`, `StopEventuallyCloses`, `OrphanConfigDropped` |
| `execution` | 2 symbols, 2 decision ids, limit 1, one database error, one timeout, one failed reconciliation query, one refused plan, fairness | 1.1 M | `TypeOK`, `OpenBounded`, `FilledOnce`, `CoveredUnlessFault`, `NoEntryOverUnprotected`, `NoFalseAlarm`, `UnprotectedNoticed`, `LedgerKept` |
| `decision` | 1,728 markets (864 delivered), 5 answers, 484 proposals, 13 accounts, breaker threshold 3, 2 attempts, fairness | 116 K | `TypeOK`, `SidesAlike`, `ApprovedOrderIsSound`, `AdjustmentStable`, `EstimateMatchesFill`, `BudgetKept`, `BreakerShields`, `ModelAskedAgain` |
| `bingx` | 1 order id, 2 symbols, breaker threshold 3, 3 attempts, 3 network faults, fairness | 325 K | `TypeOK`, `AnswersTrue`, `LostAnswerRecovered`, `IsolatedOneWay`, `OperationEnds` |
| `bot_control_startup_race` | 1 worker, 1 handler, 2 runs | violation | `KillCarriedOver` |
| `bot_control_held_back` | 1 worker, 1 handler, 2 symbols | violation | `KillNotHeldBack` |
| `bot_control_second_kill` | the same, fairness | violation | `KillAnswered` |
| `position_exits_reclose` | 1 entry, 1 failed order | violation | `LevelsClosedOnce` |
| `execution_double_fill` | 1 symbol, 1 decision id, limit 2, one timeout | violation | `NeverFilledTwice` |
| `decision_liquidation` | that of `decision` | violation | `LiquidationMarginsKept` |

Why the bounds suffice: two workers are a rolling restart, the most the deployment
has; two runs show every hand-over and three a hand-over of a hand-over; two symbols
give one in flight and one after it; one database error meets every operation, and
the proofs cover any number. Two workers, with symmetry, meet in `bot_control_safety`.
`bot_control_restart` has one that crashes, closes and starts again, for its liveness:
a second process that starts over and over retakes the locks of the run for ever, which
the deployment does not do. `KillSurvivesRestart` and `RunHistoryImplemented` cover any
number of workers. Four prices put the mark below, at, between and above the stops and
targets of the plans; a second entry reaches every leftover of the first; break-even
offsets below, at and above the trigger show what the validator refuses. Every safety
property of `PositionExits` is proved for any prices and plans on both sides.

In `execution` two symbols with a limit of one make the second entry of a tick the
critical one, two ids allow one to come back while the other is in flight, and one fault
of each kind meets every step; faults of different kinds combine. In `decision` the
candles give every branch of every signal and regime on both sides, and the terms and
accounts lie at, below and above each limit: a stop on the liquidation price, a
liquidation nearer than its minimum, a leverage at and over the cap, a loss that reaches
the limit only with that of another symbol, rates that eat the reward, rates `FeeRates`
refuses. In `bingx` two symbols make the probing go on and the flags differ, three
faults are one lost answer and more during the recovery, and rejections alone, which are
not bounded, open the breaker. One order id is enough: operations on different ids share
only the account's modes, the breaker and the rates, and the theorems cover any set of
ids.

What these runs show. `ClosedRunsFrozen`: nobody writes a state to a run that has closed
and nobody opens it again, because SAFE_MODE and the kill switch look at the status
under the row lock (`emergency_stop.py:119-141`). `RunHistoryKept`, with and without
overlapping start-ups: a reader of the two tables sees births, stops and restrictions of
whole runs, whatever the processes do between their locks. `OpenBounded`: the count read
before the pipeline plus the attempts of the tick keep the limit, and only the fill of a
call that had timed out exceeds it. `FilledOnce`: a decision that comes back is filled
twice only after a timeout. `CoveredUnlessFault`, `UnprotectedNoticed`,
`NoEntryOverUnprotected`: each fault between fill and plan, and each plan refused there,
leaves at most one position without an exit, it is noticed, and while it is seen no
entry follows. `NoFalseAlarm`: without a fault or a refused plan the gate never stops
the bot, whatever rows stay OPEN. `SidesAlike`: the aggregator concludes the opposite on
the mirrored market, where the prompt shows the same regime, volatility and leverage
with the directions exchanged (away from the steps of `tanh`: percentages of different
bases make breakouts differ by a fraction; `MCDecision` states that every delivered
snapshot is of that kind). `ApprovedOrderIsSound` and `AdjustmentStable`: what is sent
has its stop before the liquidation, a reward worth its risk after fees, its margin,
leverage, losses, positions and funding within their caps and no bigger bet after a
loss, restated from first principles, and an adjusted order would have been approved as
it is. The two minimal distances to the liquidation are not kept, see below.
`EstimateMatchesFill`: the stored estimate is the slippage the paper fill then shows.
`BudgetKept`: a request is let through on the usage recorded before it, so neither
window passes its limit by a whole answer, although requests are retried and the windows
slide while one is on its way. `BreakerShields` and `ModelAskedAgain`: at most one probe
per reset timeout, and the bot does not stay without GPT. `AnswersTrue` and
`LostAnswerRecovered`: no lost, repeated or racing request makes the adapter report an
order that does not exist, one as FILLED or CANCELLED that is not, or an execution that
has not happened, and one lost answer is recovered. FAILED and PENDING say no more than
that the order exists, and a cancelled order may have executed in part.
`IsolatedOneWay`: the remembered settings are never wrong when an order goes out.
`OperationEnds`: probing and retrying end with the exchange down and the breaker open.

No run turns deadlock checking off: the system never stops.

Fairness. In `BotControl` a worker that is up keeps executing, because every call it
waits for (model, orders, HTTP) has a timeout: each step of `Progress` is weakly
fair. Starting, signalling or crashing a worker and database errors are not. The
`FOR UPDATE` of a request is strongly fair: PostgreSQL queues the waiter and wakes
it when the blocking transaction ends, and the worker releases and retakes its lock
every tick. In `PositionExits` only the tick is weakly fair (the cycle runner ticks
as long as it runs), and close orders fail a bounded number of times. In `Execution`
the worker's steps are weakly fair together (`place_order` has a timeout, the other
calls are local or end in an error); a thread that has timed out is not fair: it may
never end. In `Decision` the worker is weakly fair, and time passes: the breaker's
timeout and the budget's windows end; OpenAI's coming back is not assumed but the
premise of `ModelAskedAgain`. In `BingXAdapter` only the thread of an operation is
weakly fair (every HTTP request has a timeout).

### What the violations show

* **Start-up race** (`orchestrator.py:205`): a kill switch committed after the
  start-up has read the previous state is answered 200 and forgotten: the new run
  is ACTIVE. The comment at lines 315-317 says a restart must not do that.
* **Kill switch held back** (`emergency_stop.py:125`): a symbol that does not trade
  leaves its audit rows uncommitted; their foreign keys make the kill switch wait
  while the next symbols start. The re-read before every symbol, said to prevent
  this (`cycle_runner.py:314-317`), reads ACTIVE although the request is already
  waiting (one that comes in after the re-read is not meant). The first kill switch does get
  through in the end (`KillTakesEffect`): the next tick commits.
* **Second kill switch** (`cycle_runner.py:172`): the symbol in flight at the kill
  may leave such rows behind, and the paused loop never ends its transaction; a
  second request waits for ever instead of receiving 409.
* **Levels closed twice** (`tick_service.py:138`): registering the plan again after
  a failed full close restores levels that have already closed, which the
  docstring (lines 55-58) names as the outcome to avoid. Plans with several levels
  are not built by `build_position_config` today.
* **Order filled twice** (`execution/engine.py:327`): a call times out before its
  thread has placed the order, the decision comes back in the next tick, no row
  records it, and both threads look the id up before either fills. The decision
  record F10-05 says that an order must not be sent twice after a timeout (line 11),
  and records it before it is sent (line 29), where the code records it after
  (`engine.py:179-183`). `FilledOnce` is what holds: once, and once more per timeout.
* **Distances to the liquidation** (`risk_engine/engine.py:180`): the check answers
  ADJUST_DOWN for an entry or a stop nearer to the liquidation than the config
  allows, and nobody reads that answer: the order is approved unchanged, against
  `action_if_invalid: ADJUST_DOWN_OR_BLOCK` (`config.yaml:129-133`), the check's own
  "se requiere ajuste" (`checks.py:410-444`) and `engine.py:12-17`.

## Proofs

All theorems about behaviours are about `Spec` (no fairness) for arbitrary constants
that satisfy the named assumptions: distinct processes, natural bounds (`BotControl`);
integer prices, plans made of well-typed configs, `LastLevelCloses` (`PositionExits`);
a finite set of symbols (`Execution`); a `None` that is no order and at least one
symbol (`BingXAdapter`); a config that loads, limits that are positive, inputs
with numbers in their fields, and a `None` that is neither a number nor the name of a
state (`Decision`). TLC evaluates all of them on the instances.

`BotControlProofs`, in layers, because none of the properties is inductive:

1. `TypeCorrect`: `TypeOK` with `Owned` (a worker in its loop, a handler in a
   request, has an existing run).
2. `OneRunningRun`: with `Fresh` (no state for rows not created) and `Distinct`
   (no two workers own one run), from the unique index.
3. `KillSwitchIsFinal`: with `LockHeld`: between lock and commit a process holds the
   row lock and the state it decided on is still the committed one. `StatesTighten`
   then says what a step can do to a run's state.
4. `LateEntries`: `LateInv` adds that nothing is late before the state forbids
   entries, and that a symbol in flight has its one order still to come.
5. `MemoryIsBacked`: with what a start-up knows between its read and its commit
   (`CarriedInMemory`).
6. `KillSurvivesRestart`: under `~StartupOverlap`; `CarryInv` says a start-up's copy
   of the previous state stays accurate and a locked request is about the newest run.
7. `RunHistoryImplemented`: every step is one of `RunHistory`, or a stutter. What is
   decided in one step and written in a later one must still be right then:
   `OpenWhileLocked` (the run a process has locked in order to restrict it is still
   RUNNING, since whoever closes a run needs its lock), `OrphansLocked` (a start-up
   closes at most one run and holds its lock from the UPDATE to the commit),
   `CarriedWasKilled` (a kill switch carried over is that of an existing run),
   `StatesWritten` (only restrictions are ever written).
8. `ClosedRunsStayClosed`: from the refinement, as no step of a history touches a
   closed run but to stop it.

`RunHistoryProofs` shows what the abstract history is good for, without a word about
locks: `OneOpenRun`, `KillSwitchInherited` (with `~Overlap`), `ClosedRunIsFinal`.

`PositionExitsProofs`:

1. `TypeCorrect`: with the relation between the levels left and those of the plan.
2. `PositionsStayCovered`: `CoverInv` adds that the last level left closes all.
3. `StopsAreHonoured`: from the priorities of `TriggerOf` after `Followed`.
4. `BreakEvenIsSafe`: from `be_sl_offset < be_trigger_delta` in `validate_config`.
5. `StopsTighten`: `TrailInv` says the trailing stop is the one of the high-water
   mark; PERCENT distances need the monotonicity of `h - (h * d) \div 100`.
6. `ReclosesAreFailures`: `CountInv` counts, per level, closes against failures.

`ExecutionProofs`. A thread whose call timed out acts while the worker is elsewhere,
so the invariant counts what such threads can still do:

1. `TypeCorrect`; `OrphansInv`: each thread left behind took a timeout of its own.
2. `DecisionsFilledOnce`: `FilledInv` bounds fills and calls about to fill together;
   `MemoryInv` says the adapter's memory, its fills and the rows agree.
3. `PositionsBounded`: `OpenInv` relates the positions, and the one on its way, to the
   count the worker read and the entries of the tick.
4. `PositionsCovered`: `CoverInv` charges each position without a plan, and each
   thread that may open one, to a fault or a refused plan.
5. `NoEntrySent` from `SeenInv` (while entries are possible the gate has seen no
   unprotected position), `GateStopsForFaults` from `QuietInv` (without a fault or a
   refused plan everything is recorded and tracked).
6. `LedgerImplemented`: the initial states and every step of `Execution` are those of
   `OrderLedger`, or stutters, under the mapping above; it needs `MemoryInv` and the
   cardinalities of the sets of live calls.
7. `RecordedOrdersAccepted`, `RecordedOrdersDone`: the ledger's promises, proved of
   `Execution`. What the database holds the exchange has accepted, and it is neither
   forgotten nor asked for again.

`BingXAdapterProofs`. An answer is true because of what the operation knows when it
gives it: `OpInv` (its request is one of its kind's, its faults are among those so
far), `ModeInv` (what the adapter remembers as verified is so on the exchange) and
`PlaceInv` (how far `place_order` has come, and that an order it has created is there,
at the price of a fault). From these `AnswersAreTrue`, `CreatedIsolatedOneWay` and,
for two attempts or more (`_RETRY_CONFIG` has four), `OneLostAnswerRecovered`: with a
single attempt a lost answer is a failed order, so the hypothesis is needed.

`MarketAnalysisProofs` and `RiskEngineProofs` are about the operators, for every
record the schemas take:

1. `SignalsInRange`: each of the seven signals is in the range `QuantSignalsPackage`
   demands, so building it never raises; `ScoresInRange`: so are the aggregated score
   and the liquidation risk, if no candle opens at a negative price. The schema does
   not demand that (`market_data/schemas.py:60-82` bounds the volume only); exchanges
   give it.
2. `PricesInOrder`, `StopBeforeLiquidation`, `RewardWorthRisk`, `NoBiggerBet`,
   `LimitsKept`: what an approval means for the parameters that are sent, the two
   minimal distances to the liquidation apart.
3. `ApprovalIsStable`: `validate` approves its own adjusted parameters, unchanged.
4. `EstimateIsFill`: the estimate of a MARKET order is `PaperAdapter`'s slippage.
5. `TotalIsNumber`: the losses, a recursive function, add up to a number. The library's
   induction theorems take an operator as parameter, which the provers cannot
   instantiate; the proof takes the smallest counterexample instead (`SmallestNumber`,
   from the well-foundedness of `<`).

`DecisionProofs` brings these to the specification. Each property speaks of one stage
and rests on what earlier stages read, so `ReadInv` and `VerdictInv` remember the
snapshot, answer, decision and account behind `final`, `proposal` and `verdict`;
`BreakerInv` ties the breaker's count and clock to the failures observed, `BudgetInv`
bounds the windows by whether a request is under way. `ApprovedOrdersAreSound`,
`AdjustmentIsStable`, `EstimateIsOfTheFill`, `BudgetIsKept` and `BreakerShieldsOpenAI`
follow.

`SidesAreAlike` is the longest argument. Signal by signal, the value on the turned
market is the negative of the value on the market (`MomentumTurns` to
`LiquiditySweepsTurn`, from the oddness of `tanh` and of the rounded quotients); each
state of the regime is its opposite (`RegimeTurns`; for the alignment of the timeframes
by counting); so the scores the aggregator compares change sign and its conclusion
changes side (`AggregateTurns`). `DecidedInv` says that the final action is still that
conclusion. The hypothesis is `MeasuresAlike` and `SweepsOneSide` of each delivered
snapshot: some measures divide by a price, which turning changes, and must stay on
their step of the scale; and a candle that returns by as much from levels of both sides
counts as bullish by rule (`liquidity_sweeps.py:155-212`). The code itself is not
symmetric there, so neither can be dropped. Both hold of all 864 snapshots delivered in
the run (`DeliveredTurn`, an assumption TLC evaluates).

Only model-checked: liveness (`KillTakesEffect`, `KillStopsWorker`,
`StopEventuallyCloses`, `OrphanConfigDropped`, `UnprotectedNoticed`,
`ModelAskedAgain`, `OperationEnds`), which is out of the prover's reach, and the six
violations. Every safety property of a passing run is the subject of a theorem.

## Not modelled

Listed with reasons in `PROJECT.json`: HTTP payloads and parsing, the feature vector and
statistics no decision reads, cryptography, presentation,
read-only queries, backtesting and replay (offline, single-threaded, apart from the
fill model they share with the paper adapter). The login throttle is the one part
with concurrent state of its own that has no module: it is apart from the trading
cycle and would come next. Hazards without a property carry a note saying why.

Left out of the modelled parts because the code never reaches them: closing a
`Trade` (no code of the cycle does, so the loss limits see none, although the checks
are modelled over any trades), `compute_dynamic_leverage` (no caller), the dynamic
ATR mode, funding payments of the paper adapter.

## Plan

What would come next, in this order:

1. `LoginThrottle`: lockouts under concurrent logins.
2. Quantities in the paper adapter: balance and margin over partial closes.
3. Exits of a simulated run (`backtesting/`) against `PositionExits`.
