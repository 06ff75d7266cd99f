# Verification of LEapsQuantEngine

LEapsQuantEngine is a LEAN-style trading engine. Universes, indicators and alphas
produce insights; portfolio construction, blending, sizing and risk turn insights into
target quantities; an execution model turns targets into a batch of order intents. A
batch is written to an artifact file, submitted to a broker through a guard,
supervised, and its fills are credited to *sleeves*, virtual accounts that share a
broker account. Models may keep state of their own between cycles, as versioned records
in a database. A PowerShell loop runs all of this, one process after the other.

This directory models, checks and proves things about the parts in which a mistake
costs money: what three stores (the order log, the account file and the broker) believe
about the same order; whose the shares and the cash are; whether what a cycle must
remember survives the processes that come and go; whether targets are what the model
asked for, within their limits; and what the loop, the commands and the broker client do
when processes die, answers are lost and files are shared. Paths below are relative to
`src/src/leaps_quant_engine/` unless they say otherwise.

## 1. Inventory

### Orders, accounts and durable state

| component | state it keeps | operations | hard about it | what makes it correct |
|---|---|---|---|---|
| virtual sleeve account, `virtual_account.py` | one JSON document: cash and holdings per sleeve, position states, order owners, broker-number index, applied fills, raw broker fills, allocations, ignored fills, transfers, mutations | register order, bind broker number, apply order event, apply fill, record raw fill, allocate, ignore, transfer cash, synchronise cash, mark, initialise, and reads that re-seed missing cash | the same fill comes as an order event, as an execution row, and as an operator's allocation, each under an id of its own | holdings and cash are what the ledgers add up to; ledgers only grow; numbers lead to owned orders |
| account synchronisation, `account_sync.py` | none | fetch the broker's history; row by row check, look up the owner, record raw or apply | several importers over one file, a check and a write in separate calls, rows that grow | each execution is credited once, to the sleeve that placed it, sooner or later |
| order log, `order_state.py`, `orders.py` | append-only JSONL file of tickets and events; tickets are a replay | record tickets, record events, snapshot | the status of a ticket depends on the order of its events | no more is counted as filled than was executed; closed tickets stay closed |
| orchestration and gateways, `order_orchestrator.py`, `brokerage.py` | none | record tickets, register owners, send, record replies, apply replies, poll | every step may be the last one; a call may reach the broker and raise | an order is sent at most once |
| supervision, `order_worker.py`, `order_supervisor.py` | none | poll open tickets, expire old ones, cancel stale ones, reconcile the execution history | log first and account second when polling, the other way round when reconciling; passes that skip reconciling | every execution is credited and logged; every ticket closes |
| guard and submission, `engine_guard.py`, `order_submit.py` | the artifact file | evaluate a batch, drop or cut down orders, evaluate again, send | judges from a log and an account that may disagree; a batch may be old or half sent | no order twice, no target overshot, no share or cash spent that is not there |
| execution model, `execution.py` | none | targets to orders: projected quantity, slices, sells before buys | sees holdings and open tickets of the time of the run | orders close the gap between projected and target quantity |
| model runtime state, `runtime_state.py`, `model_state_seed.py` | SQLite tables of versioned records and of audit events | a run's patches in one batch, the universe record before it, the seed command, read-only runs | read, compute and write are not one transaction; every writer read long before it writes | the records are what some order of whole batches gives; the audit trail, replayed, gives them; watermarks do not fall |

### The pipeline

| component | state it keeps | hard about it | what makes it correct |
|---|---|---|---|
| framework runner, alphas, insights, cadence: `framework/runner.py`, `framework/state.py`, `alpha/*`, `cadence.py` | a state file: active insights, last evaluations, the last target batch | a process per cycle, which may die before it saves; cadences in days, weeks and minutes; stale and invalid snapshots | nothing is forgotten over a restart; no more than 100% is asked for; a daily alpha runs daily |
| target completion and blend: `framework/portfolio_target_resolver.py`, `framework/portfolio_blend.py` | the transition under way, in the model state *and* in the batch | retargeting on the way, clocks that stop with the session, urgent targets that bypass it | a transition keeps its deadline and arrives at what was asked for |
| sizing, risk, execution, replay: `framework/order_sizing.py`, `framework/risk.py`, `backtesting.py`, `portfolio.py` | a circuit breaker's record; lots and sums of the report | rounding to whole shares, floors that meet filters, limits that hold for a batch and not only for one target | two ledgers of the same fills agree; limits hold; no look-ahead; no round trips |
| snapshots, indicators, warm-up, universe, bootstrap: `market_data_snapshot.py`, `snapshots/*`, `snapshot_worker.py`, `indicators/*`, `warmup.py`, `temporal_features.py`, `universe/*`, `runtime_bootstrap.py`, `runtime_multi.py` | stores of active and pending snapshots, indicator windows, the active universe, a staged reload | two sleeves over one engine, symbols that come and go, quotes that fail, a reload during a day | a framework sees one picture, on confirmed days, and enters only on whole data |
| sleeve strategies, `src/sleeves/*` | records in the model state | guards, cooldowns, confirmations and budgets that count across cycles which are processes | cut once, not bought back, left only when confirmed, within the budget |

### Processes, commands and the broker

| component | state it keeps | hard about it | what makes it correct |
|---|---|---|---|
| live loop, control queue, safe start: `src/tools/leaps_multi_sleeve_live_order_loop.ps1`, `src/tools/leaps_safe_start_live_stack.ps1`, `control.py`, `runtime_preflight.py`, `runtime_heartbeat.py` | queue file, active-sleeve file, heartbeat, submit guard, journal | files replaced and renamed under each other; processes killed anywhere; a second loop started when the first is slow | commands take effect in order and once; a suspended sleeve does not run; nothing is submitted twice in a row |
| order and account commands: `cli.py`, `order_status.py`, `order_smoke.py`, `broker_routing.py`, `operator_status.py`, `runtime_recovery.py`, `runtime_health.py`, `cycle_journal.py` | the journal | each finds "its" account, log and cash in its own way | orders are supervised in the log they were sent to; reports do not say all is well when it is not; cash adds up |
| broker client: `adapters/kis_direct.py`, `adapters/kis.py`, `kis_gateway*.py`, `market_rules.py` | token (memory and file), two paced lanes, history and quote caches | retries of an order whose answer was lost, tokens that expire while a call waits, caches of two processes | one order per submit, paced lanes, prices that were told |
| minute feed and replay data: `minute_feed.py`, `backtesting.py`, `adapters/finance_datareader.py`, the minute commands of `cli.py` | a file of bars and a manifest for each date, exported feed, compiled replay, warm-up bars, daily histories | files written in place and read by another process, kept results of sources that have changed since, dates told by two sources | a date's file holds what its build got; what is read was written; a kept replay matches its sources; no bar twice |

### How they interact

`order-runtime-submit` and `order-runtime-supervise` are separate processes
started by the live loop. Both read the order log and the account file, both
write them, and neither takes a lock; the account file is replaced as a whole
(`os.replace`), the log is appended to. Operators run `virtual-account-*` and
`kis-account-sync` on the same account file at any time. The broker is reached by
calls only (place, cancel, history); nothing calls back. The pipeline reads the
account and the log, and hands its result over in the artifact file; it reads and
writes the state database and its own state file, as do
`runtime-state-seed-trailing-stop` and diagnostic runs. The loop is steered by a queue
file and tells of itself by a heartbeat file. So all interaction between processes is
through files and the broker, and the hard behaviours are those of *processes over
shared files*: a crash between two files, a check and a write in two calls, a call
repeated, a view that is out of date when it is used. Inside a process, the broker client
and the snapshot worker have threads.

### Not modelled

Operator UI, performance reports and benchmark, notifications, configuration parsing,
fundamentals, workspace helpers, the reinforcement-learning constructor (a learned
numeric policy), research scripts.
`PROJECT.json` lists every component with its status, and under `hazards` what in this
code is hard to test, at the line where it bites, with the properties that would catch it.

## 2. Modules

| module | models | extends / used by |
|---|---|---|
| `PortfolioLedger` | abstract: a book of holdings that moves only when an entry is posted under a fresh id and never goes short | instantiated by `VirtualAccount` |
| `VirtualAccount` | every writing operation of `VirtualSleeveAccountStore` | |
| `AccountSync` | importers (`kis-account-sync`, the reconcile worker), registration and binding of orders, and operators over one account | extends `VirtualAccount`, whose actions it takes |
| `OrderRuntime` | one order's way through log, broker and account, with crashes, lost replies, partial fills, cancels and days | abstracts the account to owners and credited quantities |
| `OrderSubmit` | from targets over batches, guard and repair to orders of several symbols, both sides | abstracts a ticket to what log, broker and account know of it |
| `StateMap` | what a batch of patches does to records; abstract: a map of versioned records that changes by whole batches (`InMemoryRuntimeStateStore`) | |
| `ModelState` | `SQLiteRuntimeStateStore` written by several processes, each call in a read and a write transaction | extends `StateMap`, implements its `MapSpec` while calls that share keys do not overlap |
| `StateCycles` | the writers: pipeline runs with their universe refresh, the trailing-stop alpha, read-only runs, the seed command | extends `ModelState` |
| `FrameworkUnits`, `Cadence` | the unit of weights, the currencies; when a model is due | |
| `PortfolioBlend` | completion of a target batch and the blend engine, as operators | extends `FrameworkUnits` |
| `FrameworkCycle` | `FrameworkRunner` with a process per cycle: restore, alphas, insights, targets, blend, save, crash | extends `Cadence`, `PortfolioBlend` |
| `SleevePortfolio`, `OrderSizing`, `RiskManagement` | the in-memory portfolio, `OrderSizingEngine`, the three risk models, as operators | each extends the one before |
| `Backtest` | the slice loop of replays and backtests over these, fills, tracker, daily bars | extends `RiskManagement` |
| `HedgeRisk`, `SymbolGuard`, `LeapsExecution`, `LeapsSleeve` | the LEaps sleeve: exposure cap and overlay, the guard of every stock, its execution model, and the cycles that put them together | each extends the one before |
| `BandedMomentum` | the LEaps portfolio construction `v4_banded_momentum.py` | |
| `SamsungSleeve` | the models of the semiconduct-kor sleeve, steward and buy-only | |
| `SnapshotFeed`, `IndicatorWarmup`, `UniverseSelection` | snapshots and their quality, indicator windows and what warms them, selection models, as operators | each extends the one before |
| `SleeveRuntime` | how a process gets from a configuration to the cycles of its sleeves, snapshot worker and reload included | extends `UniverseSelection` |
| `LiveLoop` | the loop's processes, queue, heartbeat, active-sleeve file, submit guard, safe start | |
| `AccountCommands` | operators' and scripts' commands: routing to accounts, logs and stores, cash, reports | |
| `BrokerPayloads` | ticks, order arguments and bodies, prices, candles and holdings of answers, as operators | |
| `BrokerClient` | calls, lanes, tokens, retries, caches of several callers | extends `BrokerPayloads` |
| `MinuteFiles` | bars that commands leave each other in files: minute cache, exported feed, compiled replay, warm-up bars, daily histories | |
| `InductionLemmas` | counting, sums over finite sets, and the concatenation of sequences, for the proofs | |
| `*Proofs` | theorems of the module in the name (`AccountProofs`: of `VirtualAccount` and `AccountSync`; `FrameworkProofs`: of `FrameworkCycle` and `LeapsSleeve`; `StateCyclesProofs`: of `ModelState` and `StateCycles`; `BacktestProofs`: of `Backtest` and the modules it extends) | |
| `MC*` | constants for TLC (`OrderRuntime` needs none and is run as it is) | `MCLiveRuntime`, `MCLiveProcess` and `MCFramework` put several modules side by side: a behaviour chooses one of them at the start and takes steps of that one only |

**VirtualAccount.** A variable per section of the JSON document: `known` (sleeves
present), `held`, `cash`, `positions` (position states with watermark), `owner`
(order_ownership), `index` (broker_order_index), `fills`, `brokerFills`
(raw_broker_fills), `allocations`, `ignored`, `transfers`. A dictionary is a function
whose domain is the keys present. One action is one load, work and `os.replace`; a
`ValueError` leaves the file alone and is an action that is not enabled. A refused
oversell (`_apply_fill_to_portfolio`) that comes after the broker number was bound
keeps nothing, because the bound copy is never written. Prices, fees and cash are
integers; average prices, realised P&L and time stamps are left out, because no
guard of the store reads them.

**AccountSync.** Each importer has a program counter over the three calls it makes
per row: `CheckExists` (`fill_exists`), `ReadOwnership` (`ownership_for_order`) and
`RecordRaw` or `ApplyRow`. Between two of them any other process may move. The broker
is external: `Execute` adds a row or replaces it by a larger one of the same id, as
the order-level history does. Orders are registered before and bound after they are
sent, as the orchestrator does.

**OrderRuntime.** `ticket` and `fillEvents` are the replayed log, `registered`,
`bound`, `raw` and `credited` the account, `broker` and `placed` the broker, `submitter`
and `supervisor` the program counters of the two commands. Every action is one call
that touches a file or the broker: `Evaluate` (guard), `RecordTicket`,
`RegisterTicket`, `Submit` (which may reach the broker and raise), `RecordReply`,
`ApplyReply`, `SubmitPoll`, `SubmitApply`; `StartPass`, `PollOpen`, `ApplyPoll`,
`ExpireDay`, `FindStale`, `CancelStale`, `RecordClosed`, `BindClosed`, `FetchHistory`
or `FailFetch`, `ImportRow`, `LogRow`, `EndPass`. `CrashSubmit` and `CrashSupervise` end
a process between any two.

**OrderSubmit.** `Produce` is a pipeline run: for arbitrary targets, `Wanted` is what
`StandardExecutionModel` orders given holdings and open tickets, in slices, sells
first. `Submit` is the whole of `submit_batches`: `Rejected` is the guard's verdict
(duplicate, target delta, sells, cash), `Repaired` drops and cuts down, `Admitted`
judges again, and what is left is numbered anew and sent. The supervise pass is a step
per file: `Poll` then `ApplyPolled` for the paper gateway (log, then account),
`Reconcile`, `ImportRow`, `LogRow` for the live one (account, then log); `Crash` ends it
in between. The maintenance step ends tickets in two ways. `Cancel` takes back an order that
works at the broker. `Expire` closes the ticket of one that does not, because its day is over
or because the broker has no quantity left to cancel: the order may have lapsed (`Lapse`,
external) or been executed, and the maintenance does not know which. An execution that is not
yet imported then is marked `missed`, for the properties, and is imported by a later pass.

**StateMap, ModelState and StateCycles.** `records` and `events` are the two tables. A
record is a value and a version, version 0 standing for no row; `After` applies a batch
patch by patch, key by key, which is what `_apply_patch_to_records` over one dictionary
does, because a patch touches its own key only. `ReadAll` is `apply_patches` up to its
first `INSERT` (the SELECT runs in autocommit; Python's `sqlite3` opens the transaction at
the first write), `Commit` the transaction, `Abort` a process that ends or finds the
database locked. `seen` is what a call under way has read. In `StateCycles`, `Start`,
`CheckUniverse`, `PersistUniverse`, `MarkSymbol`, `ProposePatch` and `CommitProposals` or
`SkipCommit` are the steps of a command between its accesses to the store; `Write`
ends a call and `Crash` a command. The watermarks computed by the alpha and by the seed
command are one operator, `Raised`: the larger of the recorded one and some price.

**FrameworkCycle.** `runner` is the memory of a process (insights, last evaluations, last
portfolio run, last batch), `store` what the model state keeps of the blend (last weights,
active transition), `saved` the state file; `Memory` is what the next process starts from.
`Start` restores, `Cycle` is `run_once` (`Ingest` and `Unexpired` are the insight manager,
`CreateTargets` the equal-weight model, which divides the money of each currency, `Resolve` the completion of its batch, `BlendApply`
and `BlendAdvance` the blend of a new and of a reused batch), `Save` writes the file,
`Crash` ends the process before it did. `cycle` remembers the last cycle and how long its
resolved targets have stood, for the properties.

**Backtest.** `portfolio`, `breaker`, `tracker` and `feed` are the state of the slice loop;
`TradingSlice` is one whole iteration: `Size` (plans, lot optimizer, filters), `Decisions`
(the risk model of the setup), `FillsOf` (slices, slippage, fees), and both ledgers. All
comparisons of fractions are multiplied out, so that they are exact.

**LeapsSleeve, BandedMomentum, SamsungSleeve.** One action is one cycle of the sleeve's own
models over the durable records, another the broker filling orders. `MarkAfter` is what a
cycle's patches leave of a guard's record: they merge, so what a patch does not name stays,
the count of confirmations through a cut and the anchor through an exit. Floating-point
features are integers in percent, permille or basis points; a softmax is a share
proportional to quality.

**SleeveRuntime.** `engine` holds per sleeve the indicator windows and per symbol the
sleeves its bars are routed to; `pc` is where the one process is, either running all
sleeves once (`runtime_multi.py`) or keeping one sleeve's runtime with its background
worker and reloads (`runtime_bootstrap.py`). A bar is its symbol, day, resolution and
usability; the value of an indicator is the window it is computed from.

**LiveLoop.** A loop is a process with a memory; `DrainQueue`, `GiveBack`, `RestoreQueue`
are the renames of the queue file (`control.py`), `Obey` one command, `SaveActive` the file
replaced, `BeginCycle` ... `CloseCycle` a cycle, `SafeStart` the preflight and the start of
another loop, `EndLoop` a kill that may leave a torn file.

**AccountCommands.** Each command resolves accounts, stores and logs from the
configuration as it does in `cli.py`, and becomes one job per route (`SubmitRoute`,
`SuperviseRoute`), between which anything may happen. Reports are judged by what they say.

**BrokerClient.** A call goes through `FindToken`, `TakeTurn`, `Send`, one of the answers
(taken, unknown, refused, price, book, history, none), retries and cache writes; `Tick`
lets time pass only when every call waits, `Kill` ends a process.

**MinuteFiles.** A file is a set with at most one member: its bars and whether it is whole.
`BuildOpen`, `BuildFill`, `BuildNote` are the three writes of a date, `LoadDate` the reading of
one, `FeedOpen` and `FeedFill`, `CompileOpen` and `CompileFill`, `KeepWarm` the other files;
`KillCommand` ends a command anywhere. The price of a bar is the version of the history it
was told from, so that mixtures show.

## 3. Runs

| run | asks | bounds |
|---|---|---|
| `account_fills` | one order registered, bound, acknowledged and filled by events, next to the same execution reported raw, revised, split, ignored or applied, with transfers, balance synchronisation and re-seeding reads: `CashMatchesLedger`, `HoldingsMatchFills`, `PositionMirrorsHolding`, `FillRecordsAgree`, `AllocationsPosted`, `WatermarkNeverFalls`, `LedgersAppendOnly`, refinement `PostsLedger` | 2 sleeves and the residual one, 1 order with 2 aliases, 2 prices, allocations of up to two parts |
| `sync_imports` | the loop and an operator import a growing history: `CreditedOnce`, `HoldingsMatchFills`, `OwnFillsReachOwner`, and under fairness `OwnFillsImported` | 2 importers, 1 order, 1 manual number |
| `sync_twice` (violation) | with `--assign-unknown-to-sleeve`: `CreditedOnce` | as above |
| `runtime_orders` | the loop when every pass reconciles and orders fill in one go: `NeverOverTarget`, `PlacedOnce` | 3 orders, target 2, 1 submit crash, both gateways |
| `runtime_recovery` | one order, both processes interleaved, partial fills, lost replies, skipped and failed reconciling, crashes, a day change: `TicketsWithinExecuted`, `CreditedWithinExecuted`, and under fairness `OwnFillsCredited`, `CreditedFillsLogged`, `TicketsClose` | target 3, 2 crashes of each process, 2 failed fetches, 2 days |
| `runtime_over_target` (violation) | passes that skip reconciling: `NeverOverTarget` | 2 orders |
| `submit_targets` | a behaviour is one of five. *Submit*: batches of two symbols submitted late, again, after cancels, expiries and refusals: `LinePlacedOnce`, `OrdersCovered`, `TowardsTargetInSync`. *Feed*: two sleeves, shared engine, failing quotes, reload: `FeedSound`. *Banding* and *Samsung*: `SleevesKeepRules`. *Commands*: `CommandsKeepRules` | 2 batches, slices of 1 share, 1 crash, 1 order cancelled, lapsed or missed, both gateways; 3 symbols, 2 days, 2 snapshots, 1 reload; 4 and 5 cycles; 3 commands |
| `submit_crash` (violation) | a live pass cut off between account and log: `TowardsTarget` | 2 batches, 1 crash |
| `state_cycles` | a behaviour is one of four. *State*: a run, a read-only run and a seed command on one sleeve, a seed command on another, crashes anywhere: `RecordsReplayed`, `Isolated`, `SelectedOncePerDay`, `WatermarkNeverFalls`, refinement `MapSpec`. *Loop*, *client* and *files*: `ProcessKeepsRules` | 2 sleeves (the other one's command on the first day only), 1 symbol, 2 prices, 2 days, 3 events, 2 patches a cycle; 2 loop processes, 2 commands, 2 cycles; 2 callers, 8 plans of calls, 7 moments; a writer and a reader of files, 4 plans of commands, 2 symbols, 4 dates, 2 versions of the history, 1 kill or failed download |
| `state_seed` (violation) | the seed command next to a run of its sleeve: `SeedNeverLowers` | 1 sleeve, 1 symbol, 2 prices, 4 events |
| `framework` | a behaviour is one of three. *Targets*: two alphas and a rebalance policy under five configurations, a process per cycle: `CyclesSound`, `BlendArrives`, `MemoryKept`. *Orders*: every feed of four slices, batch and quality under five configurations: `BooksBalance`, `RemainderSpentOnce`, `NoLookAhead`, `RiskLimitsHold`, `ExitGoesThrough`. *Leaps*: a session of the LEaps sleeve under three configurations: `LeapsGuardsHold` | 7 moments for the gradual blend, without crash, else 5 on 3 days, 1 crash; 3 symbols in 2 currencies, 1 slice of warm-up; 4 cycles |
| `blend_exit` (violation) | an urgent exit on a reused batch: `ExitNotSlowed` | as `framework`, one policy |

Several parts share a run where they share nothing else: `MCNext` has one disjunct per
part, a variable tells which one a behaviour takes, and the properties of a part hold
trivially in the others, whose variables it leaves alone.

The compound properties are conjunctions of named parts, each in its module with a
comment: `FillRecordsAgree` of `AllocationsWithinFill`, `IgnoredNeverAllocated` and
`IndexOwned`; `OrdersCovered` of the type, `NeverOversold` and `CashCovered`; `RecordsReplayed`
of the type and `TrailReplays`; `CyclesSound` of the type, `FullyInvestedAtMost` and
`EvaluatedOncePerDay`; `BooksBalance` of the type, `LotsMatchHoldings`, `MoneyConserved` and
`CashCovered`; `ProcessKeepsRules` of `LoopKept`, `ClientKept` and `FilesKept`; and so on.

The MC modules also hold ASSUMEs over bounded inputs for the pure parts: ageing of daily
and minute bars, the pending half of a snapshot store, a snapshot file with torn lines,
the redistribution above a cap, residual windows, rounding to ticks, order arguments and
bodies, quotes and candles of answers, holdings of answers, session columns as the
minute cache and a replay read them, opening gaps of daily bars.

*Why the bounds are enough.* The hazards are races between two calls about the same
order, fill or allocation. Two sleeves and the unassigned one are all a misrouted fill
needs; two aliases cover a lookup by number and by padded number; a third fill id
separates "this fill" from "another one" and from an order event of the same
execution. Two importers make every check-then-act race; more only repeat it. A target
of two shares with wants of one and two separates "partly covered" from "covered"; the
third order is presented after the first two have come apart. Two crashes allow a crash
during the recovery from a crash; an order of three shares has two different partial
fills before the last. `submit_targets` holds two shares of one symbol
and none of the other, so that selling, buying, buying with the proceeds of a sell,
and a target already met all occur; cash for one share makes the second buy fail.
In `state_cycles` three events are a universe record, a watermark and one more commit
that may overwrite either; two days make a due and a not due universe, two prices a
higher and a lower mark, and the patches of another model set, merge and delete, so that
fields are laid over others and a version starts anew. A bound on events only stops commits; a
command may always crash. The second sleeve is there for calls that do overlap. In
`framework` a blend of three minutes over cycles of one minute is retargeted, reused,
stopped by a closed session and cut off by a crash within five moments; to be led elsewhere
on its way and then arrive it needs two more, which it gets under one configuration that is
due every cycle and has neither crashes nor invalid snapshots (`Gradual`); prices that
halve and double reach floors, filters, both limits and a drawdown within four slices.
A loop of two cycles, two commands and one kill reaches every order of a rename, a
write and a read; a second process is one more than is safe. Two callers take turns on a
lane, meet an expiring token and a cache being written. Of the commands over files one
writes and one reads: two symbols on different dates of four, two of them without trading,
make dates that are whole, missing and of two builds; one fault is a kill in the middle of a
file or a download that fails; a second version tells what is old from what is new.
`CHECK_DEADLOCK FALSE` stands where the system has nothing left to do: after the last
batch, cycle, slice, command or call.

*Fairness.* `FairSync`: the live loop imports again and again (weak fairness of
`Fetch` and `ImportStep` of the loop only; nothing is assumed of operators).
`FairSpec` of `OrderRuntime`: a command that has been started goes on (weak, per
process, crashes being bounded), days pass (weak), and the loop starts a reconciling
pass infinitely often (strong fairness of `StartPass(TRUE)`, because between two of them
it starts passes that skip reconciling, and the script reconciles every fifth cycle).
No fairness is assumed of the broker's executions or of submits. All other modules state
safety only; "arrives" in `BlendArrives` is a bound on minutes, not a liveness property.

## 4. Disagreements between the code and what is said of it

### With a run

* `sync_twice`: the guard against applying a fill twice works in one direction only.
  An applied fill cannot be allocated; an allocated one is not in `fills` under its own
  id, so an import with `--assign-unknown-to-sleeve` applies all of it again. One
  operator suffices.
* `runtime_over_target`: an executed order whose row has not been imported is expired by
  the maintenance step ("no cancellable quantity") and is then neither held, nor open,
  nor an unapplied fill. The guard lets the target be bought a second time. The loop's
  passes before each submit skip reconciling. `submit_targets` has the same tickets, and says
  what still holds beside them.
* `submit_crash`: a live pass cut off after the account and before the log leaves an order
  both held and open; the guard adds both and lets the next batch sell below its target.
* `state_seed`: the runbook calls the trailing-stop seed command idempotent and safe to
  repeat during recovery, and has it run again while the live loop is up
  (`src/docs/krx-market-open-runbook.md:346-360`). It takes its maximum over a watermark it read
  before; a cycle that commits a higher one in between is undone.
* `blend_exit`: an exit that bypasses the blend is aimed at on the cycle that decides it;
  the next cycle, which reuses the batch, passes no bypass symbols, and the target goes
  back to the weight the transition gives it.

The properties that pass state what holds without these: `OwnFillsCredited` asks for
a credit on the day, not for the whole quantity; `TowardsTargetInSync` excludes the crash, and
symbols of which an execution is on an expired ticket and not yet imported or a lapsed order is
still open in the log; `OrdersCovered` allows for executions missed that way;
`OrdersCovered` speaks of the live gateway where money and shares are concerned, because
with the paper one a fill that is logged and not yet applied is invisible to the cash and
the sell check.

### Observed while modelling, without a run of their own

Orders and accounts
* `src/docs/runtime-state.md:176` offers `--runtime-state-read-only` for diagnostics that
  "inspect the live runtime DB", but only `_commit_state_patches` looks at the flag.
  `_persist_active_universe_state` (`runtime_bootstrap.py:194`) writes the record anyway, and
  the day's selection is used up. `PersistUniverse` models it so.
* An order-level row imported while the order was partly executed is a duplicate from then
  on (`order_worker.py:305`, `account_sync.py:459-461`): its growth is never credited.
* A summary row that grows after a partial import is logged a second time with its whole
  quantity (`order_worker.py:391-430`): the ticket counts 1 + 2 = 3 of 3 as filled while the
  broker executed 2 and the account keeps 1; `docs/current-status.md:1745` says the engine
  avoids applying it twice. Found while proving `TicketsWithinExecuted`, which says so.
* `NeverOverTarget` fails as soon as any one of these is allowed: a supervise crash, a
  failed fetch, a day change, partial fills, lost replies, a skipped reconcile, or commands
  that overlap. This is why `GuardKeepsTarget` has seven hypotheses.

Targets, blend, replays
* A completed transition stays in the batch's metadata; later retargets jump in one step
  (against `src/docs/runtime-cadence-resolution.md:377-380, 435-439`).
* Entry targets parked for want of a price are lost on cycles that reuse the batch
  (`framework/runner.py:345-401`). Patch mode carries forward the *blended* weight.
* `missing_target_zero` bypasses the blend, though `:392-396` of that document lets symbols
  that are only in the old batch fade.
* With `zero_missing_when_raw_empty`, an empty raw batch that comes while the blended
  weights still stand at 0 and nothing is held resolves to nothing
  (`framework/portfolio_target_resolver.py:99`), and the blend goes on to the entries the
  model has taken back. Found while strengthening `BlendArrives`.
* A process killed between commit and save, after a transition completed with the session
  closed, rolls the weights back.
* `_clamp_total_exposure` ignores symbols new in the same batch and counts the exit of a
  later target at its old quantity; an entry floor below the rounding guard's floor churns.
* The limit is computed as if every approved sale took place; a sale whose symbol has no bar
  makes no order, and the exposure stays above the limit. Found while proving
  `ExposureLimitHolds`, which says so.
* What a floor bought may be sold on the next cycle, at the same prices and for the same
  batch: the rounding guard (`order_sizing.py:321-327`) spares no urgent plan, and a floor entry
  frees the unit that the lot optimizer then spends on another symbol. A breaker's sale of
  shares that are not there has the same effect through the cash it credits. The default
  configuration has an entry floor of 1.0 (`portfolio_construction.py:171`). Found while proving
  `NoRoundTrip`, which speaks of the remainder and of floors up to the guard's.
* Circuit breakers need a `runtime_state_store`; replays have no quality report.

LEaps, banded momentum, semiconduct-kor
* The patches of a stock guard merge (`runtime_state.py:860-861`), and those that set "reduced" or
  "exited" do not name `recovery_confirmation_count`: a stock that recovered once has its count
  already when it is cut again, and is released without the wait. "exited" does not name
  `anchor_quantity` either, so a later mark with no anchor of its own takes over the one from
  before the exit.
* With equity overlay and index guard both on, `_apply_equity_overlay` overwrites the guard's
  entry; the guard's caps apply only when `regime_exposure_enabled`; live configuration has
  `hard_entry_freeze=false` against `docs/current-status.md:125-130`; `pullback_add` returns before
  the position, exposure and cash clamps; a halving repeats when a target equals the
  already halved quantity for one cycle; entries that are frozen, rejected or blocked are
  never deleveraged that cycle; a stop-tagged sell bypasses the accounting of pending orders.
* A cycle that knows no equity of the sleeve (a currency without cash and prices) counts for
  nothing in `_equity_overlay_for_currency`: neither as a confirmation nor as the end of one. A
  target that says itself it is a matter of risk, of a stop or of the operator is bought
  within the guard's cooldown. `OverlayConfirmed` and `NoBuyback` say so; both were found in the proof.
* `BandedMomentum`: `_sync_state_targets` overwrites the status from the tag, so the
  zero-missing cooldown never applies; turnover is measured from the stored previous
  target; a held symbol without a price for one cycle gets target 0 past the missing
  confirmation; what is dropped as dust can exceed the remaining budget; with the turnover
  cap a hold or trim target may end above the position.
* `SamsungSleeve`: the cycle after an accumulate signal has target = cap and delta 0, and buys
  straight to the cap; buy-only adds its delta each cycle while the insight is active; the
  trailing-stop watermark is not reset after the exit.

Snapshots, bootstrap
* `run_once` of a single sleeve warms up twice, the second time to the present moment and not
  to the confirmed daily end; the multi-sleeve path warms once.
* `update_universe` registers indicators of new symbols without warming them, and the entry
  block reasons keep the old verdict; a universe refresh passes earlier forced symbols on as
  manual ones, so what was held once stays live; a reload's dry run may commit state.
* `BackgroundSnapshotWorker.run` clears its stop event; an exception ends the thread and the
  last snapshot stays active. A torn snapshot line swallows the next record too. Quality
  age is measured right after collection, so "stale" hardly ever occurs.
* Entries are allowed while one symbol in twenty has no quote (a report is fresh from 95% of
  the symbols on): on whole data only where a sleeve has fewer than 20. Found while proving
  `EntriesOnOwnData`, which states the share.

Loop, queue, health
* After a restart the saved configuration is not restored; an invalid or torn active-sleeve
  file falls back to the startup sleeves and is saved, so a suspended sleeve comes back
  (`src/docs/krx-market-open-runbook.md:79` says it stays out); pause is not persisted;
  suspending the only active sleeve is rejected.
* A poisoned queue line blocks all later commands, and putting the queue back may overwrite
  later submissions; drained commands are lost when the loop ends.
* The submit guard compares with the last batch only (A, B, A submits A again) and is off
  when its file cannot be read. The heartbeat is written at the ends of a cycle only: a cycle
  of more than 120 s, or status "error", makes safe start launch a second loop.
* Open tickets or a torn journal block safe start, so that nobody supervises them. A crash
  of the report loop between send and save sends twice.
* Health looks at the latest journal entries of any source; supervise writes entries for
  every sleeve each cycle, so runs that fail are masked.

Commands
* A sleeve's starting cash depends on which command opens its store first; a sleeve opened
  after `sync-cash` brings its starting cash on top of the synchronised balance; two accounts
  of one currency both credit `cash_by_currency`. "status" commands write the account file.
* `kis-account-sync --sync-cash` stores the balance under "default", where
  `sleeve-cash-availability` finds the age and not the amount (`operator_status.py:185-197`).
* Orders sent with `--account-id` keep the unsuffixed batch id, which the duplicate check
  (`engine_guard.py:356`) does not recognise. A sleeve without account next to sleeves with
  one sends to the others' only account, and commands over all sleeves never look at its files.
* supervise: when the account client's settings fail, the poll worker falls back to the
  environment's default account (`cli.py:4238-4262, 4449-4463`); `--broker paper` on a live log
  fills live tickets with invented fills (`brokerage.py:177-193`); errors of one route are
  journaled for all sleeves.

Broker client
* Ambiguous network errors other than time-outs of an order are reported without the
  "reconcile" warning; rate limits are per client instance; the token file is not replaced
  atomically, and headers are computed before waiting and before hash-key retries; the quote
  cache loses updates of concurrent processes; history caches have no date range and a torn
  one fails every call that does not refresh; market orders of after-hours sessions get limit
  divisions with price 0; KOSPI, KOSDAQ and KONEX count as domestic in tickets and as overseas
  in `adapters/kis.py`; `rate_limit_per_second` of the market-data engine's quotes has no effect.

Minute files and histories
* `download-us-minute-feed` stores every symbol as `US:TICKER`, so that a replay of a universe
  with markets NAS or NYS filters the whole feed out.
* Warm-up bars kept without an end are accepted for any later replay, which may then look
  ahead; `DailyOnce` excludes that case. A date-only `--end` of a replay means midnight, so that
  the last day is left out. A `.gz` of an earlier build is preferred to a newer `.csv`.
* Files are written in place: a torn uncompressed one reads as its rows so far, and the last
  of them may be a number cut short. A compiled replay is used as it is, whatever its sources
  and its universe have become (`CompiledTrue` speaks of unchanged ones).

## 5. Proofs

The theorems hold for every value of the constants that satisfies the named ASSUMEs of
the modules; TLC evaluates those ASSUMEs in the runs. Sleeves, orders, aliases, fills,
shares, prices, days, processes, keys, symbols, weights and minutes are arbitrary sets,
finite only where the code's are (the tickets of one log, the models of one batch).
`PROJECT.json` names the 40 theorems under `theorems`; this section says along which
argument they go. Every invariant of a passing run is proved; what is left to TLC is listed
at the end of the section.

### Account (`AccountProofs`)

* `LedgerTypeCorrect`, `AppendOnly` (the action property `LedgersAppendOnly`).
  `LedgerTypeOK` is inductive because fills are guarded by `CanApply`: a sell of more
  than is held is a `ValueError`, so holdings stay natural numbers.
* `LedgersConsistent`: `IgnoredNeverAllocated` and `IndexOwned`, from `LedgerInv`. An
  allocation id names an execution row; only its being split ties it to the fill, which
  `AllocationDict` adds. `FillRecordsCorrect` proves all of `FillRecordsAgree` from
  `SplitInv` (types, `AllocationDict`, `AllocationsWithinFill`).
* `PositionsCorrect`, `WatermarksKept`, `HoldingsTally`, `Implements` (the account is a
  `PortfolioLedger`: every step posts entries under fresh ids or stutters). Hypothesis
  `Overwrites \subseteq {FALSE}`: `initialize_sleeve` with overwrite breaks them by
  design. `HoldingsTally` needs that the dictionary of fills is keyed by the id each fill
  carries (`FillDict`), so that a new entry is one more term of the sum and no old one
  changes.
* `CashExplained`: cash is opening balance, transfers, synchronisations and fills. Further
  hypothesis `ConfiguredOpenings` (a sleeve is initialised with the cash its configuration
  gives): a read may seed a bucket that holds zero, and only from the configured amount.
  `CashInv` adds `KnownOnly`: a sleeve that is not in the document has no entry.
* `SyncKeepsLedgers`, `SyncHoldingsTally`: however importers, operators and the broker
  interleave, ledgers stay consistent and every holding is what its entries add up to (if no
  sleeve is initialised over), although two importers may have found the same row new. The
  lemma `SyncWithinStore` carries the account's invariants over.
* `FillsCreditedOnce` and `FillsReachOwner`: `CreditedOnce` and `OwnFillsReachOwner` under
  `BoundFirst`, that is, an order's number is bound before its executions are imported, no
  importer assigns unknown fills to a sleeve, and two orders do not share a number.
  `SyncInv` says what an importer knows in the middle of a row: that the row it holds is
  the broker's (`RowsFetched`), that a stage it has reached was justified when it reached
  it and still is (`StagesTrue`), that owners are true (`OwnersTrue`), that raw fills have
  no owner and posted fills have theirs. Without the hypothesis `sync_twice` is the
  counterexample.

### Orders (`OrderRuntimeProofs`, `OrderSubmitProofs`)

* `OrdersArePlacedOnce`: an order is at the broker once at most, because a recorded ticket
  is never presented again and the submitter's counter leaves the send for good.
* `LiveCreditWithinExecuted`, `TicketsCountExecuted`: what is credited or logged was
  executed. The log may add fills beyond the executed quantity only as described in
  section 4; `LogInv` says how much each stage of a pass may still add.
* `GuardKeepsTarget`: `NeverOverTarget` under `Undisturbed` (commands one after the
  other, reconciling passes, whole fills, no lost reply, one day, no supervise crash, no
  failed fetch). TLC shows a counterexample without each one. `GuardInv` has ten parts;
  the pivot is `ExecutedCovered`: whatever was executed is held, or open in the log, or on
  the row the pass is about to import.
* `LinesArePlacedOnce`, `OrdersAreCovered`, `TargetsApproached`: the three properties of
  `submit_targets` for any number of symbols, batches, slices and cash. `SubmitInv` joins `BatchSound` (a batch's ids are distinct and its lines keep to its targets),
  `StagesInOrder` and `PassFits` (what a pass knows fits the log), `LostIsMissed` (an
  execution that is neither open nor logged nor applied is on a ticket that was expired), `AheadOnlyInPass` (log and
  account differ only inside a pass), `PlacedLogged`, `NeverOversold`, `CashCovered`. Sums over different sets
  of tickets are taken over all of them with weight 0 for those that do not count, so
  that a step changes one term.

### Durable state (`StateCyclesProofs`)

* `IsolatedImplementsMap`, `CyclesImplementMap`: while calls that share keys do not overlap
  (`Exclusive`), every commit is one atomic batch of `StateMap`, though read and write are two
  transactions. `Fresh` says that what a call has read of its own keys is still there.
* `ExclusiveIsolated`: `Exclusive` gives `Isolated`. `IsolatedReplays`, `CyclesReplayed`: under the
  same hypothesis the audit trail, replayed from its start, gives the records
  (`TrailReplays`). `Replayed` says so of a record and the first entries of a list; one more
  entry does to what is undeleted and what lasts what its patch does to the record
  (`ReplayNext`, `ReplayPatch`), so a batch keeps it patch by patch (`ReplayBatch`).
* `CyclesAudited` needs no hypothesis and says less: the last event of a key tells the version
  of its record and the present values of the fields it names. Writers that overlap can undo
  what an earlier event has put in, and count a version twice, without breaking it.
* `WatermarksKept` (`HighsKept`: what a writer is about to commit is no lower than what it
  read), `SelectionsOnce` (`DayInv`, for every cadence but `every_cycle`).

### Framework (`FrameworkProofs`)

No hypothesis beyond the ASSUMEs: any alphas, policies, cadences, drift thresholds,
weights, sessions and numbers of crashes.

* `CyclesAreSound`: `CycleInv` is the type, `RecordsSound` (interpolated weights of a funded start
  and a funded end are funded at each minute; a transition's clock does not run past its
  duration), `RanUnexpired`, and `EvaluationsCounted`: an alpha is evaluated on a day at most once
  more than there were crashes before the evaluation was saved.
* `MemoryIsKept`: a step that is not a crash forgets no active insight before its time.
* `BlendsArrive`: `WayInv` adds `OnTheWay`, by which batch and store tell of the same
  transition, which leads to what was asked for within the drift threshold, is settled, or
  has been asked for in this cycle; and `Arrival`, that its deadline is kept. A batch without action keeps the targets of
  the last one, which is why the invariant speaks of `cycle.resolved` on such cycles too.

### Replays (`BacktestProofs`)

Sums, plans, the pass of the risk model, lots and fills are recursive functions over the
indexes of a sequence. For each there is a lemma that it exists and stays in a type
(`Repeated`: a step that is total on a set gives a function from `0..m` to it; `UpTo`:
what every step keeps holds at its end), so the claims below follow from one step of
each loop.

* `DailyBarsInOrder`: `NoLookAhead`, from `FeedInv`. A slice adds the days before its own
  that are not in yet; the first of a day is the only one that has any.
* `BooksTyped`: types and `LotsMatchHoldings` for every risk model. A fill takes from the
  lots what it takes from the holding (`LotsClosed`, `BookedAlike`). The circuit breakers may
  grant a negative quantity; then portfolio and tracker both stop at zero, and still agree.
* `BooksAlwaysBalance`: all of `BooksBalance` for the basic risk model. It grants nothing
  negative (`GrantedOver`), and the orders of a decision add up to its difference
  (`ChunksAddUp`), so every sale is of shares that are there; then a fill moves cash,
  realised profit, fees and the cost of the open lots by amounts that cancel
  (`BookedConserves`). Cash stays covered because what the risk pass thinks is left
  (`StartPass`, `CashAfter`) is never more than what the portfolio has once the same
  decisions are filled (`Covers`), by induction over both loops at once. This needs one
  target for each symbol (`OneTargetEach`, what the resolver leaves): the pass compares
  each target with the holding before the batch. `BooksInv` joins the three.
* `ExitsGoThrough`: `ExitGoesThrough`. A target of zero is a plan of zero shares through every
  filter, floor and round of the optimizer (`SizeOfBatch`, `ExitSized`); every risk model grants it
  (`DecisionsExit`), and its slices add up to the holding.
* `BudgetSpentToItsEnd`: the rounds of the lot optimizer stay within each currency's budget and
  end with nothing left that fits. Each round buys the best of finitely many candidates, which
  exists although the order compares products of three numbers; `Lacking`, the number of units
  still wanted, falls with each (`LotsRun`), so the bound on rounds in the code is never met.
* `RemainderIsSpentOnce`: that, and `NoRoundTrip`. Without costs and sales of what is not there a
  cycle moves value between cash and shares at the prices it is sized from, so the next cycle
  has the same equity and the same batch gives twin plans (`Twins`): the same wants, budgets and
  lots. Filters and the rounding guard keep what was bought for the remainder.
* `RiskModelsKeepLimits`: `DrawdownHolds` and `ExposureHolds`. The highest equity is never below
  a slice's (`PeakInv`), and at the limit every increase is refused. For the exposure of a batch
  the pass counts what it has granted so far; the symbol that was bought last was judged
  with all that the others had been granted, which is why symbols new in the batch are the
  exception.

### The LEaps sleeve (`FrameworkProofs`)

`LeapsGuardsKeep`: the action property `LeapsGuardsHold`, for every parameter record of the risk
and the execution model, every scene, batch and book, and however orders are filled. Assumed
are `HedgeAssumption`, `ExecutionAssumption` and `LeapsAssumption`: percents are percents,
figures are integers where they are there, confirmations take at least one cycle, and a batch
names a symbol once, as `v4_banded_momentum` does, which keeps a dictionary by symbol.

* A pass of the risk model over its targets keeps `PassSound` (`PassStep`, `TargetsPassed`): one
  decision for each symbol answered; nothing but a target that asks for more is granted more;
  and, as long as all answers came from the limits, what is granted is within the cap, or
  all that was answered and counts towards it has been given up (`Capped`). The second half is
  needed because the cap may already be broken by what has not been answered yet.
* The reduction of what is held beside the targets is a loop over a set whose worst member is
  taken each time. There is a worst one because the order (gain, then size) is strict and the
  set is finite (`WorstExists`); once nothing is left, what is above the cap has been given up,
  and a book without exposure is within it (`LightenedHolds`). `Managed` joins both loops.
* `LeapsInv` ties the records in the model state to what has happened: a mark knows the moment
  of the last cut and no less than the size at its first cut (`MarkKept`); the index record holds
  the lowest price of the session's bars and counts no more cycles than its closes have risen
  for (`IndexKept`); the equity record counts no more than the equities have risen for
  (`EquityKept`). Both are forgotten with the session (`Dated`).
* From it `NothingBoughtBack` (a buy has passed `GuardCooling` with the mark's own moment),
  `HalvedOnceOnly` (the anchor only grows while a mark stands), `CapKept`, `LiftConfirmed` and
  `OverlayLifted`.

### Feed and sleeves (`SleeveRuntimeProofs`)

`FeedIsSound`: `FeedSound`, all seven rules of it, for any number of sleeves, symbols,
indicators, quotes, outages, positions coming and going, reloads and restarts. Assumed are
`SleevesAssumption`, `DaysAssumption`, `QuotesAssumption` and `IndicatorsAssumption`. Universes
are sequences in the model, as in the code, because the order of a union decides which symbols
a limit keeps; the rules speak of the sets.

`FeedInv` says what holds between any two steps of a process: every runtime that exists is
booted, its live symbols routed to the engine (`RuntimesSound`, `EngineSound`); while all sleeves
run in one process, those before the one at hand are booted and the others untouched, windows
rise up to the day before the boot, and between feed and cycle a store has active what the
engine makes of the last collection (`MultiSound`, `Raw`); a single sleeve keeps the same over its
shorter way (`SoloSound`, `Shown`); a staged reload is one that could have been booted
(`StagedSound`); and every cycle a framework has run was good when it ran (`SeenSound`), which
is what `FeedSound` needs.

### Induction over data

`InductionLemmas` states the counting arguments once. Induction is done on sets: if a
claim failed for some number there would be a least one (`WFMin` over
`NatLessThanWellFounded`), so no theorem with an operator parameter is needed. Sums
over a finite set unfold one member by the library's `SumFunctionOnSet`; the concatenation
of a sequence of sequences is characterised by the existence of the function that defines
it. `SelectSeq` is a definition the provers cannot expand, so modules to be proved about
filter with set constructors where order does not matter.

### Only model-checked

* Everything under fairness: `OwnFillsImported`, `OwnFillsCredited`, `CreditedFillsLogged`,
  `TicketsClose`. The provers have neither ENABLED nor liveness.
* `BooksBalance` under a circuit breaker. Conservation of money is no invariant there for
  every configuration: a breaker approves a *negative* quantity when the equity it
  sizes from is negative, and the sale credits cash for shares that are not held; the
  bounds of the run keep equity positive. `BooksTyped` does hold.
* The action properties `SleevesKeepRules` (banded momentum and the semiconduct-kor models),
  `CommandsKeepRules`, and `ProcessKeepsRules` (loop, client and files): each is a conjunction of
  rules of several modules over queues, journals and files kept as sequences of records; the
  first to prove would be `LoopKept`, `ClientKept` and `FilesKept`.
* The pure operators checked by ASSUMEs of the MC modules.

## 6. What is left out

*Data.* Numbers that are floats in Python are integers here; a softmax of scores is
replaced by shares in proportion to them; average prices, realised P&L, confidence,
reasons and time stamps are left out where no guard reads them.

*Account and orders.* The account file is read, changed and replaced as one step, so
updates lost between processes are not seen. `OrderRuntime` has one sleeve, symbol and
side, days end only between submits, and the broker's history has one row per order. The
command-queue gateway is not modelled. `OrderSubmit` has one sleeve, fixed prices and
whole fills, and a submit is one step there (`OrderRuntime` takes it apart). The checks of the guard
that only refuse more orders (session, lot, tick, route, notional, flip) and several
currencies are left out. No run enables `initialize_sleeve` with overwrite.

*State.* `created_at`, reasons, the order `events()` gives to events of equal time and
`fork_sqlite_runtime_state` are left out. `Exclusive` is an assumption on operators, not
something the code enforces.

*Broker client.* The grant of a lane's slot and the send are two steps, but time
passes only when every caller waits; intervals, margins and patience are small
numbers; ambiguous outcomes of the network are one reply (`OrderUnknown`). A hash key may
outlast the token's margin.

*Commands.* A configuration gives every sleeve an account or none; the environment is
fixed; transfers use the store's currency; routes are visited in a fixed order; a
behaviour has three commands at most.

*Minute files.* The broker's minute history and the services' are one table of moments with a
version; a load of daily histories is one step; which tickers a service knows, columns of
prices and volume, and time zones are left out.

*Pipeline.* Model loaders, custom models, optimisers other than the lot optimiser, reports and
rendering are left out. `PROJECT.json` has the reason for each component.

## 7. Plan

1. `LoopKept`, `ClientKept` and `FilesKept` as theorems of `LiveLoop`, `BrokerClient` and `MinuteFiles`.
2. `CommandsKeepRules` and `SleevesKeepRules` as theorems.
3. The account file as a file: read, change and replace by processes that overlap.
4. The order log as a file: torn lines and interleaved appends.
5. Fills of one order that come both as order events and as execution rows, and broker numbers
   that are used again on a later day.
