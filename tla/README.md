# A verification development of ChargeOpt

ChargeOpt operates charging stations, storage and a virtual power plant (VPP):
it forecasts, bids flexibility into a market, captures trades, turns them into
dispatch commands for site gateways, meters what was delivered and settles it.
This directory holds TLA+ modules that model the parts of it where processes
race, fail and retry, TLC configurations that check them on small instances,
and TLAPS proofs of their safety properties for every value of the constants.

Every definition is translated from the source. `PROJECT.json` maps it to its
lines, lists the runs, the mutants (a plausible fault for every property, which
makes it fail), the findings, the hazards and the theorems.

    tlc -workers 2 -config MCTaskQueue.cfg MCTaskQueue      # a run
    tlapm TaskQueueProofs.tla                               # a proof

## 1. Inventory

Everything durable is in PostgreSQL (`migrations/`), written by short
transactions under READ COMMITTED. Four kinds of process share it: the HTTP API
(`app.py`), task workers beside the site gateways (`worker.py`), VPP operations
workers (`vpp_operations.py`, two replicas, or the cron route of `app.py`), and
edge gateways (`edge_runtime.py`), which reach it through the API. They
interact through rows, leases and receipts; nothing else synchronises them.

| Component | State it keeps | Operations | What is hard, what makes it correct |
|---|---|---|---|
| Task queue (`repository.py`) | `task_queue`, `edge_command_receipts`, `delivery_schedules`, breaker | enqueue, claim, complete, reap, receipt | leases that lapse under a working worker; `complete_task` reads without a lock; receipts late or repeated. One command per claim, ownership by the latest claim, schedules that follow receipts, tasks that settle |
| Task worker (`worker.py`) | none that survives | claim, post to the gateway, record | lost answers, answers the database refuses, crashes between transactions |
| Order desk and outbox (`vpp_repository.py`, `vpp_trading.py`) | `market_orders`, `vpp_outbox`, `market_trades` | create, transition, claim, finish, fill, mark reconciled | two pods on one message, stale decisions, lost submissions. Legal moves, no message closed before its order was submitted, nothing traded twice or beyond the order |
| Operations worker (`vpp_operations.py`) | none that survives | publish, reconcile, reap | decides with an order read earlier; crash between dead letter and breaker; instance ids shared by overlapping cron runs |
| Market adapters (`vpp_trading.py`) | none | submit, query | 4xx means refusal for a submission and for a query alike |
| Circuit breaker (`vpp_circuit_breakers`) | one row per tenant | set, opened by receipts, dead letters, mismatches | writers disagree on what opens it; read once per cycle |
| Settlement (`vpp_repository.py`) | batches, lines, disputes, exports, adjustments, events | calculate, approve, dispute, resolve, export, pay, reverse | racing calculations, approvals outliving a dispute. Maker is not checker, money moves once each way, the event chain tells the truth |
| Metering (`vpp_repository.py`) | `vpp_meter_intervals` | ingest, correct | corrections while a calculation reads |
| Automation cycle (`vpp_automation.py`) | `vpp_automation_runs` | claim a cycle key, create orders, finish | a key consumed by a crash, limits and breaker read once per cycle |
| Edge runtime (`edge_runtime.py`) | registry of charge points, MQTT/Modbus sessions | route commands, forward telemetry | reconnects race with the end of old connections, commands come on other threads and time out without being cancelled. Answers agree with the devices, acknowledged messages are in the control plane |
| Industrial edge (`industrial_edge.py`) | SQLite buffer of offline evidence | append, replay, purge | bound of the buffer, replay after a lost acknowledgement. Nothing lost, nothing out of order |
| Message ingress (`app.py`, `repository.py`, `protocols.py`) | `protocol_messages`, `telemetry_ingest_log` | normalise, store, ingest | two transactions per message, redelivery |
| Digital twin (`digital_twin*.py`) | topology versions, diagnostics, maintenance, simulations, qualification | create, activate, diagnose, transition, record | activations race; rows found and inserted without a unique key. One version at an instant, one person closes an action |
| Energy platform (`energy_platform*.py`) | topology versions, evidence | validate, create, activate, record | the same race; a recursive search for cycles |
| Evidence ledgers (EMS, energy, twin) | immutable rows behind idempotency keys | compute, persist, replay | a key used twice at once or for other inputs. An answer is what the ledger keeps |
| Model registry (`mlops.py`) | `model_registry`, `model_evaluations` | register, evaluate, promote | evaluations dated before they run. One active model, approved by another, gate passed |
| Assurance (`operations_assurance.py`) | `operational_incidents`, `shadow_run_evidence` | run checks, record a day, gate | overlapping cron runs, incidents resolved before the day is recorded. Ready only after qualified days |
| Repository cache (`repository.py`) | per process and tenant, 30 s | load, invalidate | loads that overlap commits, other processes' writes. Own writes are read, stale data expire |
| Dispatch approval (`repository.py`) | approvals, recommendations, tasks | generate, PATCH, request, review | reviews repeated or reversed, commands replaced under review. Recommendation, approval and task agree |
| Accounts (`repository.py`, `manage_user.py`) | users, sessions, audit rows | log in, set up, recover, manage | logins that overlap resets, setups that race. Sessions end with the password, one initial administrator |
| Grid EMS, analytics, optimiser, revenue intelligence | none | algorithms | floating-point arithmetic |
| HTTP API, schemas, configuration, migrations, dashboard | none | requests | wrappers; where a route joins several transactions it is part of the component's module |

`PROJECT.json` lists each with its status, and its `hazards` list says at which
line each hard behaviour bites and which property watches it.

## 2. Modules

| Module | What it is |
|---|---|
| `CommandDelivery` | abstract: what the queue promises the field |
| `TaskQueue` | the queue, its workers, the reaper, device receipts; implements `CommandDelivery` |
| `MCTaskQueue` | its instance for TLC |
| `TaskQueueProofs` | its theorems |
| `OrderLifecycle` | abstract: what a market order promises |
| `OrderOutbox` | orders, outbox, operations workers, the venue, trades; implements `OrderLifecycle` |
| `MCOrderOutbox`, `OrderOutboxProofs` | instance and theorems |
| `SaleToDelivery` | abstract: the way of a sale from the venue to the stations |
| `DispatchChain` | `OrderOutbox` and `TaskQueue` joined by `record_trade_fill` and the breaker; implements `SaleToDelivery` |
| `MCDispatchChain`, `DispatchChainProofs` | instance and theorems |
| `SettlementPromise` | abstract: what a batch promises those it pays |
| `Settlement` | calculation and workflow of batches; implements `SettlementPromise` |
| `MCSettlement`, `SettlementProofs` | instance and theorems |
| `AutomationCycle` | the five-minute trading cycle, the only reader of the breaker |
| `MCAutomationCycle`, `AutomationCycleProofs` | instance and theorems |
| `RepositoryCache` | the snapshot cache of the API processes |
| `EvidenceChannel` | abstract: what the evidence buffer promises an auditor |
| `OfflineEvidence`, `ProtocolIngress`, `OcppGateway` | the site gateway: its evidence buffer (implements `EvidenceChannel`), a message's way in, its charge points and commands |
| `TopologyCheck`, `TopologyVersions`, `ModelRegistry`, `DispatchApproval` | decisions: whether a topology is valid, which version, which model is active, which command is approved |
| `EvidenceStore`, `TwinMaintenance`, `Assurance`, `Accounts` | records: ledgers, diagnostics and maintenance, shadow days, users and sessions |
| `MCControlPlane` | instance of these twelve |
| `DecisionProofs` | theorems about topologies, models and approvals |
| `RecordProofs` | theorems about ledgers, maintenance, shadow days, accounts and the cache |
| `ControlPlaneProofs` | theorems about the site gateway, and about the twelve side by side |

Two conventions hold in all of them. An action is what the code does between
two points where another process can get in: a transaction that locks its row,
one statement, or a call over the network. Faulty variants of an operation
stand next to it, named after it with the fault (`ClaimableWithoutLimit`); no
specification uses them, they serve the mutants of `PROJECT.json`.

### TaskQueue

`status`, `attempts`, `lockedBy` are columns of `task_queue`; `lease` is
`lease_expires_at` compared with `now()` (`none`, `held`, `lapsed`);
`receipts`, `schedule` and `breaker` are the rows `record_edge_receipt`
writes. A worker is in `pc`: `claimed` (between the claim and the gateway's
answer), `answered`, `reporting` (about to call `complete_task`), `writing`
(between the SELECT and the UPDATE of `complete_task`, which lock nothing).
`sent` and `hasLapsed` are history: which claims posted their command and
whether a lease of the task ever lapsed.

- `EnqueueTasks` inserts the tasks of one transaction: one in `enqueue_task`,
  one per station of the allocation in `record_trade_fill`.
- `ClaimNextTask`, `ReapExpiredTasks`, `CompleteRead`, `CompleteRefused` and
  `CompleteWrite` are the queue; the last two steps of `complete_task` are
  apart because another transaction can commit between them.
- `GatewayAnswered`, `GatewayFailed` are `_post_gateway`; a failure may have
  been carried out. `RecordReceipt` and `ReceiptRefused` split on the CHECK of
  `edge_command_receipts`, which knows neither `running` nor `queued`.
- `ReportVerdict` is a custom worker that reports through the API instead
  (`README.md`, "Execution Closure").
- `DeviceReceipt` is `POST /edge/receipts`: any command that was sent may be
  reported on at any time. Receipts have idempotency keys of their own.

Taken as given: completions come from workers that claimed the task; devices
report on commands they were sent (`record_edge_receipt` does not look whether
one was); different answers of the gateway have different bytes (those of this repository carry
`executed_at`). Abstracted: `priority`, `scheduled_at` (a delayed task is one
nobody claims yet), tenant checks, audit rows. Not modelled: dry-run workers,
retries by HTTP clients.

### OrderOutbox

An order and its one message share a name. `status`, `marketId`, `filled`,
`trades`, `schedules`, `recon` belong to the order, `outbox`, `attempts`,
`lockedBy`, `lease` to the message; `venue` is the order where it is traded;
`unnamed` is history: an accepted answer about the order carried no
`market_order_id`. A worker is one message (or one order to reconcile) in a process's hands, with
`InstanceOf` the id it writes to `locked_by`: a batch of twenty is several
workers of one instance. `seen` and `answer` are what it remembers, and may be
stale. Its steps are the transactions and venue calls of
`process_outbox_batch` and `reconcile_market_orders` in their order.

The venue is external. It accepts an order once per idempotency key, moves it
as it likes among the statuses of `VenueStatuses` and partial fills, and may
answer or not: every call may also fail after having had its effect. It may
report any status the adapter passes on, `failed` and `rejected` among them,
and `reconcile_market_orders` applies those ORDER_TRANSITIONS allows. An accepted
answer may name no `market_order_id` (`vpp_trading.py:130`); its message is
published all the same. The list of orders to reconcile is one read and the
comparison's own read of an order (`LookAtOrder`) another. Trades reach
`record_trade_fill` (webhook or operator) in any order, repeatedly, and whatever
reconciliation did meanwhile.

Abstracted: `available_at` delays and the two minutes between reconciliations
(an interval nobody uses yet), the hash chain of order events (the settlement
chain is built alike and is modelled). A database failure ends the process and
is a crash. `cancel_order` has no caller, so `cancel_pending` is reached only
if the venue says so.

### DispatchChain

The joint of desk and queue is one transaction: `record_trade_fill` records the
trade, moves the order and inserts a task per allocated station. `CaptureTrade`
is therefore the desk's `RecordTradeFill` and the queue's `EnqueueTasks` in one
step; every other step is a step of one side with the other side's rows
unchanged. The queue is an instance of `TaskQueue` whose tasks are the commands
`<<order, trade, station>>`, the idempotency key of the program. `breaker` is
shared: for the desk, a receipt that opens it is somebody's `SetCircuitBreaker`,
and a dead letter is the same for the queue. That `OperatorSets` are all states
of a breaker is the assumption that makes this true.

### Settlement

A batch is named by its (market, period), by the UNIQUE constraint. Workflow
operations lock the row first and are one action each. A calculation is
several: `SelectTrades`, one `CalculateLine` per trade, then `InsertBatch`
under ON CONFLICT DO NOTHING or `AbandonRequest`; trades and corrected meter
values commit in between. An amount is represented by the versions of the
meter values it was calculated from (`evidence`), which is what distinguishes
two calculations. `events` is the immutable chain, with the `from_status` the
code writes, which four operations write as a constant. Left out: hashes,
timestamps, reasons and references, the bytes of exports.

### AutomationCycle

`run` is `vpp_automation_runs.status` by cycle key, `stage` the status of an
order as far as the limits tell it apart, `breaker` the tenant's breaker. A
runner (operations worker, cron route, operator) goes through
`run_automation_cycle` in `pc`: `metrics` and `breaker` are the two statements
of `get_trading_context`, which under READ COMMITTED see different states;
`plan` the readiness gate, the forecast and the bids; `bidding` one
`create_market_order` after the other. `openRead`, `energyRead`, `circuit` and
`enqueued` are its context and its counter. `lost`, `sawClosed` and
`overlapped` are history.

An order is named by its cycle and its block: `delivery_start` is the time of
the cycle to the microsecond plus a multiple of fifteen minutes
(`vpp_trading.py:199`, `advanced_ems.py:163`), so that the idempotency key of
two cycles never is the same, though their deliveries overlap.

What moves around the cycles is free: `DeskMoves` takes orders along
`ORDER_TRANSITIONS` (`OrderOutbox` says how), `SetCircuitBreaker` sets the
breaker at will. Abstracted: one tenant; energy counts in blocks of one bid;
size, price, confidence, age and `auto_trade_enabled` are one choice, `sound`;
the policy is constant, because no code writes it. The ON CONFLICT branch of
`create_market_order` is kept although no cycle reaches it.

### RepositoryCache

`cached` is `_cached_repos` of every process, `written` counts the commits and
names the versions a snapshot can have. A load is `LoadBegins` (its first
SELECT) and `LoadEnds`; commits fall in between. `Write` is a write of the
process that invalidates, `WriteUnannounced` one that reaches no cache:
another program's, or one that does not call `invalidate_repository_cache`: the
task queue's, approval requests, and all that the VPP, twin, energy platform,
EMS, model and assurance repositories write. Routes are coroutines that do not await
while they load or write, so that one handler runs at a time in a process. Time
is `Tick`, a fraction of the 30 s.

### OfflineEvidence, ProtocolIngress, OcppGateway

The buffer is modelled whole: `append` with its bound and its uniqueness,
`pending`, `mark_replayed`, `purge_replayed`. Its replayer is not in the
repository and is external: two of them may overlap and stop anywhere.

`ProtocolIngress` follows a message from the broker (or a sender without one)
through the gateway's call to `POST .../messages`, which stores it in one
transaction and ingests its reading in another. Calls fail, callers give up on
calls that go on, and sessions reconnect. `IsTelemetry` is what `protocols.py`
makes of a message. A reading that normalisation rejects (bad checksum, bad
quality) is still `kind = "telemetry"` and is ingested with a load of 0
(`app.py:1572`); the model follows the code.

`OcppGateway` has one step per point where the event loop and the HTTP thread
can interleave. `displaced` is history: connections whose entry another handler
replaced or, in its `finally`, removed.

### TopologyCheck, TopologyVersions

`TopologyCheck` takes the depth-first search of `_has_cycle` and the worklist
of `_reachable` one visit at a time and starts from any containment. It is
checked against a definition of acyclicity and of reachability by sets.

In `TopologyVersions` an activation is SELECT FOR UPDATE, the search of the
retiring UPDATE, its locks, and the activating UPDATE with the commit. `start`
is `now()`, the start of the transaction and the date of the change; `table`
says whether the versions are the twin's or the energy platform's, which differ
in `Activatable`. The unique index and the CHECK on the windows are guards of
the commit.

### ModelRegistry, DispatchApproval

One scope of the registry; an evaluation's `at` is the start of its
transaction, `lastGate` what the one that ran last found. A promotion is the
lock and the readings, then the commit. In `DispatchApproval` a payload is the
number of the generation that made it; a review reads the command in the route
and commits with it later.

### EvidenceStore, TwinMaintenance, Assurance, Accounts

Each operation is split where it reads without a lock or waits. An input of
`EvidenceStore` stands for a request and its result and has two parts: what the
EMS `input_hash` covers and what it does not (the station, and the evidence
class where it is set after hashing), so that a key may be replayed for another
station. The ledgers differ in how they treat a known key; a key in `Unscoped`
names no station, and the UNIQUE constraint of qualification evidence does not
see its duplicates. `TwinMaintenance` has one station and one diagnosis;
`overlapped` is history. `Assurance` counts days; a fault of a day is any of its
counts, `lasting` when nothing takes it back (a dead letter, a cycle that never
completed), `passing` when a receipt, a later comparison or a resolution clears
it (`FaultClears`), before the cron or after. `Accounts` numbers the passwords
of a user; a login is two steps because it hashes between reading the user and
inserting the session, and the script is two because a person types a password
between reading `existing` and the write (`BeginManage`, `CommitManage`).
`spared` is history: sessions a script left open because it had found no user.

## 3. Runs

| Run | Instance | States | What it shows |
|---|---|---|---|
| `MCTaskQueue` | 1 VPP task, 2 workers, 2 attempts | 124 thousand | all properties of the queue, with fairness |
| `MCTaskQueueLease` | same | | finding: running without a lease |
| `MCTaskQueueBreaker` | same | | finding: failed dispatch, closed breaker |
| `MCOrderOutbox` | 1 order of 2 lots, 2 trades, 2 workers under one shared instance id, 2 attempts | 558 thousand | all properties of the order desk with indistinguishable owners, with fairness (the proofs hold for any instance ids) |
| `MCOrderOutboxQuery` | 1 lot, 2 pods | | finding: live order rejected by a 4xx query |
| `MCOrderOutboxDeadLetter` | 1 lot, 2 pods | | finding: dead letter, closed breaker |
| `MCDispatchChain` | 1 order of 2 lots, 1 trade, 1 station; 1 operations worker with 2 attempts, 1 dispatcher with 1 | 1.5 million | desk and queue together: only what is sold is commanded, in the order of the abstract sale |
| `MCSettlement` | 1 period, 1 trade, 1 interval, 2 people, 2 requests, 2 exports | 286 thousand | all properties of settlement |
| `MCAutomationCycle` | 2 runners, 2 cycles, 3 blocks, 2 per cycle, 1 open order | 80 thousand | all properties of the cycle, with fairness |
| `MCAutomationCycleEnergy` | 2 blocks, daily limit of 1 | | finding: daily limit passed within a cycle |
| `MCControlPlane` | twelve components, two or three concurrent callers each | 563 thousand | safety of all twelve; staleness expires |
| `MCControlPlaneBootstrap` | same | | finding: the setup endpoint opens again |

`MCControlPlane` has a variable `focus` that is chosen at the start and names
the component that runs; the others keep an initial state. They share no
variable, so that the run is twelve runs in one, and a behaviour of the product
would show nothing that the twelve do not: an invariant speaks of the variables
of one component only.

Why the bounds are enough to be interesting: with two workers and two attempts
a lease can lapse under a working worker, be taken over, and the last attempt
be reached, and both workers can then act in any order. A second task or order
would be independent (rows share only the breaker; the run of `DispatchChain` has one
worker and one dispatcher on that row, the proofs any number of both); two lots and two trades
give partial, exact and over-sized fills; one correction of one interval makes
two calculations differ; `MaxEvents = 7` holds calculation, approval, dispute,
resolution, approval, export and payment; two cycles of two bids against a limit
of one open order overlap, overrun and follow one another. `MaxAttempts`, `Quantity`,
`MaxReadings` and `MaxEvents` are the only bounds; the first two are
parameters of the program, the others stop counters the code leaves open.
In `MCControlPlane`: two processes and one write show a load that overlaps it;
a buffer of two rows with three events is full and purged; three deliveries of
three messages of different kinds are redelivered once each or one twice; three
connections of two charge points give a reconnect; three versions and two
activators give an activation that retires what another one just activated;
three dated evaluations of two models give one that runs after a later one;
three assets have chains, diamonds, cycles and orphans; two required days out of
three are followed by a third; three requests under two keys race and replay
with inputs that differ in either part; a script, a login and two setups meet
on two accounts. The venue's statuses differ by run: `MCOrderOutbox` has filled,
cancelled and failed ends, `MCDispatchChain` partial fills and a cancellation that
is pending and one that is done, the two findings the first list and partial
fills; expired and rejected are in the proofs, which take any of them. `OperatorSets` is empty in
`MCOrderOutbox`, so that it may stop, and its deadlock check is off. The bounds are `MaxWrites`, `MaxSequence`,
`MaxDeliveries`, `MaxVersion`, `MaxTime`, `MaxStarts`, `MaxPayloads`,
`MaxTasks`, `LastDay`, `MaxPasswords`, `DiagnosticIds` and `ActionIds`.
The proofs need none of these numbers.

### Properties

Some properties are proved for every value of the constants and are not
repeated in a run; they are marked *proved*.

*TaskQueue.* `ClaimsAreExclusive`: no claim posts twice, so at most
`MaxAttempts` commands leave (`OneSendPerClaim`), and the owner is who claimed
last (`LockIsLatestClaim`), which is what makes the check of `complete_task`
useful. `OverlapNeedsLapse`: two workers on one task imply that a lease lapsed. `DispatchedWasAcknowledged`: a schedule
counts as dispatched only after a succeeded receipt about a sent command.
`QueuedTaskSettles` (liveness): a queued task ends, or is `Stranded`, which
names exactly the states the code cannot leave by itself. `KeepsCommandPromise`
is the refinement.

*OrderOutbox.* `MessageAgreesWithOrder` (`PublishedIsSubmitted` and
`FailedHasCause`: only a dead message or the venue fails an order), `UnknownAtVenueIsUnfinished`, `NeverAheadOfVenue`,
`FullyTradedIsFilled` relate the message, the order, the trades and the venue
under stale decisions (what the venue has taken and the platform cannot find is
still to be answered, given up, refused, or was accepted without an id);
`MessagesEndOnce` (action property, *proved*): a published or dead message is never
reopened or rewritten, by a worker whose lease was taken over or by one that
shares its instance id with the owner. `SubmissionSettles` (liveness) says a
submission is answered, dead, or lost with a crash in its last attempt;
`KeepsOrderPromise` is the refinement.

*DispatchChain.* `CommandsAreSold`: a command at an edge is one of a recorded
trade, its order was taken by the venue, is known under its market id unless the answer
named none, and is never back at the desk, and every recorded trade has its tasks: this joins four tables and the
venue. `KeepsItsParts` (*proved*): the joint adds no step that either side could not take
alone, so that a retried trade never queues a command again. `KeepsSalePromise`
is the refinement: held, owed, commanded, acknowledged, in this order, and
nothing taken back.

*Settlement.* `ChainIsHistory`, `PaymentWasChecked` and the refinement
`KeepsSettlementPromise`; `DisputedHasOpenDispute` (*proved*): a batch waits in
dispute exactly as long as a dispute is open.

*AutomationCycle.* `CyclesAreOwned` (*proved*): one runner per cycle key, and no row runs
without one unless it died. `BidsUnderClosedBreaker`: whatever is read in which
order, a breaker that is open when a cycle begins and stays so stops it.
`OverrunNeedsOverlap`: `max_open_orders` is kept, though every cycle decides by
a stale count, unless two cycles overlap; that it fails when they do is a
hazard the code accepts. `CyclesSubmitOnce` (action property): an ended cycle is
not reopened, and an order appears only while its own cycle runs, after those for
earlier blocks, which is what makes retries of a cycle harmless. `CycleSettles`
(liveness): a cycle that began ends or its runner died.

*RepositoryCache.* `ReadsOwnWrites`: a process never serves a snapshot without
its own announced writes, whichever key is read. `StaleExpires` (liveness):
what another process's commit has outdated is served for a time only.

*Site gateway.* `EvidenceComesThrough`: what `append` accepted is in the buffer
until the control plane has it, and arrives in order, whoever replays.
`KeepsEvidencePromise` (*proved*): the buffer implements `EvidenceChannel`, so that nothing
arrives before it was accepted, or is skipped, or taken back.
`AckedIsIngested`: what the broker may forget is stored and ingested under the
same key. `GatewayKeepsTrack`: a serving connection is the registered one unless
displaced, an ended one is never registered; an answered success was executed
and an answered failure was not, a timeout excepted.

*Decisions.* `VerdictIsRight`: the two validators accept exactly the trees, or
the acyclic graphs. `OneVersionAtATime`: no two validity windows overlap and one
is open at most, however activations interleave. `PastIsStable` (action
property): no step changes which version was in force on a date before the
activations under way began, though they write dates chosen then. `ActiveIsGated`: the active
model is the only one, was approved by another than its maker, and the latest
evaluation by date and the last to run both passed. `DecisionsAgree`:
recommendation, approval and task say the same until somebody PATCHes.

*Records.* `AnswerIsEvidence`: an EMS answer is a row of the ledger, computed
from inputs of the same hash and, unless it is called a replay, from the very
inputs sent; the other ledgers keep what they answer or call it a replay; a key
has one row, but for qualification evidence without a station. `ClosedOnce`: one
person closes an action, one action is open at most. `ActionsMoveLegally` (action
property, *proved*): a transition checked when its action was read is still
legal when it is written. `ReadyIsEarned`: the gate is open only after the
required days, each written after its end, none of them touched by a critical
incident, however soon it was resolved, or by a fault that nothing takes back.
`SessionsEndWithPassword`: a live session was opened under the password of
today, also when a slow login overlaps a reset, but for those a script spares.
`AdministratorMadeOnce`: racing setups and recoveries make one administrator.

### Fairness

`TaskQueue`: leases lapse, workers poll, the reaper runs, and a worker goes on
unless it crashes, all weak: `worker.main` and `run_operational_maintenance`
loop for ever and every call they make has a timeout. `OrderOutbox`: the same,
but claims are strongly fair, because a worker may alternate between messages
and orders to reconcile, while each pass of the loop publishes before it
reconciles. Nobody is obliged to enqueue, to trade, to answer or to crash.
`Settlement` has no fairness: people decide. `AutomationCycle`: a runner goes on
with its cycle, weakly fair, because it is straight-line code; failing is not
counted on. `MCControlPlane`: time passes (`WF(Tick)`), nothing else; nobody is
obliged to read, write or load.

## 4. Findings

Six statements of the documentation are not what the code does, each shown by
a run that must fail: see `findings` in `PROJECT.json`. In short: a late
receipt leaves a row running with no lease (`docs/architecture.md:75`); a
dispatch that exhausts its attempts does not open the breaker
(`README.md:314`); a dead letter may never open it (`README.md:312`); one cycle
passes the daily energy limit, because it does not count its own orders against
it (`README.md:316`); and a 4xx answer to a query ends a live order as rejected
and matched, with the breaker closed (`README.md:312`); and the setup endpoint
asks for an active administrator, so that disabling the only one opens it again
(`README.md:218`).

Known and watched by no property, because no line of the code or its docs says
what should happen or because no state shows it: a worker's receipt key is a
hash of the gateway's answer (`repository.py:1368`), so that an edge which
repeats its bytes has a second receipt dropped; a dry-run worker records
receipts for commands it never sent (`worker.py:97`); a repeated fill of a
filled order is refused instead of acknowledged (`vpp_repository.py:555`); a
dead letter of an order that was never submitted leaves it ready
(`vpp_operations.py:111`); committed energy counts the database's date
(`vpp_repository.py:83`); rejected readings are ingested (`app.py:1572`); a
session verified against a password that is reset meanwhile lives on
(`repository.py:742`); an order accepted without an id is never reconciled
(`vpp_trading.py:130`); a fault that was cleared before the cron, or shows after
it, leaves its day qualified (`operations_assurance.py:58`); the account script
says it revoked sessions that it spared, when their user appeared while it
prompted (`manage_user.py:91`); an EMS key answers for another station or
evidence class (`grid_ems.py:111`), and qualification evidence without a station
has no unique key (`migrations/015_digital_twin.sql:252`).

## 5. Proofs

All safety and action properties above and the five refinements
are theorems, for any sets of tasks, workers, orders, instances, trades, periods,
people, processes, messages, connections, versions and models and any
bounds that satisfy the assumptions the modules name (`TaskQueueAssumption`,
`OrderOutboxAssumption`, `CacheAssumption` and so on: positive limits, null
values outside their sets, subsets of the known statuses, finitely many cycle
keys). Each proof module defines an
inductive invariant, proves that `Init` implies it and that every action
preserves it (one step per action, one per conjunct it can disturb), and
derives the properties.

- `QueueInv` adds to the properties what a worker carries at each place
  (`WorkerInv`), that only claims already made have sent anything (`SentInv`),
  that receipts are about sent commands (`ReceiptInv`), and that a task which a
  second worker could claim while a first is on it has seen a lease lapse
  (`LapseInv`). Without it `OverlapNeedsLapse` is not inductive: the overlap
  begins one step before the second claim, when the row is queued again.
- `OutboxInv` adds, per order, how message, order, market id and venue agree
  (`OrderInv`; `Answered` says that a market id is known or an answer named
  none, and `Grounds` what a move needs so that a failed order has a cause), and per worker what it may rely on between two steps
  (`WorkerInv`): what it read of the order may be stale, but a status the venue
  ended with stays true, an order that left the desk never comes back, and a
  dead letter is never taken up again.
- `SettlementInv` adds, per batch, that an approved or exported batch has a
  checked approval at the end of its chain with only exports after it, that
  lines exist exactly with the batch, and that it has one adjustment exactly
  when reversed (`BatchInv`), and per request that it never ends up with an
  empty batch (`RequestInv`). Lemmas on `Append` carry the facts about chains.
- `CycleInv` adds what a runner carries (`RunnerInv`) and, while no cycles have
  overlapped, that one runner is at work and that the open orders are not more
  than it read plus those it enqueued (`LimitInv`). Lemmas about the
  cardinality of sets of orders do the counting. `CyclesSubmitOnce` needs
  `SubmitInv` besides: what a cycle has still to do has no order yet.
- `ChainInv` is `OutboxInv`, the queue's invariant with "a task without a row is
  unclaimed and unsent" (`RowsInv`), "an order with trades is in the market or
  after it, with a market id or an answer that named none" (`SalesInv`) and "tasks exist exactly for trades"
  (`LinkInv`). The lemmas about the queue are not proved again: the proof module
  is instantiated with the chain's queue (`QP`) and cited through it. Since each
  step of the chain is a step or a stutter of each part, all that is proved of a
  part alone holds of the chain (`PartsPromisesHold`).

- `CacheInv` adds that a load under way saw every announced write of its
  process (`LoadsAreRecent`), because no other handler runs meanwhile.
- `EvidenceInv` adds that a batch is a prefix of what was pending when it was
  read (`BatchesArePrefixes`), without which two replayers could not be shown to
  keep the order. Under it an upload is the arrival of the first record that has
  not arrived, or of one that has, which is how `EvidenceChannel` is implemented.
  `IngressInv` adds that a call's stage tells what it has
  committed; `GatewayInv` that what is registered is alive or about to end, and
  that a command's stage tells what the device did.
- `RegistryInv` adds that the shadow models are those whose last gate passed,
  and that a promotion under way holds the lock on its model and the list of
  active ones it will retire. `DispatchInv` adds that a review under way carries
  a command no newer than the recommendation.
- `VersionsInv` adds that a row's status tells its window (`RowsTell`), that
  windows do not overlap (`WindowsApart`), that the locks of two activations are
  disjoint (`ActivationsApart`) and that what an activation has locked is as it
  found it (`ActivationsGrounded`). `OneVersionAtATime` alone is not inductive:
  the commit writes dates that were chosen when the transaction began.
- `CheckInv` says of the depth-first search that the visiting set is the stack
  of calls, each a child of the one below it (`IsPath`), and that what is visited
  is closed and has in every group a member without a child in the group
  (`IsSettled`), a form of acyclicity that adding one node preserves; of the
  worklist, that frontier and reached stay within every closed set around the
  root and that the children of what is handled are in them (`ReachIsRight`).
  When both are done this is the verdict: no induction over the search is needed.
- `LedgerInv`, `MaintenanceInv`, `AssuranceInv` and `AccountsInv` add what each
  request carries between its two steps: `CronIsLate` and `QualifiedIsClean`
  that a qualified row was written after its day, so that no lasting fault can
  be dated on it later, `SetupsAreExclusive` and `SetupsAreGrounded` that a setup
  holds the tenant's lock and that what it read under it still holds.

The refinements are proved as `Init => AbstractInit` and, under the invariant,
each step is a step of the abstract specification or a stutter. For the twelve
components of `MCControlPlane`, `EachBehavesAlone` shows that their composition
implements the specification of each one, and `PromisesHoldTogether` draws all
their invariants from it.

Only model-checked: `QueuedTaskSettles`, `SubmissionSettles`, `CycleSettles` and
`StaleExpires`, since the prover does not handle fairness. Nothing is assumed
beyond the named assumptions.

## 6. Plan and limits

What remains, most important first:

1. Settlement at the end of the chain: what is paid is a recorded trade of
   `DispatchChain`, whose lines were calculated from its meters.
2. `DispatchApproval` with `TaskQueue`, through the task a review enqueues. Today
   they meet in `PROJECT.json` only.
3. Settlement arithmetic, clipping of bids and power sharing over small integers
   against reference definitions.
4. Identical gateway answers and dry runs in `TaskQueue`.

Not modelled: floating-point forecasting, optimisation, state estimation and
grid calculations (outside TLC's and TLAPS's reach); the fields of messages,
Modbus registers and client libraries; password, token and signature
cryptography, API keys; routes that validate and call one function; the
connection pool; migrations and drills, run one at a time by hand; the
dashboard.
