# AgriTrust backend: verification

TLA+ models of the AgriTrust backend, checked with TLC and, where the table
below says so, proved with TLAPS for every value of the constants. The
reference is the code under `src/src/`: wherever a comment or a document says
something else, the model follows the code, and the disagreement is listed.

- `X.tla`: a component, its state, its steps, its properties.
- `MCX.tla` and `*.cfg`: the instances TLC checks.
- `X_proofs.tla`: the theorems about X; `Deposits_proofs` is about both kinds of silo
  deposit, `Services_proofs` about the services that share no state.
- `PROJECT.json`: which definition stands for which lines, the runs, the
  mutated definitions that show each property can fail, hazards and findings.

To check a run: `tlc -config JobQueue.cfg MCJobScheduler`; to check the proofs of
a module: `tlapm SagaCoordinator_proofs.tla`.

## 1. Inventory

The backend is one Node process (or several) over one PostgreSQL database, one
Redis and the Stellar/Soroban network. JavaScript runs a function up to its
next `await` in one step; concurrency is what other callers, timers, processes
and the network do at an `await`. Below, paths are relative to `src/src/`.

| Component | State | Operations | Interacts with | What is hard | What makes it correct |
|---|---|---|---|---|---|
| Two-phase commit store and coordinator (`core/state/pending_store.ts`, `transaction_controller.ts`) | rows of `pending_transactions` | insert, setSorobanHash, markCommitted, markRolledBack, findTimedOut | flows, recovery worker | check and insert are two statements; two writers decide one row | one open transaction per cargo, decided once, committed only with the ledger |
| Recovery worker (`core/state/recovery_worker.ts`) | the sweep in memory | tick, resolve a row, callback | store, Soroban, a flow's restore callback | works on rows read earlier; dies or fails in the middle | every row is decided, consistently with what the call returned |
| Two-phase silo deposits (`inventory/two_phase_deposit.ts`) | `silo_bins.balance` | one call: lock, read, prepare, apply, unlock, submit, decide | lock, store, Soroban | phase 2 is outside the lock; replies are lost | no confirmed deposit is lost |
| Plain silo deposits (`inventory/deposit_handler.ts`) | balance, `deposit_log` | one call | lock | partial failure under the lock | balance and log add up |
| Silo bin lock (`inventory/silo_lock.ts`) | advisory locks, a map of handles | acquire with a timeout, release | PostgreSQL sessions | leaked sessions, timeouts, the shared map | one caller per bin |
| Soroban client (`blockchain/soroban_bridge.ts`) | none of its own | submit, poll until a deadline | the ledger | late success, unknown outcome | success is never invented |
| Two-phase escrow release (`settlement/two_phase_escrow.ts`) | places of the calls | one call | engine, store, Soroban | no lock; records are in memory | an escrow is paid out once |
| Escrow engine (`settlement/escrow-engine.ts`) | map of escrow records | hold, verify, release and their reversals | flows, settlement saga | stale checks by callers | status goes along its chain |
| Saga coordinator (`settlement/saga-coordinator.ts`, `compensation-handler.ts`, `saga-step.ts`, `database/saga_log.ts`) | `saga_executions`, `saga_log`, slots per tenant | execute, retry | steps' actions, database | crashes between an action and its record, retries, timeouts that leave the action running | order of steps, completed means done, slots exact |
| Job queue (`job-queue/*.ts`, `api/routes/adminJobsRoutes.ts`) | Redis levels and bodies, deficits, pool | enqueue, rounds, dispatch, cancel, resize, rebalance, stop | Redis, handlers, administrator | overlapping rounds, three commands to dequeue, zombie handlers | no job twice, none mislaid, the first level always served and the others once callers stop |
| WebSocket drain (`websocket/*.ts`) | state and timers of each connection, registry, frame queues, lifecycle log | add, remove, drain, ack, close, scan, accept, flush | sockets, timers, the event of a close | two registries that meet only in an event; timers of an earlier connection | counters exact, every drain ends, no stampede |
| Event store (`event-store/*.ts`) | events, snapshots, archive columns, objects | load, append, snapshot, archive | cold storage, overlapping cron passes | check and insert are two statements; snapshots taken after an archival | a dense compare-and-append log; folds miss archived events only; no payload cleared before it is stored |
| Attestation sync (`attestation/*.ts`, `network/connectivity-monitor.ts`) | IndexedDB buffer, filter, flush loop | enqueue, flush, ack, nack, online, offline, start, stop | transport | records read earlier and written back, lost replies, flapping network, two loops | acknowledged means delivered; no unanswered record is evicted; a flush ends |
| Ledger event catch-up (`blockchain/event_catchup.ts`, `event_processor.ts`) | gap rows, events, alerts | find, fill, retry, escalate | Horizon, live ingestion | missing ledgers, escalated gaps found again, ledger numbers that are texts | a gap called filled was walked, and holds what Horizon gave |
| Certificate minting (`certificate/mintService.ts`, `events/batchEventListener.ts`) | `batch_certificates`, session locks, pooled clients | mint | ledger, listener | racing mints, a crash after the intent, a clean-up that deletes another's intent | one token per batch unless an intent was deleted |
| Batch audit log (`audit/*.ts`) | `batch_audit` | logTransition, replayBatch | PostgreSQL transaction lock | concurrent writers, shared lock keys | dense sequence, in the order of the commits |
| Tenant connection routing (`database/tenant_routing.ts`, `connection_pool.ts`) | counters, waiting queue | getConnection, release, drain, cleanup | pools | two writers of one queue across awaits | no waiter lost, counters exact |
| Sensor ingestion (`sensors/*.ts`) | window of frames, levels, sockets and their intervals | accept, store, hold, resume, read, close | database pools, through the shared flag | a level that holds itself up, a window at its limits | the flag agrees with the levels; frames are lost only above the watermark |
| Devices and revocation (`devices/*.ts`, `api/gateway/mtls_auth.ts`) | registry, cached revocation list | register, revoke, refresh, verify | table | the cached list is that of the start | section 7 |
| Rate limiter (`api/middleware/rate_limit.ts`, `device_auth.ts`, `devices/profile_store.ts`) | profiles, token buckets | allow, upsert, clean up | clock | a rate that changes with each report, eviction | no history admits more than the burst and the best rate |
| Health model (`health/*.ts`) | graph, check results, service states, alerts | configure, evaluate, assess, search paths | checkers, overlapping evaluations | results that finish out of order, cycles | states follow the newest results, each risk is alerted |
| LRU cache and batch provenance | order of the entries | get, set | — | nothing concurrent | section 7 |
| Commitments, OpenAPI validation, metrics, transaction builder, CLI | none worth a model | — | — | — | section 7 |

## 2. Modules

The `\*` comments in the modules name the method behind each action; `PROJECT.json`
gives the lines.

```
Transactions -- CargoTransactions                 (abstract protocol of the rows)
     |
     +-- PendingStore ---+
     +-- SorobanNetwork -+-- RecoveryWorker --+-- TwoPhaseDeposit -- SiloInventory
                              SiloLock -------+
                                              +-- EscrowRelease
                              EscrowEngine ---+
SagaCoordinator
RingBuffer -- WebSocketDrain
QueuedJobs -- JobPersistence --+-- JobScheduler
           -- WorkerPool ------+
EventLog (abstract log)
EventPersistence -- EventStore                    (refines EventLog)
OfflineBuffer -- SyncEngine
SensorGateway                      -+
RateLimiter                         |
TenantPool                          |
MintService                         +-- MCServices
AuditLogger                         |
EventCatchup                        |
CascadingModel -- HealthAggregator -+
```

### Two-phase commit store, recovery worker

`PendingStore` has one operator for each SQL statement on `pending_transactions`.
A row is named by the transaction that creates it (`prepare()` draws a UUID).
`row` is the status column, `hash` whether `soroban_hash` is set, `expired`
whether `timeout_at` has passed. `insert()` looks for a pending row in one
statement and writes in a later one: they are two steps, and the flows say what
may happen in between. `CargoTransactions` is what the coordinator promises about the rows
whoever runs it; `ImplementsProtocol` is the refinement.

`RecoveryWorker` is one `setInterval` loop: `Tick` takes what `findTimedOut`
returns into `todo`, `Resolve` takes a row and decides by its hash and the
ledger's answer, `CommitRow`/`MarkRow`, then `Restore` for the callback.
`ORDER BY created_at` is abstracted: rows come in any order. `findTimedOut`
returns a row as it is then; the sweep works on that copy (`SweptRows` in the
proofs). The callback is supplied by whoever builds the worker; it is modelled
as what the flow's comment asks of it, writing `before_state.balance` back.

What the code does that no property contradicts, because it does not hold:

- The worker marks a row first and runs the callback after it; if the callback
  throws, the row is decided already and the callback is never tried again.
- `markRolledBack` does not say whether it changed a row, so a sweep whose copy
  is stale runs the callback for a row that its own call has committed
  meanwhile, and the callback takes no lock: this is why
  `NoConfirmedDepositLost` is claimed for `Workers = {}` only.
- No source outside the tests starts a `RecoveryWorker` or calls a two-phase
  flow, and nothing calls `setSorobanHash`; `HashRecorders` is there so that a
  caller that does is covered too.

### Silo deposits

`TwoPhaseDeposit` is one call of `processTwoPhaseDeposit` per member of `Tx`, each `await` a
step: `AcquireLock`, `ReadBalance`, `CheckPending`, `InsertPending`, `ApplyTentative`,
`Unlock`, `Submit`, `Poll`, then `Commit` or `RestoreBalance` and `RollBack`. Every
statement may fail without effect, or be done and its reply lost
(`ThenGoto`); the process may die anywhere (`Crash`), which ends its session and its
lock; a session that breaks under a running call is such a death too, since nothing
listens to the errors of a client that is checked out, so that `SessionEnds` is
about leaked sessions only. `confirmed` is a history variable: the weight that counts as deposited.
The header comment of `two_phase_deposit.ts` says "deduct"; the code adds, and so does the model.

`SiloInventory` adds `processDeposit`, the plain deposit, to the same bins.
Each balance of the log row is the one its own statement saw. A plain deposit made while
a two-phase deposit of the bin is pending is overwritten if that one rolls back:
`NoInventoryDrift` and
`LogAddsUp` are therefore claimed for bins without two-phase deposits
(`PlainOnly`), `LockGuardsBin` for both kinds together, and the lost plain
deposit is a hazard without a property.

`SiloLock` is the advisory lock as callers see it. `releaseSiloBinLock` may throw
and leave the lock with a pooled session, until that session ends; a caller that
waits too long is cancelled by `statement_timeout`. Two details are outside the
model: the handle map of one process is keyed by bin (planned as
`AdvisoryLock`), and `hashSiloBin` may yield a value of 2^63 or more, beyond a
PostgreSQL `bigint`. The migration `20250626000001` declares `cargo_id` as UUID where the flow passes
`silo-x-bin-y`.

### Escrow release

`EscrowRelease` is one call of `processTwoPhaseEscrowRelease` per member of `Tx`; its
cargo is the escrow. Nothing locks an escrow around `prepare()`, so two rows may
be pending; what saves the payout is that `release()` is synchronous. The records
are the memory of one process: `Restart` loses them ("none") while rows and
ledger stay. `EscrowEngine` has the operations as operators (`EngineReleaseOk`
and `EngineRelease`), which the settlement saga will use too. The comment at `two_phase_escrow.ts:26` says
that a rollback restores the previous state: the record is left `reversed`, not `verified`,
so that a failed release cannot be tried again. A worker that finds no hash rolls a row back,
although `recovery_worker.ts:20-21` rests that on the transaction not having been
submitted: nothing calls `setSorobanHash`, so that a submitted row looks the same.
Nor does `insert` keep two rows of one cargo from being pending, as
`transaction_controller.ts:30-31` says, where no lock is held around `prepare()`.

### Sagas

`SagaCoordinator`: a run is one `execute()`, a first one or one `retry()` makes. `pc` is
the await it is at. `status` and `saved` are the two columns of `saga_executions`,
`last` the status of each step's latest `saga_log` record, which is all that
`isStepCompleted` looks at. What a step does is its definition's matter: an
action has an effect that its compensation takes back. `late` holds the calls
that `withTimeout` gave up on or a dead process left behind: they may be carried
out at any time later. The ordered list `completed` is a set, `done`: steps are
appended in ascending order, so its order adds nothing. `index.js` registers
the settlement definition with an empty escrow id and amount 0; the model does not
depend on the definition. Behaviours the model has that no property denies: a
retry that read its row before the saga completed runs it again; a saga that
times out leaves the completed steps a retry had not reached uncompensated; a
compensation that failed in an earlier run is hidden by a later run that ends
`compensated`; results recorded after the last status write are not in the
context a retry starts from; and an action whose completed record was not
written is executed again, although `saga-coordinator.ts:65-66` promises
at-most-once.

What effects and log keep is claimed for calm behaviours, whatever the cap: no two
runs of one saga overlap, and no given-up compensation is carried out late (`Calm`).
Both happen in the code, and both break it: `retry()` looks at nothing but the stored
status, and `withTimeout` abandons a compensation as it does an action. The order of the
log (`OrderKept`) excepts one thing more: a deadline that ends a retry before it has
passed over all steps recorded as completed (`NothingOverlooked`), since the rest stays
completed while those before are compensated.

### Job queue

`QueuedJobs` is the data, `JobPersistence` the Redis commands, `WorkerPool` the
pool, `JobScheduler` the rounds, producers, administrator and process. Rounds
overlap because `setInterval` does not wait for the last one; a round is at an
await between `zpopmin`, `hget` and `hdel`. Abstractions: five `ZCARD`s of one
pass are one step; jobs are submitted in number order, the number being the
score; a round takes the first free slot of `Rounds`; a deficit is capped at
what the jobs of its level could cost; `Quantum` and `Unit` keep the proportion
between a level's weight and a job's cost. `fate` is a history variable: where each job
has ended up. What the code does, each of which is in the model:

- a job refused for its type's concurrency has left Redis and is dropped,
  although the comment at `worker-pool.ts:55` says "Re-enqueue";
- a failed job is not retried: `fireOnComplete` ignores the retry it is handed;
- a cancelled job may have been popped already: it runs, or, if its body is
  gone, makes the round take its level for empty;
- the cap is approximate (`QueueBounded` says by how much, for a level's share
  no larger than the cap), and a handler that
  outlives its timeout runs beside its successors, so that the number of
  *running handlers* of a type is not bounded by `maxConcurrency`, the number of
  slots is;
- a crash between `zpopmin` and `hdel` leaves a body nobody points to;
- a lower level starves while a higher one is kept supplied: each round serves the
  levels in the same order, an unspent deficit carries over without a cap, and a full pool
  hands each freed slot to the first level with jobs (`scheduler.ts:66-91`). The
  comment at `scheduler.ts:14-16` says that no priority is starved: run `starved_level`
  refutes it. What holds is `LevelsServed`: the first level is served under any load,
  and every level once callers stop.

Jobs, levels and rounds are finite in number, which is what the counters are about;
`Jobs` are numbers, the score they are submitted with. A job of `Recurring` is
submitted anew once it has settled or been dropped, so that a load can go on for ever.

### WebSocket drain

`WebSocketDrain` puts the drain controller, the connection manager and the telemetry channel
together, because JavaScript runs a method and all its listeners in one step.
A handle is one socket; its id may come back with a new handle. The controller's maps are keyed by
id, timers keep the handle. Assumed of callers: an id is used again only when it
has left the registry, and only the current holder of an id calls about it.
`RatioDen` is the inverse of `MAX_DRAINING_RATIO` (1000 in the code). The guard
compares the ratio *before* it counts the new drain: with fewer than 1000
connections one may drain at a time, and the strict comparison would never let
any. One scan walks a list of handles taken before it, and each drain it starts
counts for the next: `CanDrain` says which of the quiet handles are admitted by
counting those ahead of it. The registry is a sequence, of which a removal
takes out one position. The branch for `ackReceived` in `startAckDeadline` is dead code. A drain refused
by the guard leaves the connection Active and its refused frame queued and
counted. `RingBuffer` is the lifecycle log.

### Event store

`EventPersistence` has the statements on one stream's tables, `EventStore` the
callers (`rehydrate`, `append`, a snapshot when the append crosses the
threshold) and the archival passes, one step per statement or object-store call.
A folded state is the sequence of the versions folded into it. The version check
and the `INSERT` are two statements: a later caller waits on the unique key of an
open transaction, and fails when that one commits. Streams meet only in the
order an archival pass takes them, which is that of one stream. A pass reads the
oldest versions and has them in hand as a set (`todo`); `NextGroup` is the month
of the least of them, which is the next object it uploads, and `KeyOf` the
object's name. Rows of one `INSERT` share their `created_at`; that they come in
the order of their versions is the order of the index the query walks, and not
something SQL promises. In another order, two overlapping passes that `batchSize`
cuts within such rows could give two different objects the same name.
`EventLog` is what callers are promised, a compare-and-append log, and
`ImplementsLog` the refinement. What `snapshotter.ts:107-108` says does not hold:
a snapshot made after an archival pass folds from the initial state over the
rows that still have a payload, and so misses the archived ones;
`FoldsAreFaithful` says that it misses no other and keeps their order.

### Attestation sync

`OfflineBuffer` is the buffer and its eviction, `SyncEngine` the flush loop, the
filter, connectivity, `start`/`stop` and a transport that answers in part,
rejects, throws, or throws after the server has taken the batch. The store is
the partition each record is in; the order of `lastModified`, in which candidates
are evicted, and that of a batch's result items are left open, so that what
holds does not rest on them. `enqueue` reads the count, the acknowledged and
the failed records one after the other, and lowers its count for every candidate
it deletes, also for one that another call has deleted before.
`ack` and `nack` read a record and write it (`ReadRecord`, `SettleRecord`);
`resetSyncing` and `dequeueBatch` read many and write them one by one. A second reset may begin
while one is still writing; a record that both have read is written once. Any of
these writes (`PutStale`) may overtake another, and may put back a record that has
been evicted since: `revivals` counts these, since each lets the buffer grow by
one more than its limit. An identifier of `FalsePositives` is found in the
filter though nobody has added it; the flush acknowledges such a record
without sending it (`sync-engine.ts:126`).
`stop()` leaves a loop running and `start()` begins another: `Loops`. The comment
near `sync-engine.ts:141` says that records return to pending for a retry; they
go to the failed partition, which no flush reads. Going online
during a flush that is past its last look at the buffer starts no new one.

### Sensor gateway

`SensorGateway` is the map of backpressure levels with its flag, the sockets,
their check intervals, the sliding window, its reader, and the database pool.
What the code does:

- a sensor that sends while the flag is up becomes CRITICAL, which keeps the
  flag up, and goes back to NORMAL only when it hangs up (`gateway.ts:53`): its
  interval waits for a flag that its own level holds. `OnlyHangUpsRelease` and
  `HeldSocketsWait` state this, `DropsNeedHangUps` what follows for lost frames;
- all pools share the key `connection_pool`, so that the last writer decides;
- a `_read` that finds the window empty ends the stream's reading until somebody
  reads again (`buffer_manager.ts:49`).

### Rate limiter

`RateLimiter` is the profile store and the token buckets. Powers of a
frame and time are what matters to a rate, so that a frame is its power. An
interval is recorded twice by each report (`profile_store.ts:25`,
`rate_limit.ts:233`), and the firmware byte is never read. The time since the
last refill is credited at whatever rate the newest report gives, which is why
`AdmittedAtBestRate` speaks of the best rate. The clean-up deletes each bucket
whose key has no profile and is not a dotted IPv4 address with a port: `Dotted` are the
fallback keys of that form, the others (IPv6) go as devices do
(`rate_limit.ts:217-220`). A deleted bucket starts full again. The comment at `rate_limit.ts:183-185` speaks of an
LRU eviction of fallback buckets; no code does it.

### Tenant routing

`TenantPool` is the counter around a `pg` pool (external) and the router: arrays of
waiters live in a heap, because a drain walks the array it took while others replace
the queue. The sort of a drain is any sequence of the same waiters in the order of
priority and arrival, and what a clean-up keeps the sequence of the others.

- A walk awaits every entry, one that no pool has capacity for too
  (`tenant_routing.ts:160-168`), and each entry's await is a step of its own: requests,
  releases and other drains come in between.
- What is due first comes first: a timer or a socket has its turn when no outcome that is
  known waits to be taken (`NoTurnDue`).
- A clean-up makes another array even if nothing has expired.
- A client and the promise it resolves are one step.

`acquired` counts a client when it connects
and again while it is used (`AcquiredCountsTwice`), and the maximum shrinks at each
removal. Overlapping drains and clean-ups lose waiters and resolve clients for
promises that are settled already, which nobody releases
(`tenant_routing.ts:151-171`): `WaitersAreKept` is what holds as long as none
overlapped, `TenantCountsAgree` counts those clients in.

### Certificate minting

`MintService` is one call of `mintCertificate` per member of `MintCalls`, each
statement a step that may fail, a connection that may be lost, a process that
may die, and the listener, which always asks for `batch_event_123`. What the
code does: the lock key is an unsigned 64-bit number and may exceed a `bigint`
(`mintService.ts:88-95`), so that `Lockable` is a subset of the batches; the others never
mint, their unlock is refused as their lock was, and each such call leaks its
client (`mintService.ts:83`); an intent that conflicts is looked up again in a
statement of its own (`Recheck`), and if the row was deleted in between, the answer is
an error (`mintService.ts:51-62`); the catch block deletes whatever `minting` row the batch has, another call's
included (`mintService.ts:79`), after which a second certificate is minted
(`cancelled` counts this); a failed unlock leaks the client with its lock; a
death after the intent leaves a row that turns all later calls away.

### Audit log

`AuditLogger` is the transaction of `logTransition` with its advisory lock, whose
32-bit key batches may share, and the unique constraint of the table.

### Ledger catch-up

`EventCatchup` is the worker's cycle: the gap query, the row of each gap (one
statement per gap), the walk of a gap ledger by ledger, Horizon's answers, and a
failure's two statements. A ledger that Horizon does not have, an effect it fails to
list, and effects beyond the first page (`soroban_bridge.ts:69-86`) count as absent,
and the gap is still marked filled (`unread`). An escalated gap gets a new row in the
next cycle, and `getGapId` returns any row of the range. `CycleEnds` is a death, or an
error of a statement outside the `try` (lines 148-154) or in its `catch` (190-203): it ends the
cycle without an alert.

`sequence`, `range_start` and `range_end` are `BIGINT` columns, which `pg` returns as
texts, and nothing converts them. `Text` is a number's text in base `Radix`:

- `rangeEnd + 1` is a concatenation (`event_catchup.ts:157`): the known hash is that
  of ledger 41 after a gap that ends at 4 (`OneAppended`), almost always one nobody
  knows, so that nothing is compared; if it is known, every ledger of the gap is
  compared with it (166);
- the loop's first test compares two texts (159): "9" is not before "12", so a gap of
  9 to 12 is marked filled without being walked (`ComparesInOrder`). From the second
  round on a number is compared with a text, which converts it (`Further`). That is
  why `FilledIsComplete` is claimed for the ranges whose ends do compare in order.

### Health evaluations

`CascadingModel` is the dependency graph, the Markov chain and the path search with probabilities in integer units, `HealthAggregator` the
overlapping evaluations, the latest result of each check, and the alerts. The loop
of `matrixPower` is one turn (`Turn`) taken so many times, and the search the set of
its nested calls (`Visit`), by depth: both are recursive functions over the numbers,
so that they can be reasoned about. The search
takes the larger of the product and the last service's own risk, which is
always the latter: `PathsAreExact` gives the reference definition by simple paths.
Alerts are kept by path; the code keys them by the names joined with `-`
(`aggregator.ts:246`), so names are taken to have none.

## 3. Runs

Each run asks one question of one instance. Each `VIOLATION` run states what a
comment of the source says, and TLC's trace shows how the code departs from it.

| Run | Instance | Checks | Bounds, and why they are enough |
|---|---|---|---|
| `deposit_calls` | 3 two-phase deposits, 1 bin, no worker, as the server runs today | `NoConfirmedDepositLost`, `EveryCallReturns` | a rollback, the one that read its tentative balance, and a third that comes after both; one failure, lost reply or crash anywhere |
| `deposit_recovery` | 2 deposits, one records its hash, 1 worker | `RowsAreBacked`, `ReturnMatchesRow`, `ImplementsProtocol`, `EveryRowDecided` | call and worker race for one row, a second call waits for it; two rows suffice, since all properties relate at most two |
| `plain_deposits` | 1 two-phase and 1 plain deposit into one bin, 2 plain ones into another | `LockGuardsBin`, `BinsAddUp` | either kind of call meets the other inside the lock, and two plain calls meet each other; two failures: one leaks the lock, the other hits the call that waited for it |
| `escrow_release` | 3 releases of one escrow, 1 worker | `NoDoublePayout`, `EscrowMatchesReturn` | a winner, a loser at every place, and a later call; one failure or restart |
| `saga_runs` | 1 saga of 3 steps, 2 runs at a time (`Cap = 2`) | `SlotsMatchRuns`, `EveryRunEnds`, `EffectsKept`, `OrderKept` | a first run and a retry, one after the other or overlapping, with a failure of any kind: database, crash, orphaned call, either deadline; three steps tell "a prefix" from "the first"; two attempts of each compensation |
| `websocket_drains` | 2 ids, 3 handles, one reconnects; ring of 3; every second connection may drain | `ConnectionsAgree`, `LogIsFaithful`, `NoStampede`, `EveryDrainEnds` | the ring wraps; `MAX_PENDING_FRAMES = 1` with a queue of 2 reaches refusal; a ratio of 1/2 both admits and defers |
| `job_queue` | 3 jobs, 2 levels, 2 overlapping rounds, pool of 1 or 2, cap of 1 | `CountsAgree`, `Accounted`, `OverrunsBounded`, `RunsOnce`, `LevelsServed` | two rounds overlap as any two do; two jobs share a type with one slot; a level with a share of 1 reaches the cap; one of the jobs is submitted again and again; one failure, crash or intervention |
| `starved_level` | the same, two jobs of the first level submitted again and again, no failure | VIOLATION of `NoStarvation` | a slot that frees is always wanted by the first level |
| `dirty_balance_read` | 2 deposits, no failure | VIOLATION of `RollbackRestoresBalance` | — |
| `event_store` | 2 callers, 2 archival passes, versions up to 3 in batches of 1 or 2, a fault | `LogIsDense`, `FoldsAreFaithful`, `ArchivalIsSound`, `ImplementsLog` | two callers race for a version while two passes overlap; a snapshot is taken before and after an archival; three versions in two months give a pass two objects |
| `attestation_sync` | 2 producers, a buffer for 1 record, 2 loops, 3 records, one of them a false positive | `NothingIsLost`, `PartitionsAreSound`, `EveryFlushEnds` | a limit of one is overrun at once by racing producers; two loops are what stop and start leave; `Effort` bounds records, losses and faults together |
| `services` | seven services, each alone: 2 sensors and a window of 4; 3 devices, room for 2 profiles, 2 fallback addresses, one of them dotted; 5 requests of 2 tiers on 3 pools of 1; 3 mint calls on 2 batches with 2 faults; 3 writers on 2 batches; 5 ledgers numbered in base 2; 3 services and 2 rounds | `BackpressureHolds`, `OnlyHangUpsRelease`, `AdmittedAtBestRate`, `RoutingAccounts`, `CertificatesAccounted`, `LogFollowsCommits`, `GapsAccounted`, `RisksAreExact`, `RoundsAgree`, `TypeOK` | each instance reaches the limit it is about: the window wraps and drops, a third device evicts, two drains walk one queue, a clean-up deletes another's intent, writers queue for one lock, gaps escalate and are found again, a gap's ends differ in their digits, rounds finish out of order in a cyclic graph |

Many of these are conjunctions of named parts, each stated and commented by
itself in its module; the mutants of a property aim at different parts:

| Property | Its parts |
|---|---|
| `RowsAreBacked` | `OnePendingPerBin`, `CommittedOnChain` |
| `BinsAddUp` | `InventoryTypeOK`, `NoInventoryDrift`, `LogAddsUp` |
| `EffectsKept` | `CompletedInEffect`, `ActsInOrder` |
| `OrderKept` | `CompletedIsPrefix` |
| `LevelsServed` | `FirstLevelServed`, `BacklogClears` |
| `ConnectionsAgree` | `TypeOK`, `ActiveCounted`, `OneTimerPerDrain`, `RegistriesAgree`, `FramesCounted` |
| `LogIsFaithful` | `LogIsNewest`, `ClosedOnce` |
| `EveryDrainEnds` | `DrainsEnd`, `QuietDrained` |
| `OverrunsBounded` | `TypeOK`, `PoolOverfill`, `QueueBounded`, `DebtBounded` |
| `ArchivalIsSound` | `TypeOK`, `ArchivedIsStored` |
| `NothingIsLost` | `AckedWasDelivered`, `UnansweredIsKept` |
| `PartitionsAreSound` | `TypeOK`, `SyncingIsOwned`, `OverrunBounded` |
| `BackpressureHolds` | `GlobalAgrees`, `HeldSocketsWait`, `WindowIsNewest`, `Hysteresis`, `DropsNeedHangUps` |
| `RoutingAccounts` | `AcquiredCountsTwice`, `TenantCountsAgree`, `WaitersAreKept` |
| `CertificatesAccounted` | `ExtraMintsWereCancelled`, `AnswersAreRecorded`, `IntentsAreOwned`, `LocksAreHeld` |
| `LogFollowsCommits` | `ReplayIsCommitOrder`, `NumbersAreFree` |
| `GapsAccounted` | `GapsAreHoles`, `FilledIsComplete`, `RowsFollowEscalations`, `FailuresAreAlerted` |
| `RisksAreExact` | `MirrorsAgree`, `StatesFollowResults`, `RowsAreDistributions`, `RiskRisesWithDependencies`, `PathsAreExact` |
| `RoundsAgree` | `ResultsNeverGoBack`, `RisksAreAlerted` |

`services` puts services that share no state into one run: a behaviour is one
service's, the others stay at their first state. It is equal to seven runs, with
one initial choice.

Distinct states: `deposit_calls` 294,669, `deposit_recovery` 108,070,
`plain_deposits` 210,046, `escrow_release` 52,723, `saga_runs` 526,455,
`websocket_drains` 90,615, `job_queue` 310,893, `event_store` 1,349,864,
`attestation_sync` 441,506, `services` 460,043; `starved_level` stops at its
counterexample after 14,691.

Deadlock is not checked: calls, runs, jobs and sockets are finite in number and
the behaviours may end. That nothing stops *early* is what the liveness
properties say. Types are checked as a part of
the properties above or, for `TwoPhaseDeposit`, `EscrowRelease` and
`SagaCoordinator`, proved only.

Named bounds: `MaxFaults` (failures of any kind in a behaviour), `Runs`,
`Rounds`, `Producers` (one in the job queue's run: callers of `enqueue` that
overlap add one job each to the cap), `MaxFrames`, `Retries`, `Depth`, `Effort`,
`MaxVersion`, `MaxId`, `MaxConnections`, `MaxRequests`, `Horizon`, `MaxTroubles`,
`MaxMintFaults`, `MaxGapRows`, `MaxFailures`, `MaxCuts`, `Drains`, `MaxNow`. Symmetry is
used where members are interchangeable and no liveness is checked
(`escrow_release`, `event_store`, `services`).

The mutants of `PROJECT.json` are the forms marked as such in the modules; each
breaks the property it is listed for, in the run's own instance.

## 4. Fairness

- `TwoPhaseDeposit`: a call that has its lock goes on (awaits come back, with a
  result or an error); a row's `timeout_at` passes; `setInterval` goes on
  ticking the worker. The ledger is owed nothing: `Conclude` is not fair, and
  `EveryCallReturns` holds because the poll has a deadline. A call is not owed
  its lock, and a leaked session need not end.
- `SagaCoordinator`: the awaits of a run come back. An action that never returns
  is given up by `withTimeout`, which is why `Run` is fair as a whole.
  Failures and crashes are bounded by `MaxFaults`, not fair.
- `WebSocketDrain`: timers fire and the scan goes on. No client is owed an ACK
  or a device a touch.
- `JobScheduler`: the interval ticks, Redis answers each waiting round, and a
  job's timeout fires. Handlers need not settle; the administrator need not
  start a stopped scheduler (`LevelsServed` allows `~on`).
  Both runs use it with callers that may, but need not, submit on for ever
  (`SustainedSpec`).
- `SyncEngine`: the awaits of each loop come back, the transport's with an answer
  or an error (it is the caller's, and a transport that never settles would hold its
  flush for ever), and `resetSyncing` goes on. Nobody is owed connectivity,
  a producer, or a `start()`.

The other modules state no fairness: their properties are about safety.

## 5. Proofs

All theorems are proved for every value of the constants under the `ASSUME`s of
the modules, which TLC evaluates on the runs. `MaxFaults` is an arbitrary
number, so the results hold for any number of failures.

**`Deposits_proofs`**, the two-phase deposits first.

- `Exclusive`, `Backed`, together `RowsBacked`, from `RowInv`. `OnePendingPerBin` is not inductive: it
  needs that a call between acquire and release holds the lock (`HoldsLock`),
  that a row exists exactly from the `INSERT` on and the `SELECT` before it
  still stands (`RowFollowsCall`). `CommittedOnChain` needs that whoever is
  about to commit has seen the success (`SuccessSeen`).
- `Refinement`: `Spec => ImplementsProtocol`. Initial states map to initial
  states and each step to a step of `CargoTransactions` or a stutter; `Begin` is
  enabled at `InsertPending` because of `RowFollowsCall`, `Commit` because of
  `SuccessSeen`.
- `ReturnsTrue`, from `ReturnInv`: a row whose caller records no hash has one
  only once it is committed, so no sweep's copy of it leads to a commit
  (`HashesExplained`, `SweptRows`), so its own call alone commits it.
- `NothingLost`, for `Workers = {}`, from `BalanceInv`: a row stays pending until
  its own call decides it, and while it does nobody else passes `SELECT`. The
  subtle part is a call at its `SELECT` that has read a tentative balance: what
  it read is never less than what it may be asked to write back.
- `OneInTheBin` and `PlainBinsAddUp`, for plain and two-phase deposits together, from
  `InventoryInv`: the types, `RowInv` of the two-phase calls, and `PlainInv`. A
  call of either kind between lock and unlock holds its bin (`PlainHoldsLock`,
  `HoldsLock`); what a plain call read is still the balance when it writes, and
  what it wrote is still there when it logs (`ReadingsAreCurrent`), which is what
  makes `LogAddsUp` inductive. `RowsBackedBesidePlain`: the rows are as
  sound with plain deposits beside them as without.

**`EscrowRelease_proofs`**. `PaidOnce` and `RecordKept` from `PayoutInv`, which
has two parts: `ClaimInv` (an escrow whose release went through, or whose
envelope is out, is never `verified` again, and one call has it) and `RecordInv`
(at every place of that call the record is what the call left, or lost). Rows
need no invariant at all here: exclusiveness of the rows does not hold where no
lock is taken, and the proof shows that the payout does not rest on it.

**`SagaCoordinator_proofs`**. `SlotsExact`: a tenant's counter is the number of
its running sagas and never above the cap. `TypeInv` adds to the types that a
run that has begun has a saga (`SagaKnown`) and one that works on a step has a
step (`StepKnown`). The argument is about the finite set `Busy(t)`: a step
leaves it alone (`SlotsKept`), adds the run that takes a slot (`SlotTaken`), takes out
the one that ends (`SlotGivenBack`, where the counter is not zero because the
run is in the set), or empties it (a crash, which resets the counters). It rests
on `IsFiniteSet(Runs)`.

`CalmEffects` and `CalmOrder` are about effects and log, for any cap, any number of
sagas and retries, and failures of every kind, both deadlines included. As long as the
behaviour is calm (`Calm`, section 2), a completed saga has the effect of each step and each
action those before it; and, as long as no deadline makes a run overlook a completed step
(`NothingOverlooked`), the completed steps are the first ones. Both come from one invariant,
`LogAndRuns(k)`: the log's completed steps have their effects (`LogInv`), and each run's list,
step and direction agree with it (`RunInv`); with k = 1 it includes the order. Orphaned
*actions* are not excluded: carried out late, they only add an effect. The
conditions are about the runs of one saga, not of a tenant: other sagas overlap as they
like. They are conditions on what happens, and the run reaches both sides of each: calm
behaviours with every kind of failure, and uncalm ones that break the conclusion. The
code keeps neither: it is for callers not to retry a saga that is running.

**`EventStore_proofs`**. `VersionsAreDense` and `CompareAndAppend`, from `StoreInv`:
what a version check found is still reached when its transaction commits
(`ExpectedIsReached`), an open transaction holds exactly its batch
(`TentativeIsBatch`), and no open version is committed or held by another
(`Unclaimed`, which is the unique key). `LogIsDense` alone is not inductive: a
commit fills the versions after the expected one, and without
`ExpectedIsReached` nothing says that those before it are there.
`CompareAndAppend` is the step half of `ImplementsLog` over the rows as a set, and
`StreamIsALog` the whole refinement: `InOrder` of a dense set is the sequence of
its versions one by one (`LengthInv`), so that a committed batch is what is appended
to the log.

`FoldsMissOnlyTheArchived`, from `StatesInv`: a folded state ascends, ends at its
version, and misses none below it but archived ones. A page read after a
snapshot starts behind all the snapshot holds; a page cut at its limit holds the
oldest, so that whatever it leaves out comes after its last version.

`ClearedOnlyWhenStored`, from `ArchiveInv`. Passes overlap and put objects under
names made of the least and the greatest version of a group, so that the danger is
that one object replaces another that held more. It never does: each month is archived from
its start (`MonthsFromStart`), and what a pass has in hand is, with what is archived, a
whole stretch of each of its months (`HandSound`), so that a name says what its
object holds (`ObjectsAreWhole`) whoever puts it, and when.

**`Services_proofs`, sensors**. `FlagInv` (every socket's level, and the interval of each
paused one) gives `FlagAgrees`, `HeldWait` and `HangUpsAlone`; `WindowInv` gives
`NewestKept`; `PausedInv` gives `PausesBetween`. `LossNeedsHangUps` needs `DropInv`:
the frames above the watermark never outnumber the sensors that have hung up,
because the sensor that writes one is raised and lets nobody write until it has gone. The
last two assume `Capacity >= 2`: with one place the high watermark is zero.
`FlagSocketsAndWindow` joins the five.

**`Services_proofs`, audit log**. `ReplayFollowsCommits` and `NumbersStayFree`, from `AuditInv`:
whoever is past the lock is its only holder (`LockIsHeld`), the rows number the
commits (`RowsAreCommits`), and the number a writer has read is the next
(`NextIsFree`). Batches may share keys in any way. `HistoryOfCommits` joins the two.

**`Services_proofs`, certificates**. `CertificatesCounted`, `AnswersStayRecorded` and
`IntentsStayOwned`, from `MintInv`: the certificates of a batch and those on their way
are at most one more than the deleted intents, and no more than those when there
is no row (`CountInv`); until an intent is deleted one call owns the row
(`SoleOwner`); what is recorded is on the chain (`Backed`). The session lock is
not used at all: the unique row suffices. `LocksStayHeld` is about the lock, and
rests on the rest only for types. `EverythingAccounted` joins the four.

**`Services_proofs`, rate limiter**. `NeverAboveBestRate`, from `LimiterInv`: what a bucket has
admitted and the tokens it still holds were both paid for by its burst and the
time up to its last refill (`TokensArePaidFor`). The property alone says
nothing of the tokens left, from which the next request is admitted.

**`Services_proofs`, catch-up**. `CatchupAccounts`, for any ledgers and radix, from `CatchupInv`: the row at hand has been
walked as far as its next ledger (`WalkedSoFar`), so that a row whose ends compare in order is
filled only when its last ledger has been passed, no gap still to be recorded or
filled has a row that says filled (`TodoUnfilled`), and of two rows of one range
one has failed as often as it takes to escalate (`OneFreshRow`, `EscalatedFailed`).
That the query's gaps are exactly the holes (`GapsAreHoles`) needs no invariant
but takes the existence of a nearest known ledger on each side. A cycle cut short,
between the failure's two statements too, takes one alert at most.

**`Services_proofs`, tenant routing**. `ClientsAndWaitersAccounted`, from `TenantInv`: no more requests hold a
client of a pool than its clients in use (`HoldersUse`); the arrays the drains
walk and build are in the heap and distinct (`HeapOK`); and while no two walks have
overlapped, every waiting request is in the queue, or is one the walk has
still ahead, at hand or kept (`Lines`), whatever came in between two of its
entries. Once two walks have overlapped nothing is
claimed of the waiters, because the code loses some.

**`Services_proofs`, health**. `HealthInv` has the types of the graph and of the rounds
(a finished check is no younger than the clock, a round no older than its
results), the mirror of the edges, and that states follow results. It gives
`RoundsDisturbNothing` (both action properties of `RoundsAgree`) and `RisksAreComputed`.
The second is also about what the code computes:

- a loop of `matrixPower` keeps each row a distribution, rounded down
  (`RowsAreDistributions`), for any window. Recursion over the numbers is reasoned
  about by a least counterexample (`LoopExists`, `AllNumbers`), since the
  library's induction theorem cannot be used here;
- the search finds exactly the simple paths that end in a risk over the
  threshold (`PathsAreExact`), in any graph, cycles included: the calls nested at
  most n deep are the simple paths of at most n + 1 services (`SearchVisits`), and
  no simple path has more services than the graph, so that a depth of their number is
  enough.

That no service is safer for a dependency that gets worse (`RiskRisesWithDependencies`) is
model-checked only. The probabilities are rounded, and for longer windows the rounded power
does not rise with every impact, so that it is a matter of the window's own numbers; TLC
checks it for the code's default window of 5.

**`Services_proofs`, the services together**. `EachServiceBehaves`: a behaviour of `MCServices` is a
behaviour of each of the seven services, so that every theorem about one of them
holds there too. `EveryTypeHolds` joins their types, with the bounds in them, for
which three needed more than types: clients under way and lost are together
no more than the pool has (`MintTypesHold`), a gap row's next ledger stays within
its range through every walk (`CatchupTypesHold`), and profiles and
intervals keep to their stores at each report, eviction and clean-up (`LimiterTypesHold`). It
rests on what the constants are (`BoundsAssumption`, `ClientsAssumption`,
`HealthAssumption`). The module extends `MCServices` for this.

**`JobScheduler_proofs`**. `JobsInv` is about where jobs are: an accepted job is in its level
with its body, in one round's hands, or in a slot (`OnePlace`), a handler runs for
a job that has its slot or had it until the timeout (`HandlersKnown`), and the
counter of a type is the number of its jobs in slots (`CountsOK`). It gives
`SlotsAreCounted`, `NoJobIsMislaid` and, step by step, `NoJobRunsTwice`.
`OverrunsAreBounded` is from `LimitsInv`. A round that goes on has looked at pool
and deficit with what the others hold already counted, so that each adds one at
most. For the cap the bound itself is not inductive: the levels beyond
their share (`Crowded`) were let grow by the look at the whole queue, so that these
together keep to `MaxQueued` and each of the others to its share (`CapOK`), with the callers that have
been admitted and not yet written counted in. `ZPOPMIN`'s job and the largest
pool are members of finite sets of numbers, whose existence comes from the
well-foundedness of strict inclusion.

**`SyncEngine_proofs`**. `NoRecordIsLost` and `PartitionsStaySound`, from `SyncInv`.
`Kept` adds to the two properties that what failed is recorded as such and
that every candidate for eviction was delivered, has failed or is a false positive;
`LoopsOK` says what a loop may have in hand at each place, and that it
acknowledges only what is known to be delivered. `OverrunBounded` is far from
inductive: of the producers that make room at once, some have counted what others
have evicted. `Estimate` is the size a producer will believe in once it has evicted those of
its candidates that are still there, and `WithinOverrun` bounds, for *every* number
n, how many producers may have an estimate of at most n (`Ahead`): an eviction takes one
from the store and at most one from each estimate, so that the bound for n
afterwards is the bound for n + 1 before. It rests on `IsFiniteSet(Producers)`.

**`WebSocketDrain_proofs`**. `DrainInv` says what the entries count (`EntriesOK`), that the
registry holds an id once and an entry the handle it is about
(`RegistryOK`), that a socket is as its entry says (`SocketsOK`), where the ring
keeps its newest entries (`RingOK`), and that a socket's close is recorded exactly once
it is closed (`ClosesOK`). It gives `RegistriesNeverDiffer` and `LogTellsTheTruth`, and
`NoScanStampedes` for the steps: of the handles one scan drains the last one
was admitted with all the others counted.

Only model-checked:

- liveness under fairness, which the prover has no `ENABLED` for (`EveryCallReturns`, `EveryRowDecided`,
  `EveryRunEnds`, `EveryDrainEnds`, `LevelsServed`, `EveryFlushEnds`);
- `RiskRisesWithDependencies`, the one part of `RisksAreExact` that `RisksAreComputed` leaves
  out, for the run's window.

Every other invariant, action property and refinement that a passing run checks is stated by a
theorem. Some have a hypothesis, in their statement or in the property: no workers
(`NothingLost`), calm behaviours (`CalmEffects`, `CalmOrder`), `Capacity >= 2` (the window's),
ends that compare in order (`FilledIsComplete`), walks that did not overlap (`WaitersAreKept`).

## 6. Disagreements with comments

Two are runs (`findings` in `PROJECT.json`):

- `dirty_balance_read`, `RollbackRestoresBalance`: the comment of `two_phase_deposit.ts:29`
  says that a failure restores the balance. A call that read another's tentative balance
  before it looked for a pending row writes that back after the other's rollback.
- `starved_level`, `NoStarvation`: the comment at `scheduler.ts:14-16` says that no priority
  is starved. The run is a lasso in which the pool is full whenever the lower level has
  its turn, and each freed slot goes to the first level, whose deficit grows faster than it is
  spent; what the lower level has saved buys it nothing.

The others that came up are told at their component in section 2.

## 7. Not modelled

`PROJECT.json` gives the reason for each component.

- Device registry and revocation. `revokeSerial` sends `BEGIN`, its statements and `COMMIT`
  through `pool.query`, each on whichever client is free, so that they are no
  transaction; the cron discards the list that `refreshCrl` returns, so that the
  list consulted is that of the start (`src/index.js:287`). What is left is one
  statement per request.
- `sensors/writer.ts` and `memory_store.ts`: nothing outside the tests connects
  them to the gateway. (A flush removes its rows from the buffer before it has a
  client, and loses them if none is to be had.)
- `database/query_classifier.ts` and `lib/lru-cache.ts`: a table lookup without a caller,
  and a sequential cache.
- Commitments and zero-knowledge provenance are arithmetic on large fields,
  sequential and beyond an explicit-state check; OpenAPI validation, the
  transaction builder, preflight and the CLI transform one input; metrics only
  observe.

Modelled, but claimed by no property, because the code does go wrong there:

- a gap whose ends do not compare in order as texts is marked filled without being walked
  (`event_catchup.ts:159`; `FilledIsComplete` excepts exactly these);
- a key whose bucket was deleted starts with a full burst again (`rate_limit.ts:41`,
  `217-220`): `AdmittedAtBestRate` bounds one life of a bucket;
- completed steps that a deadline made a saga's retry overlook stay completed
  (`saga-coordinator.ts:174`; `OrderKept` excepts exactly these behaviours);
- an escrow that a caller holds again after a restart could be paid out again, since nothing
  remembers the payout (`escrow-engine.ts:33`): `NoDoublePayout` is for restarts without
  a new `hold()`, and `EscrowMatchesReturn` for records that were not lost.

Inside the modelled components: the wording of errors, logs and metrics;
`register`/`unregister` of job types; `setPendingFrames` and `reset` of the
drain controller; what is sent to a client; `remove` and `clear` of the offline
buffer, the serialisation of its filter, and the `onConflict` callback; the bytes of a
sensor's report.

## 8. Plan

In this order, most important behaviour first.

1. `AdvisoryLock`: the handle map of one process and its sessions, refining
   `SiloLock`.
2. `SettlementSaga`: `SagaCoordinator` with the steps of the settlement
   definition, over all of `EscrowEngine` (hold, verify, release and their
   reversals), so that effects are escrow records.
3. Proofs: the refinement of 1.
