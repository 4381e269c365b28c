# Verification of the TMCRA memory service and its host plugin

The repository is a memory service (Python, `runtime/memory-api/tmcra_service`) and a host plugin
(TypeScript, `src/`).  The plugin recalls memories before a prompt and writes a finished turn back; the service
turns a written turn into a durable job, runs a pipeline of model calls for it, and keeps a searchable index and
a slow graph of every memory *scope* up to date.  The TLA+ modules here model the part of both that is
about ordering, ownership, failure and time, and leave out what the models say and how texts are rewritten.

Paths below are relative to the repository; `SVC` stands for `runtime/memory-api/tmcra_service`.

Contents: [1 Inventory](#1-inventory) · [2 Structure](#2-structure) · [3 Modules and code](#3-modules-and-code) ·
[4 Runs](#4-runs) · [5 Fairness](#5-fairness) · [6 Proofs](#6-proofs) ·
[7 Findings and observations](#7-findings-and-observations) · [8 Not modelled](#8-not-modelled)

## 1 Inventory

### How the parts interact

```
 host process (plugin)                             memory service
 index.ts hooks ── lifecycle.ts ── HTTP ──────────> app.py ──> JobStore (jobs.py) <── worker loop (runtime.py)
   │        └─ queue.ts: outbox file                              │ SQLite control DB     │  scheduler
   │        └─ memory_controls.mjs: mode file                     │                       │  scope flock
   └─ local-provider-executor.ts <── HTTP ── user_provider_tasks.py <── await_terminal ── writer / pipeline
                                                                  provider_pool.py  <── LeasedDeepSeekClient
                                                   writer_pool.py ── daemons;  gpu_scheduler.py;  recall_pool.py
                                                   adapters/v4.py: native database and index generations
```

Everything durable on the service side is one SQLite database, and per scope a native database with a directory of
immutable index generations.  An operation of a store is one `BEGIN IMMEDIATE` transaction; threads, worker processes
and API requests interleave between transactions, and whatever they have read before is stale when they act on it.
The pools live in memory: their threads interleave wherever they do not hold the lock.  On the plugin side the event
loop interleaves at every `await`, and several host processes share files without a lock.

### Components

| Component | State | Operations | What is hard | What makes it correct |
|---|---|---|---|---|
| Job store (`SVC/jobs.py`, `control_db.py`) | tables `jobs`, `scope_heads`, `operation_stages`, `provider_calls`, scope claims | submit, claim, heartbeat, transition, fail_expired, cancel, resume_failed; the same for stages; provider-call records; scope claims | slow workers whose lease ran out; readers that act on a row read earlier; two-transaction claims; lock wait between reading the clock and writing | exclusive lanes, start order, the last attempt decides, cancelled work stops, a claim is held by an active job and taken with the gate open |
| Service worker and scheduler (`SVC/runtime.py`) | watermarks, claims, plans of the scheduler threads, the scope flock | ingest / reindex / consolidate, plan derived jobs, recover | jobs that wait for claims of jobs that wait behind them; proofs voided by unrelated commits; crash between stages | watermarks ordered and moved by running jobs only, derived work after its ingests, every job ends |
| User-device task broker (`SVC/user_provider_tasks.py`, `user_provider_client.py`) and executor (`src/local-provider-executor.ts`) | table `user_provider_tasks`, a waiter, an executor, requests under way | create, claim_next, start, heartbeat, complete, fail, expire, await_terminal | lost, repeated, late requests; a waiter whose patience ends while an executor starts | at most one model call, every call announced, answers final, the waiter returns |
| Provider key pool (`SVC/provider_pool.py`, `writer.py`) | `provider_keys`, `provider_leases`, `provider_circuits` | acquire, heartbeat, release with an outcome | leases that end during the call, overlapping circuits, crashes, key rotation | cap per key, the circuit covers both windows, no grant while closed, capacity returns |
| Turn outbox (`src/index.ts`, `src/sdk/lifecycle.ts`, `src/sdk/queue.ts`) and memory controls (`scripts/memory_controls.mjs`) | the pending-turns file, a map of writebacks, per-session mode | pre-step, prepare, commit, reconcile, turn end, mode change, veto | awaits between check and use, crash between enqueue and ingest, two processes and one file | no permitted turn lost, no withdrawn turn sent, recall after the writebacks before it |
| Writer pool and daemon (`SVC/writer_pool.py`, `writer_daemon.py`) | a bounded queue and a set of available workers, leases, request gates, receipts, daemons | execute, recover, release, replace, repair, stop; accept, commit, answer | a worker dies between two steps of being made available; a timeout racing the receipt | a request runs once, what a caller hears is recorded for good, capacity returns |
| Content deletion (`SVC/commercial.py`), index generations (`SVC/adapters/v4.py`) | `content_deletions`, native database, generations, pointers, watermarks, job queue of the scope | register, sweep, gate, purge, clean up, rebuild, complete; copy, build, seal, activate, prune, replay; audit at startup | what one crashed or retried attempt leaves to another | deleted content stays deleted, pointers name sealed generations, the ledger is not ahead of the index, the preflight passes, the deletion ends |
| Recall pool (`SVC/recall_pool.py`) | engines, queues and turns of tenants, counters, the repair gate | lease, wait, return, retire, repair, scale, warm up, maintain, close | timeout against assignment; counters written by six kinds of threads | counters, queues and leases agree, waiters are served |
| GPU scheduler (`SVC/gpu_scheduler.py`) | waiters per resource, holders, quiet periods | acquire, release, telemetry | priorities, head-of-line blocking | capacity, progress of the background |
| Pressure gate (`SVC/rate_limit.py`) | leases with expiry, minute buckets | acquire, release | expiry during a request | concurrency limit |
| Projection refresh queue (`SVC/session_graph.py`) | refresh rows with attempt and fingerprint | enqueue, claim, renew, complete, fail, defer, recover | old workers with reset attempt numbers | last fingerprint is projected |
| Webhooks (`SVC/commercial.py`) | events, deliveries | dispatch, finish, disable, reconcile | dispatcher dies while delivering; disable against finish | nothing lost, nothing after disable |
| Device authorisation (`src/device-auth.ts`) | credential file, pending receipt | begin, poll, acknowledge, recover, logout | crash between two files | no unacknowledged credential is kept for ever |
| Supervisor (`SVC/supervisor.py`) | child processes, backoff | start, restart, stop | signals | mostly process control |
| Everything else | pipelines, projections, views, installers, operations scripts | – | – | data transformations and table bookkeeping, see section 8 |

`PROJECT.json` lists each component with its sources and what is left out, and every hazard at its line with the
properties that cover it, or why none does.

## 2 Structure

The durable job table comes first, because every write of the service passes through it; then the two protocols
that cross a process boundary and cost money when they are wrong (device tasks, key leases); the loop that
composes jobs into maintenance of a scope; the plugin's outbox; then the parts that run the jobs' work: writer daemons,
index generations with the deletion that has to undo them, and recall engines.

| Module | Composition and abstract specification | Questions | Proofs |
|---|---|---|---|
| `JobStore` | stand-alone; its attempts appear in `ScopeMaintenance` and `ContentDeletion` | lanes, order, fencing, cancellation, scope claims | `JobStoreProofs` |
| `ProviderTasks` | broker, waiter, executors and network, implementing `OneCall` (the broker's promise for a task) | at most one call under an unreliable network | `ProviderTasksProofs` |
| `ScopeMaintenance` | composes jobs, claims, watermarks and the schedulers of one scope | watermark order, derived work after its ingests, liveness of jobs | `ScopeMaintenanceProofs` |
| `ProviderKeyPool` | the tables and the clients that use them | caps, circuits, recovery of capacity | `ProviderKeyPoolProofs` |
| `TurnOutbox` | composes host processes, the outbox file, controls and the ingest of the service | loss, backfill, order of recall | `TurnOutboxProofs` |
| `WriterPool` | composes calling threads, the monitor, daemons and their receipts | one execution, one verdict, capacity | `WriterPoolProofs` |
| `ContentDeletion` | composes the deletion ledger, the job queue of a scope, the native database, generations, watermarks and recovery | deleted content, pointers, audit, progress | `ContentDeletionProofs` |
| `RecallPool` | composes request threads, scaler, warm-up, janitor | bookkeeping, fair service | `RecallPoolProofs` |

Every module declares its constants with a named assumption that TLC evaluates.  None has a `RECURSIVE` operator; times of the key
pool are countdowns so that they need no bound.  Bounds in guards are constants (`MaxTime`, `MaxVersion`, `MaxClaims`,
`MaxSource`, `MaxCrashes`, `MaxSwitches`, `MaxFaults`, `MaxRequests`, `MaxWarmups`); the theorems hold for every value of them.
`MC<module>` instantiates a module: model values and the functions a `.cfg` file chooses from.  Operators marked
`faulty` next to a definition are the form of it that a plausible bug would give; they are used nowhere in a
specification.

## 3 Modules and code

### JobStore

One action per operation, because every operation is one transaction.  What a caller knows from earlier is state:

| Variable | Code |
|---|---|
| `jobs`, `stages` | rows of `jobs`, `operation_stages`; `outcome` is the version of the attempt that wrote `result_json` or `error` |
| `scopeClaims` | `scope_evolution_state.active_{evolution,index}_job_{id,version}` |
| `tickets`, `handles` | the `JobRecord` a worker got from `claim`, the stage record from `claim_stage`; never forgotten, so an attempt may report arbitrarily late |
| `seenPending` | a canceller that has read `pending` (`app.py:4421`, `commercial.py:360`, `runtime.py:4037`) |
| `proofs` | the snapshot `_claim_scope_job` takes in a read transaction; any commit of another connection removes it (`PRAGMA data_version`) |
| `closed` | quarantine, deletion and their exceptions, in one flag |

`time.time()` is evaluated before the write lock is obtained: an operation acts on any of the `Moments` up to
`LockWait` before the commit.  Idempotent replays change nothing and are stuttering steps.  Which evidence permits the
resumption of an ingest is decided by its caller and left nondeterministic.  The queue limit guards admission only
(`resume_failed` does not look at it), as in the code.

### ProviderTasks and OneCall

`tasks` is the table, `waits` the `await_terminal` of each task, `execs` the executors, `net` the requests under
way.  Each operation begins with `_expire_in_connection` (`Expired`).  Any request in `net` can be handled at any
later moment, lost, or handled with its answer lost (`heard = FALSE`); the client repeats it up to `Attempts`
times.  `await_terminal` looks twice (`Poll`, then `GiveUp` in a second transaction).  A lease token is its
ordinal.  `OneCall` says what a user is promised: a call is announced before it is made, made at most once, answered
once, and `unavailable` is said only of a task that was never announced.  `Promise` maps a row to a `card`.

### ScopeMaintenance

One scope.  `plans` are the scheduler threads (read dueness, submit, prove, take, cancel if refused), `runner` the
thread that holds the scope's flock and walks through the steps of its job, `waiting` the claimed jobs whose
threads wait for it.  All jobs here are of the mutation lane.  Because the flock serialises execution, an attempt
is identified by the state of its row; versions are in `JobStore`.  Simplified: a dirty index is due at once
(256 events or 300 s in the code), whether a consolidation is due is nondeterministic, `release_index_job` at the end
of a consolidation is part of the step that ends the job, and the parts of the gate that look at running stages and
unresolved provider calls are in `JobStore` only.  `FailExpired` and `Resume` are the two transactions of the recovery under the
flock; `Retry` is the route by which a client requeues a failed ingest or rebuild with its old number at any time, without
the flock (`app.py:4431-4604`).  `OtherCommit` is all other traffic on the database.

### ProviderKeyPool

A time stamp is kept as what is left of it, so `Tick` decrements and no bound on time is needed.  `clients` are the
writer clients (`LeasedDeepSeekClient`), with the set of keys each is configured with: `_sync_keys` disables the keys
of all others, and a client can be granted a key whose secret it does not know (`Acquire`, then `out`).
`Release` applies the outcome only while the lease is in force.  `streak` saturates where the backoff exponent does
(the code's `min(..., 7)`; the length of `Backoffs` here).  `billing`, `auth` and `paused` are history: what the
provider's answers so far ask for.  Left out: success and failure counters, ordinals between keys never used.

### TurnOutbox

`turns` are the handlers of a turn; `pc` names the `await` at which it is suspended, so an action is the code between two
awaits.  The queue rewrites the whole file: `Read` and `Write` are two steps, exclusive within a process (`io`,
the promise chain of `mutate`) and not between processes.  `last` is `writebackByProject`.  `controls` is the mode and
its generation, `Capture` what `prepareTurn` noted of it.  `job` is the service's answer to the idempotency
key.  A request may fail with or without having been executed.  `owed`, `withdrawn` and `prior` are history.
Simplified: mutations of one process are applied in any order rather than first come, first served; two policy checks
in a row are the second; the two `list()` calls of a reconciliation are one; a turn key is unique; the lock of the
controls file is a nondeterministic failure.

### WriterPool

What a thread does under `_lock` is one action, the use of the bounded queue another.  `threads` are the callers of
`execute` and the monitor; a thread that replaces or relists a worker goes through the same steps whoever it is (`mode`
says to what it returns).  `proc` are the processes, `daemon` what each is doing and the line it has left in its pipe,
`receipt` the status files, `ran` how often `execute_writer` was entered for a request.  `Send` and `Hear` are
`worker.request`; `TimeOut` may come at any moment of it.  `Recover`, `StopWorker` and `Conclude` are
`_recover_protocol_failure`: poll the receipt, stop the worker, poll again, close the receipt.  `List` and `Put` are the two halves
of `_enqueue_available`, the first under the lock and the second not.  `Replace`, `Drain`, `Refill` and `Install` are the steps of a
replacement: the queue is emptied and refilled one entry at a time (`_discard_available`), and gets and puts of other threads, which take no
lock, come between them.  A put that finds the queue full raises where the code raises: in `Put`, in `Refill`, which then aborts the
replacement with a worker that is listed and on no queue (`lost`, a history), or in the monitor.  A `_WriterProcess` that nothing refers to
is collected and its name used again, and a worker is on the queue at most once.  Not modelled: `start()`, a request
identity that comes again with another contract, `status()`, the polling intervals.

### ContentDeletion

One scope, whose events are named after the ingests that wrote them.  `rows`, `head`, `done` are its jobs and stages; `live` and
`journal` the native database; `gens` the generation directory of each job, as base and as delta (`has` what its copy of the database
held, `covers` what its manifest claims, `over` the base a delta extends, `at` the time retention sorts by); `base` and
`delta` the pointer files; `marks` the ledger; `deletion`, `targets` and `sweep` the row of a deletion and the cancellations that
follow its registration.  `runner` is the attempt that holds the scope lock; each of its steps is one write that a crash can
follow.  `Crash` loses the runner and the sweep, `Start` is the preflight (`Audited`), `Recover` and `Resume` fail an expired attempt and requeue
it with the old sequence number, in two transactions.  `Retry` is the HTTP route, for jobs of every kind.  `Replay` is the resumption of a
generation whose commit exists, `CopyDatabase` that of a snapshot or finished index.  Neither is compared with the native database by the
code, so two histories record what they do: `runner.old` says that the copy being indexed is not what the database holds, and `stale` that since a
base was last built from the database such a copy, or a commit that no longer fits, was activated (`Outdated`).  Merged or simplified: the
writer stage and the accounting of its source event (`Write`); claims on the index, whose refusal is a failure; formats, hashes
and manifests, which are always valid.

### RecallPool

What a thread does while it holds `_condition` is one action, including the dispatch that follows (`Dispatch` grants the idle
engines to the tenants in turn; it is a function on the number of slots handed out, so that it can be reasoned about).  `client` are the request threads, `scaler` the one scale step or repair that may be under way
(`_scaling`), `keeper` the warm-up or idle maintenance, `janitor` the threads of `close()`.  Refused requests change nothing
and are stuttering steps.  Time is not modelled: a deadline may have passed, the demand the pool is scaled to and the cooldowns of
scaling are nondeterministic.  A scale-down takes any idle engine.  A warm-up publishes what
it has warmed in the order of the index (`Listings` has exactly one sequence for a set of slots).  Slot numbers are used again once nothing refers to them.

## 4 Runs

Every run but `deletion_retry` finishes without an error.  Deadlock checking is off where the system may really
stop: when all jobs, tasks, turns or requests of the instance are over, the pool is closed, or a bound is reached.

| Run | Instance | What it shows |
|---|---|---|
| `jobs_lifecycle` | two mutation jobs of one scope, two interchangeable workers, lease 1, lock wait 1, clock to 4, versions to 7 | `LaneExclusion`, `StartOrder`, `OutcomeOfLastAttempt` |
| `jobs_stages` | an ingest and a scope deletion with a stage each, a recall stage, one worker | `TypeOK`, `CancelledRunsNothing`, `StageExclusion` |
| `jobs_claims` | an ingest with a provider call, the consolidation derived from it, both claim kinds, a scope that closes | `ClaimHeldByActiveJob`, `ClaimGranted` |
| `provider_tasks` | one task, two executors, two attempts per request, two leases of the task | `TypeOK`, `AtMostOneCall`, `VerdictStands`, `KeepsPromise` (refinement of `OneCall`), `WaiterReturns` |
| `scope_safe` | two ingests, one scheduler, two crashes or retries, states with at most four jobs of which one has failed or was cancelled | `TypeOK`, `WatermarkOrder`, `DerivedAfterIngests`, `MovedByRunningJob` |
| `scope_ends` | one ingest, one scheduler, one crash or retry, any number of failures | `JobsEnd` |
| `pool_leases` | two clients, one with the old key list, two keys, cap 1, lease 2 | `TypeOK`, `LeaseCap`, `CircuitCovers`, `CapacityReturns` |
| `outbox_turns` | two sessions of one project in one process, two mode changes, one crash, `waitForIngest` | `TypeOK`, `NothingLost`, `NoBackfill`, `RecallAfterWriteback` |
| `writer_pool` | two slots, five worker names, two callers that ask for the same request, one death or failed launch | `TypeOK`, `RunsOnce`, `ToldIsRecorded`, `ReceiptStands`, `CapacityReturns` |
| `content_deletion` | two ingests, a rebuild and a deletion, each of which may be retried, retention 1, one crash or failure, two cancels or retries | `TypeOK`, `DeletedUnlessStale`, `LagIsHonest`, `AuditPasses`, `PointersNameSealed`, `DeletionEnds` |
| `recall_pool` | one engine that may become two, three requests of two tenants, two pending at most, one warm-up, two faults | `TypeOK`, `Bookkeeping`, `Served` |
| `deletion_retry` | two ingests, a rebuild that may be retried, one deletion, retention 2 | the finding of section 7 |

Why the bounds are enough for the cases that matter:

- *Jobs.*  With lease 1 and a clock to 4 an attempt can be claimed, expire, be failed, resumed, claimed by the other worker
  and expire again, while the first worker still holds its ticket; seven versions admit three attempts of a job.
  Contention is pairwise, so two jobs show it; the theorems remove the bound.  Two of the runs take
  one worker: a worker id only matters where two attempts have different owners, which is in `jobs_lifecycle`.
- *Stages and claims.*  Three stages are the three kinds of pairs: two jobs, a job and a recall, and order within an owner.
- *Device tasks.*  Two executors suffice for a race for one task; a request and its repetition may both be in `net` after the
  lease they name has ended; two leases make the first token stale.  Tasks share nothing but the choice of the next one.
- *Scope.*  Two ingests make two source watermarks, hence two keys of each derived job, so that an old consolidation can
  be resumed after a newer rebuild.  Two faults are a crash and a retry: a failed ingest comes back while a derived job that was claimed over
  it is under way.  `FewJobs` bounds the safety run only: every failure and cancellation occurs, but not two of them at once; `scope_ends`
  has no such bound, and the theorems have none.
- *Key pool.*  One client holds an obsolete key list, so leases on keys the other does not know occur.  The pause after
  an authentication failure is longer than the one after a refused payment and equal to a lease, so both orders of overlap occur.
- *Outbox.*  One turn reconciles what the other left behind.  Two switches take a session from write to no-write and back,
  with a new generation.  One crash leaves a record for the other turn.
- *Writer pool.*  With two slots a stale entry and a live worker can share the queue, so that a refill can overflow; with one slot no
  live worker can be lost that way.  The second caller comes while the first recovers or after it, the fifth name is the replacement of a
  replacement while the replaced are still referred to.  One fault and any number of time-outs reach every branch of the recovery; both
  overflows, that which ends the monitor and that of the refill, are among the states.
- *Deletion.*  Two ingests make a delta over a base and leave an event that is not deleted; with retention 1 every generation that is not
  active is pruned.  One crash or failure at each step and the retry of whatever failed by it, a rebuild included, is a
  resumption from each partial state; the second request cancels or retries something else.  Two deletions, and two faults in one attempt,
  are left to the theorems, whose invariant was also checked with two faults.
- *Recall pool.*  Two requests of one tenant and one of the other show turns, two pending the limit.  Two faults are a broken engine
  whose repair fails, or both engines broken.  The safety properties also held in a larger instance with two warm-ups.

## 5 Fairness

Fairness is asked only of what the code does by itself.

- `ProviderTasks`: the clock and the loop of `await_terminal`.  Executors, requests and answers owe nothing, so
  `WaiterReturns` holds with no device at all.
- `ScopeMaintenance`: scheduler, runner, recovery and claims (the worker loop of `runtime.py`), the threads waiting for the flock
  and the 900 s deadline of a claim.  Nobody has to submit, retry, crash, or commit.  `MaxFaults` bounds retries as well as crashes: a client that
  retries a failing ingest for ever keeps its old number in the lane and every later job behind it.
- `ProviderKeyPool`: the clock; a waiting client keeps asking (its loop has a deadline); an HTTP call ends by its timeout and
  is released.
- `TurnOutbox`: a handler that was called runs on, since promises are settled and requests end by their timeouts.  Turns need not end
  and jobs need not finish.
- `WriterPool`: threads run on, also through the steps of a replacement, a request that waits for a daemon ends by its timeout, the monitor makes its rounds, unreferenced
  processes are collected.  No daemon has to answer, nobody has to call or to stop the pool.
- `ContentDeletion`: the service is restarted, its one worker claims, executes and recovers for ever (`Work` is fair as a whole: something it
  can do is done), and the sweep goes on.  Recovery of a job other than an
  ingest is always safe; that of an ingest may be, since only a refusal needs evidence.  Nobody has to submit, cancel or retry.
- `RecallPool`: operations, constructors and close hooks come to an end, and the monitor goes on planning repairs.  The first is said of
  states (a thread is idle or waits for another again and again) rather than of steps: the steps of a thread are a finite chain, so the two
  mean the same, and TLC checks one condition per thread instead of one per action.  Nobody has to warm up, scale, give up or close.

## 6 Proofs

TLAPS proves the following for every value of the constants that satisfies the named assumption of the module.
Each argument is an inductive invariant, one lemma per operation or group of operations, and a last step that combines them.

**`JobStoreProofs`.** `TypeCorrect` is inductive as it stands; besides the types it says that a row has a lease exactly while it is running,
which every operation that ends or requeues one must keep.  `LanesExclusive` needs one fact of the next-state relation
(`RunningByClaim`: a step makes at most one job running, and only by a claim, so that `Blocked` was false of it), and `ContendSymmetric`
for both orders of the pair.  `EndsAreFinal` and `LastAttemptDecides` rest on `RowsChange`: a step makes of a row one
of six things (admitted, started, lease extended, reported, dropped, resumed), whoever acts.  `OutcomeOfLastAttempt` is not inductive: a
cancelled or expired row must be known to carry no outcome before its version moves on (`AllDecided`).  `ClaimantsActive` and
`GrantsAreGated` rest on `ProofsTrue`: every proof that is still good names an active job of its scope, and the gate is open for it *now*;
a step either voids every proof or leaves alone all that the gate looks at (`CommitsVoidProofs`), which is what `PRAGMA data_version`
is for.  `StartsInOrder` (a claim is refused while an earlier conflicting job waits, and numbers are given once), `CancelledStagesStop` (the
cancel ends the stages of its job in its own transaction, and no stage is claimed for a job that is not running) and `StagesExclusive` close the list.

**`ProviderTasksProofs`.** `TaskInv` is `TypeOK /\ Rows /\ Holders /\ Called /\ Reports /\ Verdicts`.  Its core is that the holder of the
last lease of a started task is alone: a start is accepted for the current token only, a started task is never leased again, and
permissions and reports under way carry the token they were given for.  From it follow `TaskTypes`, `AtMostOnce`, `VerdictsHold` and
**`KeepsItsPromise`**, the refinement `Spec => KeepsPromise`: every step of broker, executors, waiters and network maps to a step of
`OneCall` or changes no card.

**`ScopeMaintenanceProofs`.** `MaintInv` joins ten parts.  `Proven`: a proof nobody's commit has voided still holds, so the claim taken with it
is taken over settled ingests.  `DerivedAfterIngests` is an action property, and is proved of one step: nothing but a retry over HTTP makes an
ingest unsettled with a number below that of the derived job under way, for a new one has a higher number (`Numbered`: one head gives every
number once) and the recovery holds the flock that the derived job has.  `Owned` and `HolderOK`: a claim names a job that is
pending or running, and the job with the lock is never pending, so whoever owns the claim it needs is running.  `Aims` and
`Journal`: no plan, key or target exceeds the source watermark, which counts the journalled ingests and so never exceeds `MaxSource`.
Theorems: `ScopeTypes`, `MarksInOrder`, `DerivedOverSettled`, `OnlyRunningMoves`, for any number of scheduler threads, ingests and crashes.

**`ProviderKeyPoolProofs`.** `PoolInv`: the leases are rows of the table (`Rows`), each window is no longer than its pause (`Windows`),
`CircuitCovers` and `LeaseCap`.  `Windows` is needed because a refusal *sets* its window while the circuit takes the maximum: the two agree only
if what is left of a window never exceeds the pause that replaces it.  `LeaseCap` follows because every step but `Acquire` puts no lease
into force (`NoneAdded`), and `Acquire` adds one to a key below its cap.  `TypesHold` needs more than types, because a grant takes a token that is not
in use: by `LeaseCap` the leases in force can be seated injectively in keys times `1..Cap`, each other client holds at most one token, and there
are more tokens than both together (`TokenIsFree`).  Theorems: `KeysWithinCap`, `CircuitIsFaithful`, `ClosedPoolGrantsNothing`, `TypesHold`.

**`TurnOutboxProofs`.** `OutboxInv` is `TypeOK /\ Handlers /\ Holding /\ Listed /\ Barring`: a permission once gone is barred for good (the
generation of the controls has moved on), and only turns that have ended are listed.  It gives `OutboxTypes` and `NeverBackfilled` for any number of
processes.  `OutboxKeepsAll` assumes one process: `KeepsInv` adds that the file a mutation has read is the file it rewrites (`Fresh`), that
what is owed and not yet with the service is in the file or about to be put there (`KeptRecords`), and that only settled records are
to be removed.  With two processes it is false, see section 7.  `RecallsWait` is about a chain: a prompt awaits one writeback,
the last of its project, and that one has awaited the one before it.  The state holds only the last link of each turn, so the invariant `Chain` says that there
*is* an order `B`, for each turn the set of writebacks that were under way when it entered its own, such that a turn past its wait has all of its set done, the last
of a project covers every writeback under way there (`LastCovers`), and a waiting prompt's predecessors are behind the one it awaits
(`PromptWaits`).  A step extends `B` by one turn; nothing is proved by induction over the chain.

**`WriterPoolProofs`.** `WriterInv` says who may touch a receipt: a request at work has one daemon, which has one caller, who has the gate; once
the caller has given up, the daemon is stopped before the receipt is closed; a free name, or one that is loading, has no line in its pipe.
`PoolInv` adds what a replacement needs: a thread that drains or refills the queue, or loads a process, names a slot of its own (`Started`, `Holding`),
so that two replacements do not meet in one name.
Theorems: `PoolTypes` (the queue never exceeds its bound), `RunsAtMostOnce`, `CallersHearReceipts`, `VerdictsStand`, for any number of slots, callers,
requests and deaths.

**`ContentDeletionProofs`.** `DiskInv` gives `DeletionTypes` and `PointersSealed`: retention keeps the active generation,
and a replay activates only what was kept.  The other three theorems follow from `ScopeInv`, for jobs of every kind retried at any time; what such a
retry may break is the history `stale` in the properties, no assumption of the theorems.

The invariant is about one attempt at a time.  A deletion is registered only when those before it are through, so at most one is between its purge and
its rebuilt index (`OneDeletion`, `Progress`), and every other job has passed a gate that a deletion closes (`Busy`): while another job is at work
the scope is `Calm`.  No deleted event is in the database (`Written`), what the runner builds is what the database holds unless it is
old, and no delta lies over a base that is not committed yet (`Copied`).  So an activation that is not outdated serves exactly what is there, and a
deleted event is not served from then on (`Clean`).

`HonestLag` and `PreflightPasses` compare numbers that four stores keep: events in the native database, what a generation covers, what the pointers serve,
and the ledger.  The marks are ordered (`InOrder`).  The ledger counts no event the database lacks, but those a purge has deleted and not yet subtracted,
and an index stage aims at the mark it has read, which is still the source mark (`Balanced`).  What has been activated and not yet recorded serves all
there is (`Settled`), and so the ledger promises no more than is served once it is recorded (`Honest`).  A clean-up that runs again in a calm scope either
breaks `Counted` or finds an empty ledger.

**`RecallPoolProofs`.** `RecallInv` has two halves.  `LanesOK` is about what a dispatch reads and writes (idle slots, queues, turns, counters, requests):
each idle or leased engine is in one place, each waiter in its queue once, each tenant with waiters has one turn, the counters are what they count.
It is proved of a single grant (`GrantKeeps`), then of the whole dispatch by induction on the number of slots handed out (`GrantsExist`, `DispatchKeeps`), then of
the changes that precede a dispatch: joining, leaving, taking, ending, refilling.  `RestOK` is about who else has an engine: what the pool owns is
idle or leased unless a warm-up has all of it (`Owned`, `Kept`); what is being closed, built or retired is outside the pool (`Outside`), and
counted (`Retiring`); the pool with the engine being built is within `max_size` (`Scaled`); and no engine is idle while someone waits (`NoneIdle`).
`Outside` and the size bound on the *union* are what makes it inductive: without them a slot that is published could be one that another thread is about to close.
Theorems: `PoolTyped`, `BookkeepingHolds`, for any number of slots, tenants and requests.

Every invariant of a run is stated by a theorem, and so is every action property and the refinement.  Each inductive invariant was first checked by TLC
on the instance of its run, or on a larger one.  Only model-checked are the liveness properties (`WaiterReturns`, `JobsEnd`, both `CapacityReturns`,
`DeletionEnds`, `Served`), which are outside what the prover handles, as is `ENABLED`.  The library's induction theorems cannot be used; where a proof
needs induction on a number (`Induction` in `RecallPoolProofs`, for the dispatch) a pigeonhole argument on a finite
interval takes their place.
`EndsAreFinal` and `ClosedPoolGrantsNothing` are proved and have no run.

## 7 Findings and observations

One behaviour contradicts a sentence of the repository in a run:

| Run | Sentence | What the code does |
|---|---|---|
| `deletion_retry` | "The caller must activate a fresh immutable base index before making the scope readable again" (`adapters/v4.py:1802`) | `build_index` resumes from an earlier attempt's commit (`adapters/v4.py:7684`), finished index (7754) or snapshot (7777) without comparing it with the native database.  A rebuild that failed after its snapshot and is retried after the deletion activates an index that holds the deleted memories again.  No deletion is needed for the resumption to do harm, see below |

The following was met while modelling.  It is in the modules as the code has it; no run of its own shows it, and where a property
would be false because of it the text says how the property is stated.

Jobs and the scheduler:

- The cancel route reads a job as pending ("only pending jobs can be cancelled safely", `app.py:4422`) and cancels it in another
  transaction without a version (4425).  A job claimed in between is cancelled while its worker executes it; `CancelledRunsNothing` says what still holds.
- A dirty index whose scheduler has cancelled its job (`runtime.py:4037`; "discard the proof and retry later", `control_db.py:2669`) stays
  dirty until another event moves the watermarks, because the cancelled row answers to the idempotency key.
- A failed ingest that a client retries (`app.py:4552-4591`) keeps its number and takes no scope lock, while the gate lets derived jobs run over failed
  ingests: the graph or the index may be under way when an earlier ingest is requeued.  `DerivedAfterIngests` says that nothing else brings this about.
  `JobsEnd` is stated for a bounded number of retries, since every one puts the ingest in front of the lane again.
- An ingest asks for its index claim once (`runtime.py:3754`), so that any commit of another connection in that window fails the job.

Key pool and outbox:

- A success that was under way when a 429 arrived clears the cooldown the 429 asked for (`provider_pool.py:507`, "apply Retry-After to the
  whole pool" in 526).
- Two host processes rewrite the same default file (`queue.ts:115`) and can lose each other's records ("crash-safe local outbox",
  `README.md:33`).  `NothingLost` is checked and proved for one process.

Writer pool:

- `_enqueue_available` adds to the set (`writer_pool.py:448`) before it puts on the queue (450), without the lock.  A stale entry can fill the queue; the
  overflow then raised by `_repair_lost_available_workers` (588) ends the monitor thread, against "Keep retrying at the monitor
  interval" (573-575).  `CapacityReturns` is stated for a monitor that is alive.  The same overflow on the healthy path makes `execute` raise although
  the receipt says succeeded.
- `_discard_available` empties and refills the queue under the lock, but puts and gets (`writer_pool.py:450, 480`) take none.  A thread that has listed its
  worker before may put it on the queue in between; the refill then overflows in 541, after 540 has listed a live worker again.  That worker is on no
  queue, is never put there again because it is listed, and `status()` counts it as available; the exception is swallowed (573) and the replacement does
  not happen until the next round.  No death is needed, because a replacement that is still loading looks dead.  `CapacityReturns` excepts the workers
  so lost (`lost`).
- A replacement that is still loading looks dead to the monitor and is replaced again.
- A daemon whose service has died gets `BrokenPipeError` when it answers, and its handler overwrites the receipt `succeeded` with
  `outcome_unknown` (`writer_daemon.py:333-367`).  Not modelled: it needs a crash of the service under a running daemon.

Deletion and generations:

- A rebuild that a client retries (`app.py:4545`) reads its target anew (`runtime.py:4781-4786`) and resumes what an earlier attempt left
  (`adapters/v4.py:7678-7735, 7777-7805`).  If it failed after its snapshot and an ingest added an event as a delta meanwhile, it seals the old
  database as if it covered that event, and the delta, whose base is gone, no longer applies: the lag of the ledger is zero and an event is not served.
  If it failed after its commit, the old commit is activated and the ledger advanced beyond it, and the preflight refuses the scope with "ledger watermark
  is ahead of active artifacts" (8314).  Both without a deletion, and with a ledger that counts every event.  `DeletedUnlessStale`, `LagIsHonest` and `AuditPasses` therefore except
  the time from such an activation to the next base that is built from the database (`stale`), and hold whatever is retried.
- A deletion resumed after its ledger step subtracts the purged events again (`commercial.py:735`) and clamps the marks to the result, so that the
  preflight may fail with "active index watermark exceeds committed Source".  `AuditPasses` is stated for scopes whose ledger still counts their events (`Counted`).
- The same double subtraction can let the ledger of an open scope claim more than recall is served, the state the preflight exists for ("recall cannot
  satisfy the advertised watermark", `adapters/v4.py:8268`).
  With four faults: the deletion crashes after its row is completed, its resumption fails at the gate, the service crashes before that is reported, the
  index stage of the next ingest fails, and the deletion is retried; its clean-up subtracts once more, and an event that is in no index is no longer missing from the
  ledger.  `LagIsHonest` therefore has the same proviso `Counted`, and with both is proved for any number of faults.
- A job that was running when the deletion was registered and crashes is requeued *ahead* of the deletion, which waits for it, while the closed gate
  keeps it from being claimed (`commercial.py:330`).  `DeletionEnds` excludes this case (`Overtaken`).
- Cancelling a pending deletion job leaves the deletion `requested` for ever; a retry while it is `purging` is refused with 409.

Recall pool:

- `_scale_up` looks at `_closed`, lets the lock go and publishes the engine; a `close()` in between leaves a live engine in a closed pool, against the
  docstring of `close` (`recall_pool.py:1316-1322`).  `close()` during idle maintenance retires nothing, and nobody does so later.  `Bookkeeping` says
  what holds until the pool is closed.
- With two fatal engines the close of the first opens the gate while the second is still closing (1046-1047).
- After a warm-up that failed in part the pool may be ready with fewer engines than its minimum, and a fatal engine is never replaced while the number of
  slots has reached the target (`Crippled`, which `Served` excludes).

Refresh queue, read and not modelled: `cancel_dirty_refresh` decides on a row that a manual refresh may have replaced (`session_graph.py:3818`), and the
checkpoint writes of a projection (5528, 5798) carry no fence, so that one under way during a content deletion can put rows back.

## 8 Not modelled

Of the modelled components:

- *Job store*: `claim_next`, `claim_next_ready`, `claim_ready_stage` (the worker uses `claim`), the per-tenant limit, the recovery from
  quarantine, the exception of the gate for deletions, billing and usage tables.
- *Scope maintenance*: automatic recovery from quarantine, cancels over HTTP (in `JobStore`); the thresholds of the scheduler are nondeterministic.
- *Device tasks*: heartbeats that arrive after the executor has moved on, the ledger row and the validation of usage after a call, the
  window of a hundred queued tasks.
- *Outbox*: `SqlitePendingTurnQueue`, `MemoryPendingTurnQueue`, the read-only use in `cli.ts`, subagent parents, records from before the capture
  of controls existed, errors of reading and writing the file.
- *Writer pool*: `start()`, a crash of the service, contracts of requests.
- *Deletion*: claims on the index, formats and hashes, exports and the deletion of a whole scope.
- *Recall pool*: statistics and time.  `deque.remove` compares waiters by value (`recall_pool.py:908`), the model by identity: they differ
  only for two requests of one tenant with equal clock readings.

Components without a module:

- *GPU scheduler*, *pressure gate*: what they decide depends on measured utilisation, quiet periods and minute buckets; an untimed model
  would leave every interesting decision open, a timed one would be arithmetic on a clock.
- *Projection refresh queue*, *webhooks*: one table and one thread each; the hazards are noted above and in `PROJECT.json`.
- *Device authorisation*, *supervisor*: the other party is a remote account service, respectively the operating system.
- *Write admission and readiness*: a pure decision on one snapshot of I/O probes.
- *HTTP API*, *authentication and control plane*, whole-scope deletion and exports: validation and single-transaction bookkeeping around
  the stores; no step waits for another.
- *Online engine*, *memory pipeline*, *projections*, *attribution adapters*: transformations of texts, graphs and vectors.  The models see
  them as the outcome of a stage: finished, failed, or never heard of again.
- *Installers*, *operations scripts*, *vendored core*: front ends, one-off repairs and image or text algorithms.

Most lines of the repository belong to this second group, which is why the modelled share of the code is small although it holds nearly all
of its protocols.  Abstracted throughout: texts and payloads (identities only), digests, money, logging, metrics, and the wording of errors.
