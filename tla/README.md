# A TLA+ model of steda

steda is a durable task queue: a Rust library whose state lives in PostgreSQL.
Clients submit tasks, workers claim them under finite leases, and SQL functions
make every durable transition. This directory models that system, checks the
model with TLC on small instances and proves most of its safety properties with
TLAPS for every instance. Source paths below are relative to the repository.

## 1. Inventory

| Component | Source | State | Operations | What is hard |
|---|---|---|---|---|
| Queue storage and task lifecycle | `sql/migrations/0001`, `0003` to `0008` | per queue: task rows, run rows (one per attempt), checkpoint rows | spawn, claim (with deadline cancellation and lease reaping), supervise, complete, schedule, fail, cancel, retry, checkpoint, cleanup | any process that knows a run id may call at any time; leases, deadlines and wake times expire between calls |
| Row locks | `sql/migrations/0004` to `0008` | locks of task and run rows | run-then-task order, `SKIP LOCKED`, cascade of a deletion | what a statement read before it waited is stale; lock-order deadlocks |
| Claim maintenance | `sql/migrations/0006` | the order of wake times, leases and ids | bounded cancellation, reaping and claiming | a bounded pass must not starve a row |
| Worker loop | `src/worker.rs` | join set of attempts, shutdown, terminal error | poll, spawn attempts, drain | lost replies, crash, shutdown during a claim, errors that end the loop |
| Attempt executor | `src/executor.rs`, `src/db.rs`, `src/error.rs` | where the attempt stands | first supervision, handler beside supervision, complete, fail, observe | each await is a gap in which the run can change hands |
| Supervision cadence | `src/executor.rs`, `sql/migrations/0006` | timer, lease | sleep, observe, renew | interval and renewal window are both half of the lease |
| Task context | `src/context.rs`, `src/workflow.rs` | checkpoint cache, per-name locks | step, keyed step, sleep | concurrent futures in one handler, replay, a context that outlives its claim |
| Waiting for tasks, results | `src/context.rs`, `src/db.rs`, `sql/migrations/0003` | backoff, timeout | poll for a result, checkpoint it | full pools that wait for each other |
| Execution middleware | `src/execution.rs` | a service behind a mutex, its permits | lock, become ready, call | a lock held across a handler |
| Submission | `sql/migrations/0003`, `src/queue.rs` | unique idempotency key | insert, or read and compare | two statements of one READ COMMITTED transaction see different rows |
| Typed API | `src/task.rs`, `src/queue.rs`, `src/types.rs`, `src/steda.rs` | references, caller-owned transactions | spawn, attach, snapshot, cancel, retry, await | check and act are two queries |
| Submission options | `src/task.rs`, `src/queue.rs`, `sql/migrations/0003` | none | collect, normalise, validate twice | rounding, integer widths |
| Worker builder | `src/worker.rs` | options, deferred error | set options, register, build | a valid call after an invalid one |
| Retry delay | `sql/migrations/0003` (`retry_delay_seconds`) | none | pure function | saturation and underflow of floating point |
| Queue registry | `sql/migrations/0000`, `0002`, `0008`, `src/queue.rs` | `steda.queues`, the queue's tables, advisory locks | create, drop, policy, cleanup of one queue and of all | metadata and tables must change together; several locks at once |
| Metrics | `src/metrics.rs` | saturating counters, a guard per attempt | count claims and outcomes | every attempt counted once, by every way out of it |
| Merged schema | `sql/steda.sql` | | | generated from the migrations |

The parts meet in the database. Workers and clients never talk to each other: a
worker learns that it was cancelled, replaced or reaped only from the answer to
its next call. Within one attempt the handler and `supervise_execution()` race in
a `select!`; whichever ends first decides how the attempt goes on.

What makes the parts correct is stated as the properties of section 3. The
code's hazards are listed at their lines under `hazards` in `PROJECT.json`, with
the properties that cover them.

## 2. Modules

| Module | Models | Builds on |
|---|---|---|
| `StedaQueue` | the rows of one queue; one action per SQL function | |
| `StedaQueueProofs` | proofs about `StedaQueue` and its refinement of `StedaTask` | `StedaRefinement` |
| `StedaTask` | abstract specification: what a client sees of a task | |
| `StedaRefinement` | the mapping from rows to `StedaTask` | both |
| `StedaLocks` | the functions of one task, statement by statement, with row locks | |
| `StedaLocksProofs` | proofs about `StedaLocks` | `StedaLocks` |
| `StedaPolling` | claim maintenance over an endless stream of tasks | |
| `StedaWorker` | workers and attempts | `StedaQueue` |
| `StedaMetrics` | the counters beside the workers | `StedaWorker` |
| `StedaWorkerProofs` | proofs about `StedaWorker` and `StedaMetrics` | `StedaMetrics`, `StedaQueueProofs` |
| `StedaContext` | steps and sleeps of concurrent futures | `StedaQueue` |
| `StedaContextProofs` | proofs about `StedaContext` | `StedaContext`, `StedaQueueProofs` |
| `StedaClient` | typed handles, their checks and control operations | `StedaQueue` |
| `StedaClientProofs` | proofs about `StedaClient` | `StedaClient`, `StedaQueueProofs` |
| `StedaAwait` | tasks that wait for tasks, worker pools, the shared service | `StedaTask` |
| `StedaAwaitProofs` | proofs about `StedaAwait` | `StedaAwait` |
| `StedaSubmission` | `spawn_task()` with a key, statement by statement | |
| `StedaRegistry` | queues, policies and cleanup under advisory locks | |
| `StedaTransactionProofs` | proofs about both | `StedaSubmission`, `StedaRegistry` |
| `StedaIdentity` | the stored names of steps, sleeps and waits | |
| `StedaOptions` | spawn options through the Rust and the SQL checks | |
| `StedaRetryDelay` | `retry_delay_seconds()` in a bounded floating-point range | |
| `StedaBuilder` | `WorkerBuilder` | |
| `StedaCadence` | supervision timer against the lease | |
| `StedaSettingsProofs` | proofs about the five small modules above | the five |
| `MCSteda*` | requests, tables and symmetry for TLC; `MCStedaSettings` is the sum of the five small modules that share no state | |

### StedaQueue

`tasks[t]` is a task row with its runs (`runs[a]`, by attempt number, which is
unique per task) and checkpoints; `last` stands for `last_attempt_run`. `now` is
`steda.current_time()`, in the units of leases and deadlines. `-1` is NULL.
`req.delay` tabulates `retry_delay_seconds()`. `ended_at` is `completed_at` or
`failed_at`. Columns that no transition reads (`params`, `headers`, `result`,
`started_at`, `created_at`) are left out; of `failure_reason` only the
`$LeaseExpired` mark is kept, because `supervise_run()` reads it.

| Action | SQL function |
|---|---|
| `SpawnTask` | `spawn_task` that creates a task |
| `ClaimTasks` | `claim_tasks` with `cancel_expired_tasks` and `reap_expired_runs` |
| `SuperviseRun` | `supervise_run`, with or without renewal, `reap_expired_run` |
| `CompleteRun`, `ScheduleRun`, `FailRun` | `complete_run`, `schedule_run`, `fail_run` |
| `CancelTask`, `RetryTask` | `cancel_task`, `retry_task` |
| `SetCheckpoint` | `set_task_checkpoint_state` |
| `CleanupTasks` | `cleanup_tasks` |
| `Tick` | the clock |

Each function is one step; that this is sound is what `StedaLocks` shows.
`cancel_task` and `retry_task` read the clock before they wait for the lock;
`ReadBefore` gives them a reading up to `MaxLockWait` old. `claim_tasks` reads
the clock again between maintenance and claim; that is a claim that only
maintains followed by one that only claims, which the actions contain because
every pass takes *any* batch within its limit (rows that are locked are skipped).
The callers are arbitrary: every action takes any task and attempt, so stale and
replaced owners are always present. A call that raises changes nothing and is a
stuttering step.

### StedaTask and StedaRefinement

`StedaTask` keeps per task a phase, the attempt and the budget. A task is
submitted, waits or executes, ends once, reopens only from "failed", and is
forgotten only after an outcome. `Lifecycle` instantiates it with the rows;
`ImplementsTaskLifecycle` is its specification as a property of the rows.
`StedaAwait` then uses `StedaTask` in place of the rows.

### StedaLocks

`db` is what is committed of one task and its runs, `lock` who holds each row,
`call` the statement each session is at. A statement is a step: `FOR UPDATE`
waits, then reads the row again; `SKIP LOCKED` passes over; the cascade of a
deletion locks the runs after the task; a cycle of waits is aborted by
PostgreSQL. `CallAttempt` stands for the fenced functions, `CallMaintenance` for
claim, reaping and deadline cancellation, `CallCancel`, `CallRetry` and
`CallCleanup` for the functions of these names. Time, workers and checkpoints
are left out: a guard on them is a choice.

### StedaPolling

Only the order of times matters to bounded maintenance, so rows are sequences in
the order of `available_at`, `claim_expires_at` and id, with how much of each has
passed. That keeps the state finite over endless behaviours, in which tasks are
submitted again and again, fail, sleep and have their rows locked by others.

### StedaWorker and StedaMetrics

Slots hold an attempt and its stage in `execute_task()` (`Stages`). A step is one
database call with what the code does up to the next await. `Poll` is a claim
whose rows arrive (query and answer are one step, because the loop looks at the
shutdown future only between claims), `PollLost` one whose reply is lost after the commit,
`ConnectionLost` a transient error of an attempt, `Crash` the end of the process.
`Die` is an error that is neither a control error nor transient: it reaches
`terminal_join_error()` and the loop drains. `ErrorsPropagate` says whether
handlers hand the errors of `TaskContext` on unchanged (as with `?`); otherwise
they may go on and return anything. A handler may return a control error that
stands for no transition in either case; `tests/tasks.rs` does that too. A claim
error that is not transient ends the loop; it takes a dropped queue and is left out.

`StedaMetrics` runs the same steps and counts: what a poll brought, and the
outcome of each attempt. The `TaskExecution` guard is explicit: `Start`, `Finished`
(which records and marks it) and `Dropped` (which records "unhandled" unless it is
marked). That `finish()` consumes the guard, so that no return of `execute_task()` can
call it twice, is Rust's ownership and not modelled.

### StedaContext

A worker's slot holds a context with its cache and locks, and the futures that
use it. A future takes the lock of its name, looks into the cache, runs the body
of a step or takes a wake time, persists it with `set_task_checkpoint_state()`
and, for a sleep, calls `schedule_run()`. Replies are lost after the commit
(`PersistUnseen`), futures are dropped between any two steps, and a context
remains in use after its run was reaped and claimed by another worker. `Reread`
is the JSON round trip, which need not be the identity on a step's output.

### StedaAwait

Attempts of all tasks pass through the shared service: take its lock, wait for a
permit of its layers, release the lock, run the handler. A handler may wait for
its `Target`: a wait within the queue is refused, another one polls with doubling
delays until the task ended or the time is up, and checkpoints what it read.
Tasks are cancelled, retried and deleted while others wait for them; supervision
and the reaper end what a crash left behind; the reaper needs a free slot of the
queue, since maintenance runs inside a claim.

### StedaClient

A client holds a `TaskRef`. `EnsureTaskRef` and the control call are two steps.
`Submit`, `Commit` and `Rollback` are a submission in a transaction of the
caller. `told` keeps the outcomes clients were told ("failed" since the last accepted
retry), `stopped` that a cancellation was acknowledged. The other actions are those of `StedaQueue` that
workers and retention take.

### StedaSubmission

The INSERT that meets a key, the SELECT that reads the row, and the commit are
separate steps, because at READ COMMITTED each statement has its own snapshot. An
open insert of the key blocks other inserts of it, and is invisible to other
sessions' reads. `initial` is the request as submitted and normalised,
`max_attempts` the effective budget that manual retries grow. Retention deletes
tasks at any time.

### StedaRegistry

A transaction is a record whose `pc` names its next statement: take the advisory
lock, read the row, use the tables, choose the policy, commit. `LockOf` is
`hashtext()` of the name. `cleanup_all_queues()` keeps the locks it has taken while
it visits the queues in name order; `found`, `left` and `deleted` are what it has
read, has to do and has deleted. `wanted` records what acknowledged calls asked
for. A connection may be lost before any commit.

### The small modules

`StedaIdentity` builds the stored names from characters, because its property is
about the encoding: separators, decimal lengths of one to four digits and the byte
limit. `StedaOptions` takes a `Duration` as half seconds, so that rounding up is
visible, and scales the integer widths down. A key is the set of its kinds of
characters and its length in bytes; each layer judges it by its own rule: `Trimmed`
is Rust's, `SqlSpaces` is what `[[:space:]]` matches in the collation at hand, and
`Decodable` is what `jsonb` can hold. `StedaRetryDelay` represents seconds by
their exponents of two; the range of a double is scaled down, its two limits
stay apart. `StedaBuilder` keeps the builder's fields and its first error.
`StedaCadence` counts ticks finer than a second; `left` is what remains of the
lease, so behaviours are endless and states finite. It starts at the claim: the first
`supervise_run()`, the load of the checkpoints by `TaskContext::new()`, which neither
renews the lease nor looks at a deadline, and then the sleeps between observations.

## 3. Runs

The type invariants other than `TypeOK` are checked as the first conjunct of one
of the invariants below.

| Run | Properties | Shows |
|---|---|---|
| `lifecycle` | `TypeOK`, `AuthoritativeRun`, `AttemptHistory`, `LeaseIffRunning`, `DeadlineWins`, `TerminalIsFinal`, `LeaseFencing`, `CheckpointsImmutable`, `ImplementsTaskLifecycle` | the rows stay consistent under arbitrary callers and implement the abstract lifecycle |
| `locks` | `CyclesNeedCancelOrCleanup`, `CommitsAreAtomic` | the functions behave as single steps, and which of them can deadlock |
| `polling` | `OrphansReaped`, `RunnableClaimed`, `DeadlinesEnforced` | bounded maintenance starves no orphan, no due task and no deadline |
| `fencing` | `OwnerUndisturbed`, `NoFatalError` | no worker disturbs another one's attempt and no attempt ends a worker, when no handler suspends and retention keeps the tasks |
| `sleep` | `OneLiveExecution`, `DrainReleasesLeases`, `EveryClaimCounted`, `OutcomesAreDurable` | with suspended and reclaimed runs: one execution at a time, no lease left by a graceful stop, each attempt counted once and as what the rows say |
| `stale_suspend` | `OwnerUndisturbed` | a violation, section 6 |
| `context` | `StepsAgree`, `CacheCoherent`, `BodiesSerialized`, `SleepKeepsItsTime` | concurrent futures and replays agree with what was committed |
| `await` | `WaitsAgree`, `EveryTaskEnds` | waits return what the task ended with, and a cycle of waits over full pools resolves |
| `client` | `OutcomesAgree`, `CancelIsDurable`, `OnlyOwnTasksControlled` | an outcome that was told stays the outcome, cancellation sticks, handles touch their own tasks only |
| `submission` | `ConflictIsReal`, `OneCreator` | one key is one request with one creator |
| `registry` | `MetadataMeetsStorage`, `NoLostPolicy`, `EveryCallEnds` | metadata and tables come and go together, policy updates survive each other, no call waits for ever |
| `settings` | `NamesAreInjective`, `LayersAgree`, `DelaySaturates`, `BuiltWorkersRun`, `LeaseKept`, `ObservedEverySecond` | names stay apart, both layers draw the same line through the options, delays saturate, built workers run, supervision keeps the lease |

What the less obvious ones say:

- `DeadlineWins`: no task starts after its maximal delay, ends completed or
  failed past its maximal duration, or waits for a time beyond it.
- `LeaseFencing`: what a step may never do to a run past, or within, its lease.
- `CommitsAreAtomic`: every commit is the whole transition of one function,
  applied to the rows as they are at the commit and not as they were read.
- `OwnerUndisturbed`: until an attempt's handler ended, its run is still running,
  or was cancelled, or its lease ran out; nobody else ended or suspended it.
- `StepsAgree`: every value a handler was given for a step is the committed one or
  its JSON round trip, by whatever attempt, worker or future.
- `CacheCoherent`: what a cache holds is what is committed, also in the context of
  a worker that lost its claim.
- `SleepKeepsItsTime`: a sleep ends at the time its first call committed, however
  often the handler ran with other times since, and a suspended run waits for such
  a time or, as a retry, for its backoff.
- `EveryTaskEnds`: neither slots, permits nor the mutex of the service are held
  for ever by tasks that wait for each other.
- `OutcomesAgree`: an outcome a client was told is the task's until the task is
  deleted; "failed" until a retry was accepted.
- `NoFatalError`: whatever an attempt is answered, the loop goes on. Two hypotheses:
  no handler suspends and no task reaches its retention time. Section 6 has the two
  ways in which a worker does die without them.
- `WaitsAgree`: waits of all attempts return what the child completed with, and no poll
  is put off beyond the timeout of its wait.
- `LayersAgree`: what Rust accepts SQL never refuses, and what Rust refuses could
  not have been stored, but for a NUL and for keys that are blank for one layer only;
  the stored deadlines are the ones asked for, to the second and never earlier.
- `DelaySaturates`: the delay is the mathematical one up to `max_seconds`; where a factor
  below one underflows it is `max_seconds` (section 6).
- `LeaseKept`: a live worker keeps its lease if messages are fast (`InTime`): for leases of
  up to two seconds six messages take less than half of the lease (one message less
  than a twelfth of the lease); for longer ones four do, and a second and two messages
  fit in it. `ObservedEverySecond`: two observations are at most a second and two messages
  apart, the first two a second and four.

Bounds.

- `lifecycle`. Every transition concerns one task, so there is one; two workers,
  two task names, three attempts (an automatic retry, the end of the budget, a
  manual retry beyond it), two checkpoint values, a lease of 2 and time up to 5:
  a lease is granted, renewed in its second half, expires and is granted again
  before the clock ends. The three requests have no retry, immediate retries, and
  growing backoff with both deadlines, which end inside a lease, a backoff and a
  sleep. The proofs cover any number of tasks and with them the batches of
  `claim_tasks`.
- `locks`. Three sessions and three attempts: a cancellation, the retry that
  inserts the run it has not seen, and the claim that locks it.
- `polling`. Three tasks, one of a name nobody registered, and a claim of one row:
  each pass has more to do than it may.
- `fencing`, `sleep`, `stale_suspend`. Two workers with one slot each are an owner
  and a stale owner; a lease of 2 expires within the time bound of 3 (`sleep`: 2,
  with wake times up to 2 and counters that saturate at 2). The ttl is longer than
  the clock, so cleanup does not race an attempt (section 6).
- `context`. Two workers, two futures each, one step and one sleep of which one is
  in use at a time (`MaxNames`; different names share nothing but the fence), two
  attempts, wake times up to 2. One request retries at once and one after a
  backoff, so that a sleeping run may be either a sleep or a retry. Value 2 comes
  back as 1 from its round trip.
- `await`. Three tasks in a cycle over two queues with one slot each. One wait is
  within a queue, one has a timeout, one has none; two permits for three calls,
  two attempts, delays 1, 2, 4. Deadlock is not checked: all tasks may be over.
- `client`. Two clients and one task of two possible names, one worker, two attempts, a
  ttl of 1 within time 2, lock waits of 1.
- `submission`. Two clients, one key, two parameters, all forms of headers and
  budgets, two task ids.
- `registry`. Two sessions, two queues, a valid and an invalid limit beside the
  default; a call that sets nothing writes back what it read, which is what an
  update of the other field does to this one. Up to two expired tasks each, so a
  limit of 1 leaves one.
- `settings`. Names and keys of up to 2 characters over letter, digit, separator and
  blank and of 11 and 12 letters, stored names up to 20: lengths of one and of two
  digits, on both sides of the limit. Idempotency keys of each kind of character
  (letter, NUL, and spaces that both, one or none of the layers know) and of 1024 and
  1025 bytes. Widths of 2 to 4 with durations on both sides of each, whole and not;
  exponents up to 10 and down to -12 with 16 attempts, enough to overflow and
  underflow; leases of one to four seconds in sixteenths of a second and latencies of up
  to a quarter of a second, on both sides of `InTime`. Deadlock is not checked: a built worker
  and a refused option are ends.

Symmetry permutes the workers, in runs without liveness properties.

## 4. Fairness

- `StedaPolling` assumes that a worker with a free slot goes on polling (the loop
  polls at every interval and whenever an attempt ends, `src/worker.rs`), and that
  no row is locked by somebody else at every poll: transactions are short. Nothing
  is assumed about the arrival, progress or failure of other work.
- `StedaAwait` assumes weak fairness of submission, of claiming, of reaping,
  of the lock and the call of the service (tokio's mutex is fair), of supervision
  and of the handler's own steps. Nobody has to cancel, retry or delete anything,
  and no process has to survive.
- `StedaRegistry` assumes strong fairness of taking an advisory lock, because
  PostgreSQL queues waiters and grants locks in the order of the requests, and
  weak fairness of the statements of a session. Nobody has to call.

All other properties are safety properties and assume no fairness.

## 5. Proofs

**StedaQueueProofs**, for every set of tasks, workers, names, steps, values and
requests and every lease, ttl and bound that satisfies the assumptions of
`StedaQueue`. The assumptions are those of the schema: positive lease, budget
between one and the bound, non-negative delays and deadlines, and distinct null
values.

- The shape of the rows: `TypeCorrect`, `AuthoritativeRunHolds`,
  `AttemptHistoryHolds`, `LeaseIffRunningHolds` (`Spec => []P` each). None of the
  last three is inductive: that a retry may write to attempt `a + 1` needs that no
  later run exists; that needs the attempt numbering, which needs that the fenced
  run is the authoritative one, which needs that a running run has a lease.
  `RowShape` is the conjunction of the three for one row, together with what the
  record of a missing task looks like; `ShapeInv` adds `TypeOK` and is inductive.
  There is one lemma per row operator (`Cancelled`, `Completed`, `Scheduled`,
  `Failed`, `Retried`, `Claimed`, `Supervised`, ...); the passes of `ClaimTasks`
  compose them pointwise, and the step lemma has one case per action.
- What a step may do to one task: `RowNext(r, c, at)` relates its rows before and
  after; `RowSteps` shows that every action, with its batches and its stale
  callers, is such a step for every task. Its disjuncts are a claim pass
  (`ClaimRow`, which may cancel, reap, claim, or reap and claim the retry), a
  submission, a retry, a call of the owner under a live lease, a failure and a
  deletion. The `...Fields` lemmas say what each row operator leaves in each field.
- From `RowNext` follow `DeadlineWinsHolds` (`RowDeadline` is inductive beside
  `ShapeInv`), `TerminalIsFinalHolds`, `LeaseFencingHolds` and
  `CheckpointsImmutableHolds`. The last two need that a missing task has no
  checkpoints and that only a failed run has a failure reason: `RowBare`, with
  `ShapeInv` in `BareInv`.
- `RefinesTaskLifecycle`: the rows implement `StedaTask` under the mapping of
  `StedaRefinement`; every row step is a step of the abstract lifecycle or a
  stutter; a claim that reaps a run and takes its retry is one `NextAttempt`.

**StedaLocksProofs**, for any number of sessions and attempts: `LocksTypeCorrect`,
`RowsAgreeHolds` (the committed task and its runs agree, one active run at most),
`CommitsAreAtomicHolds` and `CyclesNeedCancelOrCleanupHolds`. The invariant
`LocksInv` says of every call under way which rows it holds, and that what it
relies on is true of the rows now: whoever holds the task and its active run has
read them and nobody else can have changed them since. A commit is then the transition of the
current rows. For the cycle: whoever holds a run has gone on to the task, and
whoever holds the task has gone on to updating or deleting runs. A member of a
cycle that waits for a run therefore waits for one that waits for the task, and
that one for one that waits for a run with the task locked, which only
`cancel_task()` and `cleanup_tasks()` do.

**StedaSettingsProofs** has one part for each of the five small modules.

- Cadence, for every lease and every latency: `LeaseKeptHolds` (under `InTime`, section 3)
  and `ObservedEverySecondHolds`. The invariant adds to the types, for every stage from
  the claim over the load of the checkpoints to the sleeps, how much of the lease the
  messages so far can have used up, with the timer of what is under way.
- Builder, for every width of the integers that can hold the default lease:
  `BuiltWorkersRunHolds`. `BuilderGood` is what makes it inductive: whatever the
  builder collected so far could run, and after an invalid call it holds an error.
- Retry delay, for every attempt and every floating-point range wider than the
  delays: `DelaySaturatesHolds`. The power may overflow or underflow; the cases are
  the sign of the factor and what the product saturates to. The theorem states the
  delay of the code in the underflow case too, which is not the mathematical one.
- Options, for any widths `i32 < i64`, `i32 < u32`, `i64 < u64`, any set of keys and any
  collation: `LayersAgreeHolds`. The core is `LayersDrawOneLine`: field by field, what
  `normalize_spawn_options()` accepts and what `spawn_task()` can store are the same,
  except for a NUL and a disputed key; the invariant ties what was sent and stored to the
  configuration it was made from.
- Identity, for any limit of the stored name and any texts of up to 9999 letters:
  `NamesAreInjectiveHolds`. A stored name is taken apart from the left: the namespaces
  differ in their first element; the length of a keyed step consists of digits, so the
  separator after it is the first one and two equal names have equal lengths
  (`DelimiterEndsLength`, `DecimalInjective`); that many letters follow, and what is left is the key. It
  speaks of handlers of any number of operations. The limit of the code, 1024 bytes,
  leaves no longer lengths.

**StedaClientProofs**, for any number of clients, tasks and workers:
`OutcomesAgreeHolds`, `CancelIsDurableHolds` and `OnlyOwnTasksControlledHolds`.
`ClientInv` adds to `ShapeInv` and the types what outlives the statement that made
it: an open submission holds its id alone (`Reserved`), a reference that was checked
still names its task or the task is gone (`Checked`), and a told outcome is the task's,
or the task is gone (`ToldOutcomes`). Only an accepted retry moves a task that has ended
(`CallSettled`, `ExecutionSettled`).

**StedaContextProofs**, for any number of workers, futures and names and any JSON
round trip: `StepsAgreeHolds`, `CacheCoherentHolds`, `BodiesSerializedHolds` and
`SleepKeepsItsTimeHolds`. `ContextInv` is `BareInv`, the types, and for every
context, future and value handed out how it relates to the rows: a cached value is
committed, a future past its wait holds the lock of its name, a future about to
suspend has the committed time, and a sleeping run waits for a committed time or
its backoff. It rests on `CheckpointsKept`, the row form of `CheckpointsImmutable`:
only because the first value stays is a context right that nobody updates any more.

**StedaTransactionProofs**, for any number of clients, keys and ids of `StedaSubmission`:
`ConflictIsRealHolds` and `OneCreatorHolds`. `SubmissionInv` ties answers to rows by
the id: an open insert owns the uncommitted row of its key, an id belongs to one key,
and a row that was answered is committed and carries the request of every caller it
was answered to.

For any number of sessions and queues of `StedaRegistry` and every hash of queue
names to locks, colliding or not: `MetadataMeetsStorageHolds` and
`NoLostPolicyHolds`. `RegistryInv` says what the holder of an advisory lock may rely
on: it holds the lock of the queue it is at and of every queue it has deleted from,
what it read is still in the row, and what it means to delete is still there.

**StedaAwaitProofs**, for any tasks, queues, slots, permits, timeouts and waits:
`WaitsAgreeHolds` and `AwaitKeepsLifecycle` (`AwaitSpec => Spec`, the specification of
`StedaTask`). `WaitsAgree` alone is not inductive: a checkpoint written after a poll
could differ from the result if the child could change between the two. `AwaitInv`
says that whatever was read of a child, in flight or kept, is what it was completed
with, and that a child once read is completed or removed for good (`ReadOf`), and that a
poll lies within its timeout (`PollsInTime`); for the second a completed task has a result and a submitted one an attempt (`AttemptsCounted`). That the
composed system keeps to `StedaTask` closes the argument of `RefinesTaskLifecycle`:
the rows implement the lifecycle, and the waits only ever move it as the lifecycle allows.

**StedaWorkerProofs**, for any number of workers, slots and tasks. The additional
assumption on the constants is that a worker has between one and `BatchLimit`
slots, the quantities `claim_tasks()` takes. `Silent` and `Calm` say what
a step may do to a run it is not a call about: a run that has begun stays as it is,
is cancelled, is reaped after its lease, or goes with its task. Every call is silent
about every run but the one it names; a claim is calm about all runs and begins only
runs that had not begun. `Moves` then sums up, for every step of `execute_task()`,
where its slot goes and what it did to its run.

- `DrainReleasesLeasesHolds`, without further hypotheses. `DrainInv`: a worker without a
  crash, lost connection or fatal error executes every run it holds a live lease on
  (`Covered`), and one that stopped executes nothing (`Quiesced`).
- `OneLiveExecutionHolds`, if handlers pass the errors of their context on
  (`ErrorsPropagate`). Slots that own a run hold different runs, all of which have
  begun (`Distinct`, `SlotsKnown`), so a claim cannot bring a run that is being
  executed: the handler that suspends a run stops owning it in that same step.
- `OwnerUndisturbedHolds`, if no handler sleeps (`MaxWake = 0`), whatever handlers do
  with errors. Without suspension `Distinct` holds of all stages, so every other
  slot's step is silent about the run (`Undisturbed`). Section 6 shows why the
  hypothesis is needed: `stale_suspend` is the counterexample without it.
- `FatalOnlyAfterRetention`, under the same hypothesis: a worker ends with a fatal
  error only after a task was removed; and `NoFatalErrorHolds`, if moreover no task can
  reach its retention time (`MaxTime < Ttl`, by `DeletedByAge`).
- `EveryClaimCountedHolds`, for counters of any width and without hypotheses on
  handlers. The invariant `MetricsInv` is the property itself with the types:
  it is inductive because an attempt in flight leaves room in `executions`, and so
  in every outcome, below the width of `claimed_runs`. The rest is counting:
  a poll puts the granted runs one to one into free slots (`BusyPolled`), the end of an
  attempt frees one slot and adds one to one outcome (`BusyFreed`, `RecordFacts`).
- `OutcomesAreDurableHolds`, likewise without hypotheses: one case per stage in which
  `execute_task()` can return. Each answer of the database describes the row it leaves
  behind. Only the answer after `fail_run()` describes an earlier
  call: `ConfirmedKept` says that the run failed or was cancelled then and, because no step
  changes how a run ended (`EndedRunStays`), still is so, unless its task was removed,
  in which case nothing is counted but an unhandled error.
- `CountingObserves`: `MetricsSpec => WorkerSpec`, so that the theorems above hold of
  the counted workers.

TLC evaluates all assumptions, in the runs whose modules extend the ones that
make them.

Every invariant and every action property that a passing run checks is the statement
of a theorem. Only model-checked is liveness under fairness, which is out of the
prover's reach: the properties of `StedaPolling`, `EveryTaskEnds` and
`EveryCallEnds`. Three theorems have hypotheses on what handlers or time do
(`OneLiveExecutionHolds`, `OwnerUndisturbedHolds`, `NoFatalErrorHolds`); the runs check
those properties under the same hypotheses.

## 6. Where the code and its documentation disagree

`stale_suspend` is a run. `schedule_run()` keeps the run id. A worker whose handler
suspended its run then asks `supervise_run()` about that id. If the wake time has
passed and another worker has claimed the run, the answer is "running", the first
worker takes the suspension for a forged one and calls `fail_run()`, and
`lock_running_attempt()` accepts it because it never compares `claimed_by`. The
second worker's healthy attempt is failed. `src/lib.rs:93` promises that a stale
worker cannot do that.

Met while modelling, and allowed for by the models:

- A handler or middleware that turns a suspension (or a lost reply of
  `schedule_run()`) into an ordinary error makes the executor call `fail_run()` on
  a sleeping run. The exception has no SQLSTATE of steda's, so the worker stops,
  although `src/execution.rs:28` says that errors are handled by the executor.
  `NoFatalError` is therefore stated for handlers that do not suspend.
- If cleanup deletes a task between the two statements of a replayed
  `spawn_task()`, the SELECT finds nothing and the identical replay is refused as a
  conflict. `ConflictIsReal` is about conflicts with a task that exists.
- Cleanup with a ttl shorter than the time a worker needs to notice an end
  deletes the run under it; its next supervision raises an error that ends the
  worker. `NoFatalError` is therefore stated for a ttl that no task reaches, and
  `FatalOnlyAfterRetention` for every ttl.
- A NUL in an idempotency key or a header passes `validate_spawn_options()`
  (`src/queue.rs:496`) and is refused by `jsonb` as a database error. Likewise a key of
  characters that Rust's `trim()` keeps and `[[:space:]]` matches is refused by the
  database only, and one of no-break spaces by Rust only where the collation does not
  count them as spaces. `LayersAgree` names these texts as exceptions.
- `cancel_task()` says that it locks the run before the task
  (`sql/migrations/0005_failure_and_cancellation.sql:158`). A run inserted after it
  looked is locked after the task, and `cleanup_tasks()` always locks in that
  order: the two functions `CyclesNeedCancelOrCleanup` names.
- Controlling a task that cleanup deleted after the check is a database error and
  not `TaskNotFound` (`src/task.rs:253`).
- `create_with_policy` on an existing queue keeps the stored values of the fields
  it does not set, and does not use the defaults (`src/queue.rs:256`).
- One completion can be counted by two workers: the one that made it, and one
  that suspended the same run earlier and observes it only then.
  `EveryClaimCounted` is per worker.
- `retry_delay_seconds()` with a factor below one underflows after enough attempts,
  and its handler answers with the longest delay, where the mathematical one is next to
  nothing. `DelaySaturates` states both.
- For leases up to two seconds the interval is exactly half of the lease and the
  renewal window opens at the same moment, so an observation just before it renews
  nothing; the next one still comes in time (`LeaseKept`) when messages are fast. With
  messages slower than a twelfth of such a lease a live worker can lose it between the
  first observation and the first renewal, because the checkpoints are loaded in between.

## 7. Not modelled

- Contents of names, parameters and headers (but for a NUL in `StedaOptions`), JSON encoding and decoding, and
  connecting and migrating: data and I/O without a state of their own. `lib.rs`
  is documentation and re-exports.
- Logging, tracing and elapsed times of `src/metrics.rs`.
- What a middleware layer of the user computes.
- `sql/steda.sql` is the concatenation of the migrations.
- Collisions of `hashtext()` between queue names: two pairs of colliding names at
  once could make two passes of `cleanup_all_queues()` wait for each other until
  PostgreSQL aborts one.
- Lock cycles that span several tasks: batches skip locked rows, and the
  remaining functions lock one task each, except `cleanup_tasks()`.
- Claim errors that are not transient (a dropped queue), and a claim in flight as a
  state of its own (section 2, `StedaWorker`).
