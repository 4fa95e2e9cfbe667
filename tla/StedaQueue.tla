----------------------------- MODULE StedaQueue -----------------------------
(***************************************************************************)
(* One steda queue as PostgreSQL keeps it: the task rows, their runs and   *)
(* their checkpoints, and one action per SQL function of the queue that    *)
(* changes them (sql/migrations/0003 to 0008).                             *)
(*                                                                         *)
(* Every function body runs in one transaction.  It locks its run, then    *)
(* its task, and only then reads the clock, so an action is atomic and     *)
(* reads `now` once; the two functions that read the clock before they     *)
(* wait for the lock (cancel_task and retry_task) take an older reading.   *)
(*                                                                         *)
(* A caller is any process that knows a run: a worker that still owns it,  *)
(* one that lost it, or one that was replaced.  The actions therefore take *)
(* an arbitrary run, and only the functions' own guards protect the rows.  *)
(* A call that raises, or that finds nothing to do, is a stuttering step.  *)
(***************************************************************************)
EXTENDS Integers, FiniteSets

CONSTANTS
    Tasks,        \* task ids (uuidv7: never used twice)
    Requests,     \* submission requests, see RequestType
    Names,        \* task names
    Workers,      \* worker ids
    NoWorker,     \* claimed_by IS NULL
    Steps,        \* checkpoint names
    Values,       \* checkpoint values
    NoValue,      \* no row for that checkpoint name
    Lease,        \* lease_seconds, also the renew_for_seconds of supervision
    Ttl,          \* cleanup_ttl of the queue
    BatchLimit,   \* largest quantity of a claim and cleanup_limit
    MaxAttempt,   \* bound: attempts of one task, manual retries included
    MaxTime,      \* bound: last clock value
    MaxWake,      \* bound: latest wake time a handler asks for
    MaxLockWait   \* bound: how long a call may wait for a row lock

Attempts == 1 .. MaxAttempt

\* SQL NULL in a timestamp or in a limit.
Null == -1

OrNull(S) == S \cup {Null}

\* A submission request after spawn_task() normalised it.  `delay` tabulates
\* retry_delay_seconds() of its strategy, `max_delay` and `max_duration` are
\* its cancellation policy.
RequestType ==
    [name         : Names,
     kind         : {"none", "fixed", "exponential"},
     delay        : [Attempts -> Nat],
     max_attempts : Attempts,
     max_delay    : OrNull(Nat),
     max_duration : OrNull(Nat)]

ASSUME BoundsAssumption ==
    /\ MaxAttempt \in Nat \ {0}
    /\ MaxTime \in Nat
    /\ MaxWake \in Nat
    /\ MaxLockWait \in Nat
    /\ BatchLimit \in Nat \ {0}

ASSUME PolicyAssumption ==
    /\ Lease \in Nat \ {0}
    /\ Ttl \in Nat

ASSUME ValuesAssumption ==
    /\ NoWorker \notin Workers
    /\ NoValue \notin Values

ASSUME RequestsAssumption ==
    /\ Requests # {}
    /\ Requests \subseteq RequestType

VARIABLES
    tasks,  \* [Tasks -> Row]: the task row with its runs and its checkpoints
    now     \* steda.current_time()

vars == <<tasks, now>>

-----------------------------------------------------------------------------
(* The rows.                                                               *)

Active == {"pending", "sleeping", "running"}
Terminal == {"completed", "failed", "cancelled"}

RunType ==
    [state            : Active \cup Terminal \cup {"absent"},
     available_at     : OrNull(Nat),
     claimed_by       : Workers \cup {NoWorker},
     claim_expires_at : OrNull(Nat),
     ended_at         : OrNull(Nat),   \* completed_at or failed_at
     reason           : {"none", "error", "lease_expired"}]

\* "absent": no row yet; "deleted": the row was there and cleanup removed it.
\* `last` is the attempt number of the run last_attempt_run points to; runs
\* are named by <<task, attempt>>, which is unique in the runs table.
Row ==
    [state            : Active \cup Terminal \cup {"absent", "deleted"},
     req              : Requests,
     attempts         : 0 .. MaxAttempt,
     max_attempts     : Attempts,
     last             : Attempts,
     enqueue_at       : Nat,
     first_started_at : OrNull(Nat),
     cancelled_at     : OrNull(Nat),
     runs             : [Attempts -> RunType],
     checkpoints      : [Steps -> Values \cup {NoValue}]]

NoRun ==
    [state |-> "absent", available_at |-> Null, claimed_by |-> NoWorker,
     claim_expires_at |-> Null, ended_at |-> Null, reason |-> "none"]

NewRun(state, at) == [NoRun EXCEPT !.state = state, !.available_at = at]

\* A task id without a task row.
NoTask(state) ==
    [state |-> state, req |-> CHOOSE req \in Requests : TRUE,
     attempts |-> 0, max_attempts |-> 1, last |-> 1, enqueue_at |-> 0,
     first_started_at |-> Null, cancelled_at |-> Null,
     runs |-> [a \in Attempts |-> NoRun],
     checkpoints |-> [s \in Steps |-> NoValue]]

Live(r) == r.state \notin {"absent", "deleted"}

\* The authoritative run: the one last_attempt_run points to.
Current(r) == r.runs[r.last]

LargerOf(m, n) == IF m >= n THEN m ELSE n

Init ==
    /\ tasks = [t \in Tasks |-> NoTask("absent")]
    /\ now = 0

-----------------------------------------------------------------------------
(* cancellation_due(): before the first claim only maxDelay counts, after  *)
(* it only maxDuration.                                                    *)

Elapsed(since, limit, at) == limit # Null /\ at - since >= limit

CancellationDue(r, at) ==
    IF r.first_started_at = Null
    THEN Elapsed(r.enqueue_at, r.req.max_delay, at)
    ELSE Elapsed(r.first_started_at, r.req.max_duration, at)

\* Mutant: the fence asks for a running task and forgets which run is its own.
FencedByTaskOnly(r, a, expectExpired, at) ==
    IF r.state = "cancelled" THEN "ST001" ELSE IF r.state = "running" THEN "ok" ELSE "not_running"

\* Mutant: the fence forgets to compare the lease with the clock.
FencedWithoutExpiry(r, a, expectExpired, at) ==
    IF r.runs[a].state = "running" /\ r.state = "running" /\ r.last = a THEN "ok" ELSE "ST002"

(* lock_running_attempt(): the error an attempt-scoped call ends with, or  *)
(* "ok".  The caller's identity is not part of the test.                   *)
LockRunningAttempt(r, a, expectExpired, at) ==
    LET run == r.runs[a]
        authoritative == r.state = "running" /\ r.last = a
        expired == run.claim_expires_at <= at
    IN  CASE run.state = "absent" -> "not_found"
          [] run.state = "cancelled" -> "ST001"
          [] run.state = "failed" -> "ST002"
          [] run.state \in {"pending", "sleeping", "completed"} -> "not_running"
          [] run.state = "running" /\ r.state = "cancelled" -> "ST001"
          [] run.state = "running" /\ r.state # "cancelled" /\ ~authoritative
               -> "not_authoritative"
          [] run.state = "running" /\ authoritative /\ expectExpired /\ ~expired
               -> "not_expired"
          [] run.state = "running" /\ authoritative /\ ~expectExpired /\ expired
               -> "ST003"
          [] OTHER -> "ok"

\* Mutant: the lease outlives the claim.
ReleaseKeepsLease(run, state) == [run EXCEPT !.state = state, !.claimed_by = NoWorker]

\* The run leaves the running state: claimed_by and claim_expires_at go.
Release(run, state) ==
    [run EXCEPT !.state = state, !.claimed_by = NoWorker, !.claim_expires_at = Null]

-----------------------------------------------------------------------------
(* The effect of each function on the rows of one task, at one clock       *)
(* reading.                                                                *)

\* Mutant: a failed task can still be cancelled.
CancelledEvenIfFailed(r, at) ==
    IF r.state \in {"completed", "cancelled"}
    THEN r
    ELSE [r EXCEPT !.state = "cancelled", !.cancelled_at = at]

\* Mutant: a running task is left to its worker.
CancelledUnlessRunning(r, at) ==
    IF r.state \in Terminal \cup {"running"}
    THEN r
    ELSE [r EXCEPT !.state = "cancelled",
                   !.cancelled_at = at,
                   !.runs[r.last] = Release(@, "cancelled")]

\* cancel_task() without its NOT FOUND error.
Cancelled(r, at) ==
    IF r.state \in Terminal
    THEN r
    ELSE [r EXCEPT !.state = "cancelled",
                   !.cancelled_at = IF @ = Null THEN at ELSE @,
                   !.runs = [a \in Attempts |-> IF @[a].state \in Active
                                                THEN Release(@[a], "cancelled")
                                                ELSE @[a]]]

\* complete_run() of a run that passed lock_running_attempt().
Completed(r, a, at) ==
    IF CancellationDue(r, at)
    THEN Cancelled(r, at)
    ELSE [r EXCEPT !.state = "completed",
                   !.last = a,
                   !.runs[a] = [Release(@, "completed") EXCEPT !.ended_at = at]]

\* Mutant: the deadline is tested now, not at the wake time.
ScheduledPastDeadline(r, a, wake, at) ==
    IF CancellationDue(r, at)
    THEN Cancelled(r, at)
    ELSE [r EXCEPT !.state = "sleeping",
                   !.runs[a] = [Release(@, "sleeping") EXCEPT !.available_at = wake]]

\* schedule_run(): a wake time that has passed leaves the run running.
Scheduled(r, a, wake, at) ==
    IF CancellationDue(r, at) \/ CancellationDue(r, wake)
    THEN Cancelled(r, at)
    ELSE IF wake <= at
    THEN r
    ELSE [r EXCEPT !.state = "sleeping",
                   !.runs[a] = [Release(@, "sleeping") EXCEPT !.available_at = wake]]

\* The part of fail_run() that only touches the failed run.
RunFailed(r, a, reason, at) ==
    [r EXCEPT !.runs[a] = [Release(@, "failed") EXCEPT !.ended_at = at, !.reason = reason]]

\* Mutant: last_attempt_run still names the failed run.
RetryNotAuthoritative(r, a, state, available_at) ==
    [r EXCEPT !.state = state,
              !.attempts = LargerOf(@, a),
              !.runs[a] = NewRun(state, available_at)]

\* The retry run fail_run() inserts; it is due at once or after its backoff.
RetryInserted(r, a, state, available_at) ==
    [r EXCEPT !.state = state,
              !.attempts = LargerOf(@, a),
              !.last = a,
              !.runs[a] = NewRun(state, available_at)]

\* Mutant: the budget counts retries instead of attempts.
HasRetryOffByOne(r, a) == r.req.kind # "none" /\ a <= r.max_attempts

HasRetry(r, a) == r.req.kind # "none" /\ a + 1 <= r.max_attempts

Failed(r, a, reason, at) ==
    LET failed == RunFailed(r, a, reason, at)
        available_at == at + r.req.delay[a]
        state == IF available_at > at THEN "sleeping" ELSE "pending"
    IN  IF CancellationDue(r, at)
        THEN Cancelled(r, at)
        ELSE IF ~HasRetry(r, a)
        THEN [failed EXCEPT !.state = "failed", !.attempts = LargerOf(@, a), !.last = a]
        ELSE IF CancellationDue(r, available_at)
        THEN Cancelled(failed, at)
        ELSE RetryInserted(failed, a + 1, state, available_at)

\* retry_task(): a fresh pending run, and the budget grows if it must.
Retried(r, at) ==
    LET next == r.attempts + 1
    IN  [r EXCEPT !.state = "pending",
                  !.attempts = next,
                  !.max_attempts = LargerOf(@, next),
                  !.last = next,
                  !.cancelled_at = Null,
                  !.runs[next] = NewRun("pending", at)]

\* The update of claim_tasks(): the authoritative run is handed to w.
Claimed(r, w, at) ==
    [r EXCEPT !.state = "running",
              !.attempts = LargerOf(@, r.last),
              !.first_started_at = IF @ = Null THEN at ELSE @,
              !.runs[r.last] = [@ EXCEPT !.state = "running",
                                         !.claimed_by = w,
                                         !.claim_expires_at = at + Lease,
                                         !.available_at = at]]

\* Mutant: the first attempt is taken out of the stored budget.
SpawnedWithRetriesLeft(req, at) ==
    [NoTask("pending") EXCEPT !.req = req,
                              !.attempts = 1,
                              !.max_attempts = req.max_attempts - 1,
                              !.enqueue_at = at,
                              !.runs[1] = NewRun("pending", at)]

\* spawn_task(): the task row and its first run.
Spawned(req, at) ==
    [NoTask("pending") EXCEPT !.req = req,
                              !.attempts = 1,
                              !.max_attempts = req.max_attempts,
                              !.enqueue_at = at,
                              !.runs[1] = NewRun("pending", at)]

-----------------------------------------------------------------------------
(* The functions as actions.                                               *)

Update(t, row) == tasks' = [tasks EXCEPT ![t] = row]

\* spawn_task() when no task has the idempotency key; a replayed key changes
\* no row.
SpawnTask(t, req) ==
    /\ tasks[t].state = "absent"
    /\ Update(t, Spawned(req, now))
    /\ UNCHANGED now

Fenced(t, a) == LockRunningAttempt(tasks[t], a, FALSE, now) = "ok"

CompleteRun(t, a) ==
    /\ Fenced(t, a)
    /\ Update(t, Completed(tasks[t], a, now))
    /\ UNCHANGED now

ScheduleRun(t, a, wake) ==
    /\ Fenced(t, a)
    /\ Update(t, Scheduled(tasks[t], a, wake, now))
    /\ UNCHANGED now

\* fail_run() by a worker; the reaper's call is in Reaped.
FailRun(t, a) ==
    /\ Fenced(t, a)
    /\ Update(t, Failed(tasks[t], a, "error", now))
    /\ UNCHANGED now

\* The clock readings a call may hold that read the clock and then waited for
\* the task's lock.
ReadBefore(t) == { at \in 0 .. now : at >= tasks[t].enqueue_at /\ at >= now - MaxLockWait }

CancelTask(t, at) ==
    /\ Live(tasks[t])
    /\ Update(t, Cancelled(tasks[t], at))
    /\ UNCHANGED now

RetryTask(t, at) ==
    /\ tasks[t].state = "failed"
    /\ ~CancellationDue(tasks[t], at)
    /\ tasks[t].attempts < MaxAttempt
    /\ Update(t, Retried(tasks[t], at))
    /\ UNCHANGED now

\* reap_expired_run(): the run must be running past its lease.  Its other
\* test, that the run is authoritative, raises; AuthoritativeRun says that
\* this cannot happen.
LeaseExpired(r, at) == Current(r).state = "running" /\ Current(r).claim_expires_at <= at

Reaped(r, at) == Failed(r, r.last, "lease_expired", at)

\* What supervise_run() answers.
Supervision(r, a, at) ==
    LET run == r.runs[a]
    IN  CASE run.state = "absent" -> "not_found"
          [] run.state # "absent" /\ (r.state = "cancelled" \/ run.state = "cancelled")
               -> "cancelled"
          [] r.state # "cancelled" /\ run.state = "failed"
               -> IF run.reason = "lease_expired" THEN "lease_lost" ELSE "failed"
          [] r.state # "cancelled" /\ run.state = "completed" -> "completed"
          [] r.state # "cancelled" /\ run.state = "sleeping" -> "suspended"
          [] r.state # "cancelled" /\ run.state = "pending" -> "unsupported"
          [] r.state # "cancelled" /\ run.state = "running"
               /\ ~(r.state = "running" /\ r.last = a) -> "not_authoritative"
          [] OTHER -> IF CancellationDue(r, at) THEN "cancelled"
                      ELSE IF ~LeaseExpired(r, at) THEN "running"
                      ELSE IF Reaped(r, at).state = "cancelled" THEN "cancelled"
                      ELSE "lease_lost"

\* The lease entered its renewal window: half of it, or less, is left.
RenewalDue(run, at) == 2 * run.claim_expires_at <= 2 * at + Lease

\* What supervise_run() does to the rows of a running authoritative run.
Supervised(r, a, renew, at) ==
    IF CancellationDue(r, at)
    THEN Cancelled(r, at)
    ELSE IF LeaseExpired(r, at)
    THEN Reaped(r, at)
    ELSE IF renew /\ RenewalDue(r.runs[a], at)
    THEN [r EXCEPT !.runs[a].claim_expires_at = LargerOf(@, at + Lease)]
    ELSE r

SuperviseRun(t, a, renew) ==
    /\ tasks[t].runs[a].state = "running"
    /\ tasks[t].state = "running"
    /\ tasks[t].last = a
    /\ Update(t, Supervised(tasks[t], a, renew, now))
    /\ UNCHANGED now

\* Mutant: ON CONFLICT DO UPDATE.
OverwriteCheckpoint(t, a, step, value) ==
    /\ Fenced(t, a)
    /\ ~CancellationDue(tasks[t], now)
    /\ Update(t, [tasks[t] EXCEPT !.checkpoints[step] = value])
    /\ UNCHANGED now

\* set_task_checkpoint_state(): the first value of a name stays.
SetCheckpoint(t, a, step, value) ==
    /\ Fenced(t, a)
    /\ ~CancellationDue(tasks[t], now)
    /\ tasks[t].checkpoints[step] = NoValue
    /\ Update(t, [tasks[t] EXCEPT !.checkpoints[step] = value])
    /\ UNCHANGED now

-----------------------------------------------------------------------------
(* claim_tasks(): cancel_expired_tasks(), then reap_expired_runs(), then   *)
(* the claim itself, in one transaction.  Each pass takes at most          *)
(* `quantity` rows and skips rows another transaction has locked, so any   *)
(* batch of candidates within the limit can be what it takes.              *)

Batches(S, quantity) == { B \in SUBSET S : Cardinality(B) <= quantity }

ExpiredTasks(rows) ==
    { t \in Tasks : /\ rows[t].state \in Active
                    /\ Current(rows[t]).state \in Active
                    /\ CancellationDue(rows[t], now) }

ExpiredRuns(rows) == { t \in Tasks : LeaseExpired(rows[t], now) }

\* Mutant: the claim query forgets the states.
ClaimableEvenIfRunning(r, names, at) ==
    /\ r.state \in Active
    /\ Current(r).available_at <= at
    /\ r.req.name \in names
    /\ ~CancellationDue(r, at)

Claimable(r, names, at) ==
    /\ r.state \in {"pending", "sleeping"}
    /\ Current(r).state \in {"pending", "sleeping"}
    /\ Current(r).available_at <= at
    /\ r.req.name \in names
    /\ ~CancellationDue(r, at)

ClaimableTasks(rows, names) == { t \in Tasks : Claimable(rows[t], names, now) }

CancelPass(rows, batch) ==
    [t \in Tasks |-> IF t \in batch THEN Cancelled(rows[t], now) ELSE rows[t]]

ReapPass(rows, batch) ==
    [t \in Tasks |-> IF t \in batch THEN Reaped(rows[t], now) ELSE rows[t]]

ClaimPass(rows, batch, w) ==
    [t \in Tasks |-> IF t \in batch THEN Claimed(rows[t], w, now) ELSE rows[t]]

ClaimTasks(w, names, quantity) ==
    /\ \E cancel \in Batches(ExpiredTasks(tasks), quantity) :
         LET cancelled == CancelPass(tasks, cancel)
         IN  \E reap \in Batches(ExpiredRuns(cancelled), quantity) :
               LET reaped == ReapPass(cancelled, reap)
               IN  \E claim \in Batches(ClaimableTasks(reaped, names), quantity) :
                     tasks' = ClaimPass(reaped, claim, w)
    /\ UNCHANGED now

-----------------------------------------------------------------------------
(* cleanup_tasks()                                                         *)

TerminalAt(r) ==
    CASE r.state \in {"completed", "failed"} -> Current(r).ended_at
      [] r.state = "cancelled" -> r.cancelled_at
      [] OTHER -> Null

\* Mutant: retention counts from submission and spares only running tasks.
ExpendableByAge ==
    { t \in Tasks : /\ Live(tasks[t]) /\ tasks[t].state # "running"
                    /\ tasks[t].enqueue_at <= now - Ttl }

Expendable ==
    { t \in Tasks : /\ tasks[t].state \in Terminal
                    /\ TerminalAt(tasks[t]) # Null
                    /\ TerminalAt(tasks[t]) <= now - Ttl }

\* Deleting the task row deletes its runs and checkpoints with it.
CleanupTasks ==
    /\ \E batch \in Batches(Expendable, BatchLimit) :
         tasks' = [t \in Tasks |-> IF t \in batch THEN NoTask("deleted") ELSE tasks[t]]
    /\ UNCHANGED now

Tick ==
    /\ now < MaxTime
    /\ now' = now + 1
    /\ UNCHANGED tasks

-----------------------------------------------------------------------------
Next ==
    \/ \E t \in Tasks, req \in Requests : SpawnTask(t, req)
    \/ \E t \in Tasks, a \in Attempts :
         \/ CompleteRun(t, a)
         \/ \E wake \in 0 .. MaxWake : ScheduleRun(t, a, wake)
         \/ FailRun(t, a)
         \/ \E renew \in BOOLEAN : SuperviseRun(t, a, renew)
         \/ \E step \in Steps, value \in Values : SetCheckpoint(t, a, step, value)
    \/ \E t \in Tasks : \E at \in ReadBefore(t) : CancelTask(t, at) \/ RetryTask(t, at)
    \/ \E w \in Workers, names \in (SUBSET Names) \ {{}}, quantity \in 1 .. BatchLimit :
         ClaimTasks(w, names, quantity)
    \/ CleanupTasks
    \/ Tick

Spec == Init /\ [][Next]_vars

-----------------------------------------------------------------------------
(* Properties.                                                             *)

\* Every row has the shape of its table and the clock stays in its bound.
TypeOK ==
    /\ tasks \in [Tasks -> Row]
    /\ now \in 0 .. MaxTime

\* last_attempt_run names the only run that may be active, the task's state is
\* that run's state, and a cancelled task has no active run.  The CHECKs and
\* partial indexes of the schema, and every "not authoritative" exception of
\* 0004 and 0006, rest on it.
AuthoritativeRun ==
    \A t \in Tasks : LET r == tasks[t] IN
        Live(r) =>
            /\ r.state # "cancelled" => Current(r).state = r.state
            /\ r.state = "cancelled" => Current(r).state \in {"cancelled", "failed"}
            /\ \A a \in Attempts : a # r.last => r.runs[a].state \in {"absent", "failed"}

\* The attempts of a task are numbered without gaps, all but the last one
\* failed, and the effective budget is the submitted one unless manual retries
\* used more.  UNIQUE (task_id, attempt) can then never reject the run that
\* fail_run() or retry_task() inserts, and no automatic retry exceeds the
\* submitted budget.
AttemptHistory ==
    \A t \in Tasks : LET r == tasks[t] IN
        Live(r) =>
            /\ r.attempts = r.last
            /\ \A a \in Attempts : a < r.last => r.runs[a].state = "failed"
            /\ \A a \in Attempts : a > r.last => r.runs[a] = NoRun
            /\ r.max_attempts = LargerOf(r.req.max_attempts, r.attempts)

\* A run is running exactly while a worker holds a finite lease on it.
LeaseIffRunning ==
    \A t \in Tasks, a \in Attempts : LET run == tasks[t].runs[a] IN
        /\ run.state = "running" <=> run.claimed_by # NoWorker
        /\ run.state = "running" <=> run.claim_expires_at # Null

\* The cancellation policy wins every race: no task starts after its maximal
\* delay, none ends completed or failed past its maximal duration, and no run
\* waits for a time at which its task will already be due.
DeadlineWins ==
    \A t \in Tasks : LET r == tasks[t] IN
        Live(r) =>
            /\ r.first_started_at # Null
                 => ~Elapsed(r.enqueue_at, r.req.max_delay, r.first_started_at)
            /\ r.state \in {"completed", "failed"} => ~CancellationDue(r, Current(r).ended_at)
            /\ r.state \in {"pending", "sleeping"} /\ r.first_started_at # Null
                 => ~CancellationDue(r, Current(r).available_at)

Frozen(r, r2) == r2 = r \/ r2.state = "deleted"

\* A completed or cancelled task never changes again, and a failed one only by
\* a manual retry that keeps its attempts, its checkpoints and its request.
TerminalIsFinal ==
    [][\A t \in Tasks : LET r == tasks[t] IN
        /\ r.state \in {"completed", "cancelled", "deleted"} => Frozen(r, tasks'[t])
        /\ r.state = "failed" =>
             \/ Frozen(r, tasks'[t])
             \/ /\ tasks'[t].state = "pending"
                /\ tasks'[t].req = r.req
                /\ tasks'[t].checkpoints = r.checkpoints
                /\ \A a \in 1 .. r.attempts : tasks'[t].runs[a] = r.runs[a]
      ]_vars

\* Once its lease ran out, all that can happen to a running run is that it is
\* reaped or cancelled, and its task's checkpoints stay as they are; while the
\* lease holds, the run is never reaped and its owner is never replaced.
LeaseFencing ==
    [][\A t \in Tasks, a \in Attempts :
        LET r == tasks[t]  run == r.runs[a]  run2 == tasks'[t].runs[a]
        IN  run.state = "running" =>
              IF run.claim_expires_at <= now
              THEN /\ run2 = run \/ run2.state = "cancelled"
                        \/ (run2.state = "failed" /\ run2.reason = "lease_expired")
                   /\ tasks'[t].checkpoints = r.checkpoints
              ELSE /\ run2.reason # "lease_expired"
                   /\ run2.state = "running" =>
                        /\ run2.claimed_by = run.claimed_by
                        /\ run2.claim_expires_at >= run.claim_expires_at
      ]_vars

\* A checkpoint keeps its first value for the life of its task, over retries,
\* lease losses and manual retries.
CheckpointsImmutable ==
    [][\A t \in Tasks, s \in Steps :
        tasks[t].checkpoints[s] # NoValue =>
            \/ tasks'[t].checkpoints[s] = tasks[t].checkpoints[s]
            \/ tasks'[t].state = "deleted"
      ]_vars
=============================================================================
