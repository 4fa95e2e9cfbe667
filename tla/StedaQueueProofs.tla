-------------------------- MODULE StedaQueueProofs --------------------------
(***************************************************************************)
(* Theorems about StedaQueue for every set of tasks, requests and workers, *)
(* every lease, retention time and bound.                                  *)
(*                                                                         *)
(* Every action rewrites the rows of each task by one of the row operators *)
(* (Cancelled, Completed, Scheduled, Failed, Retried, Claimed, Spawned),   *)
(* so the first part proves the invariants row by row: one lemma per row   *)
(* operator, then one step per action.  The second part reduces every      *)
(* action, with its batches and its stale callers, to a relation RowNext   *)
(* between the rows of a task before and after it; the deadline invariant, *)
(* the action properties and the refinement of StedaTask follow from it.   *)
(***************************************************************************)
EXTENDS StedaRefinement, TLAPS

-----------------------------------------------------------------------------
(* Types.                                                                  *)

\* A request is a record of RequestType.
LEMMA RequestTyped ==
    ASSUME NEW req \in Requests
    PROVE  req \in RequestType
BY RequestsAssumption

\* The row of a task that is not there is typed.
LEMMA NoTaskTyped ==
    ASSUME NEW state \in {"absent", "deleted", "pending"}
    PROVE  NoTask(state) \in Row
<1>1. (CHOOSE req \in Requests : TRUE) \in Requests
  BY RequestsAssumption
<1>2. NoRun \in RunType
  BY DEF NoRun, RunType, OrNull, Null, Active, Terminal
<1>. QED
  BY <1>1, <1>2, BoundsAssumption
  DEF NoTask, Row, OrNull, Null, Active, Terminal, Attempts

\* A fresh run is typed.
LEMMA NewRunTyped ==
    ASSUME NEW state \in {"pending", "sleeping"}, NEW at \in Nat
    PROVE  NewRun(state, at) \in RunType
BY DEF NewRun, NoRun, RunType, OrNull, Null, Active, Terminal

\* Releasing a run keeps its type.
LEMMA ReleaseTyped ==
    ASSUME NEW run \in RunType, NEW state \in Active \cup Terminal
    PROVE  Release(run, state) \in RunType
BY DEF Release, RunType, OrNull, Null, Active, Terminal

\* cancel_task() keeps the type of the row.
LEMMA CancelledTyped ==
    ASSUME NEW r \in Row, NEW at \in Nat
    PROVE  Cancelled(r, at) \in Row
<1>1. \A a \in Attempts : r.runs[a] \in RunType
  BY DEF Row
<1>2. \A a \in Attempts : Release(r.runs[a], "cancelled") \in RunType
  BY <1>1, ReleaseTyped DEF Terminal
<1>. QED
  BY <1>1, <1>2 DEF Cancelled, Row, OrNull, Null, Active, Terminal

\* complete_run() keeps the type of the row.
LEMMA CompletedTyped ==
    ASSUME NEW r \in Row, NEW a \in Attempts, NEW at \in Nat
    PROVE  Completed(r, a, at) \in Row
<1>. DEFINE run == [Release(r.runs[a], "completed") EXCEPT !.ended_at = at]
<1>1. run \in RunType
  BY ReleaseTyped DEF Row, RunType, Terminal, OrNull
<1>2. [r EXCEPT !.state = "completed", !.last = a, !.runs[a] = run] \in Row
  <2>. HIDE DEF run
  <2>. QED BY <1>1 DEF Row, Terminal
<1>. QED
  BY <1>2, CancelledTyped DEF Completed

\* schedule_run() keeps it.
LEMMA ScheduledTyped ==
    ASSUME NEW r \in Row, NEW a \in Attempts, NEW wake \in Nat, NEW at \in Nat
    PROVE  Scheduled(r, a, wake, at) \in Row
<1>. DEFINE run == [Release(r.runs[a], "sleeping") EXCEPT !.available_at = wake]
<1>1. run \in RunType
  BY ReleaseTyped DEF Row, RunType, Active, OrNull
<1>2. [r EXCEPT !.state = "sleeping", !.runs[a] = run] \in Row
  <2>. HIDE DEF run
  <2>. QED BY <1>1 DEF Row, Active
<1>. QED
  BY <1>2, CancelledTyped DEF Scheduled

\* The failure of a run keeps it.
LEMMA RunFailedTyped ==
    ASSUME NEW r \in Row, NEW a \in Attempts, NEW at \in Nat,
           NEW reason \in {"error", "lease_expired"}
    PROVE  RunFailed(r, a, reason, at) \in Row
<1>. DEFINE run == [Release(r.runs[a], "failed") EXCEPT !.ended_at = at, !.reason = reason]
<1>1. run \in RunType
  <2>1. Release(r.runs[a], "failed") \in RunType
    BY ReleaseTyped DEF Row, Terminal
  <2>. QED BY <2>1 DEF RunType, OrNull
<1>2. [r EXCEPT !.runs[a] = run] \in Row
  <2>. HIDE DEF run
  <2>. QED BY <1>1 DEF Row
<1>. QED
  BY <1>2 DEF RunFailed

\* The retry run keeps it.
LEMMA RetryInsertedTyped ==
    ASSUME NEW r \in Row, NEW a \in Attempts, NEW at \in Nat,
           NEW state \in {"pending", "sleeping"}
    PROVE  RetryInserted(r, a, state, at) \in Row
<1>1. NewRun(state, at) \in RunType
  BY NewRunTyped
<1>2. LargerOf(r.attempts, a) \in 0 .. MaxAttempt
  BY BoundsAssumption DEF Row, LargerOf, Attempts
<1>. QED
  BY <1>1, <1>2 DEF RetryInserted, Row, Active

\* fail_run() keeps it, whichever way it ends.
LEMMA FailedTyped ==
    ASSUME NEW r \in Row, NEW a \in Attempts, NEW at \in Nat,
           NEW reason \in {"error", "lease_expired"}
    PROVE  Failed(r, a, reason, at) \in Row
<1>. DEFINE failed == RunFailed(r, a, reason, at)
            available_at == at + r.req.delay[a]
            state == IF available_at > at THEN "sleeping" ELSE "pending"
<1>1. failed \in Row
  BY RunFailedTyped
<1>2. available_at \in Nat
  BY RequestTyped DEF Row, RequestType
<1>3. LargerOf(failed.attempts, a) \in 0 .. MaxAttempt
  BY <1>1, BoundsAssumption DEF Row, LargerOf, Attempts
<1>4. [failed EXCEPT !.state = "failed", !.attempts = LargerOf(@, a), !.last = a] \in Row
  <2>. HIDE DEF failed
  <2>. QED BY <1>1, <1>3 DEF Row, Terminal
<1>5. ASSUME HasRetry(r, a)
      PROVE  RetryInserted(failed, a + 1, state, available_at) \in Row
  <2>1. a + 1 \in Attempts
    BY <1>5, BoundsAssumption DEF HasRetry, Row, Attempts
  <2>. HIDE DEF failed, available_at
  <2>. QED BY <1>1, <1>2, <2>1, RetryInsertedTyped
<1>6. Cancelled(failed, at) \in Row /\ Cancelled(r, at) \in Row
  BY <1>1, CancelledTyped
<1>. QED
  BY <1>4, <1>5, <1>6 DEF Failed

\* retry_task() keeps it.
LEMMA RetriedTyped ==
    ASSUME NEW r \in Row, NEW at \in Nat, r.attempts < MaxAttempt
    PROVE  Retried(r, at) \in Row
<1>1. NewRun("pending", at) \in RunType
  BY NewRunTyped
<1>2. r.attempts + 1 \in Attempts /\ r.attempts + 1 \in 0 .. MaxAttempt
  BY BoundsAssumption DEF Row, Attempts
<1>3. LargerOf(r.max_attempts, r.attempts + 1) \in Attempts
  BY <1>2 DEF Row, LargerOf, Attempts
<1>. QED
  BY <1>1, <1>2, <1>3 DEF Retried, Row, Active, OrNull

\* The claim keeps it.
LEMMA ClaimedTyped ==
    ASSUME NEW r \in Row, NEW w \in Workers, NEW at \in Nat
    PROVE  Claimed(r, w, at) \in Row
<1>. DEFINE run == [r.runs[r.last] EXCEPT !.state = "running", !.claimed_by = w,
                                          !.claim_expires_at = at + Lease,
                                          !.available_at = at]
<1>1. run \in RunType
  <2>1. r.runs[r.last] \in RunType
    BY DEF Row
  <2>2. at + Lease \in Nat
    BY PolicyAssumption
  <2>. QED BY <2>1, <2>2 DEF RunType, Active, OrNull
<1>2. LargerOf(r.attempts, r.last) \in 0 .. MaxAttempt
  BY BoundsAssumption DEF Row, LargerOf, Attempts
<1>3. [r EXCEPT !.state = "running",
                !.attempts = LargerOf(@, r.last),
                !.first_started_at = IF @ = Null THEN at ELSE @,
                !.runs[r.last] = run] \in Row
  <2>. HIDE DEF run
  <2>. QED BY <1>1, <1>2 DEF Row, Active, OrNull, Null
<1>. QED
  BY <1>3 DEF Claimed

\* The row of a new task is typed.
LEMMA SpawnedTyped ==
    ASSUME NEW req \in Requests, NEW at \in Nat
    PROVE  Spawned(req, at) \in Row
<1>1. NoTask("pending") \in Row
  BY NoTaskTyped
<1>2. NewRun("pending", at) \in RunType
  BY NewRunTyped
<1>3. req.max_attempts \in Attempts /\ 1 \in 0 .. MaxAttempt
  BY RequestTyped, BoundsAssumption DEF RequestType
<1>. QED
  BY <1>1, <1>2, <1>3 DEF Spawned, Row

\* supervise_run() keeps the type of the row.
LEMMA SupervisedTyped ==
    ASSUME NEW r \in Row, NEW a \in Attempts, NEW renew \in BOOLEAN, NEW at \in Nat
    PROVE  Supervised(r, a, renew, at) \in Row
<1>. DEFINE lease == LargerOf(r.runs[a].claim_expires_at, at + Lease)
<1>1. lease \in Nat
  BY PolicyAssumption DEF Row, RunType, LargerOf, OrNull, Null
<1>2. [r EXCEPT !.runs[a].claim_expires_at = lease] \in Row
  <2>. HIDE DEF lease
  <2>. QED BY <1>1 DEF Row, RunType, OrNull
<1>3. Reaped(r, at) \in Row
  BY FailedTyped DEF Reaped, Row
<1>. QED
  BY <1>2, <1>3, CancelledTyped DEF Supervised

\* The three passes of claim_tasks() keep the type of every row.
LEMMA PassesTyped ==
    ASSUME NEW rows \in [Tasks -> Row], NEW batch \in SUBSET Tasks,
           NEW w \in Workers, now \in Nat
    PROVE  /\ CancelPass(rows, batch) \in [Tasks -> Row]
           /\ ReapPass(rows, batch) \in [Tasks -> Row]
           /\ ClaimPass(rows, batch, w) \in [Tasks -> Row]
<1>1. \A t \in Tasks : /\ Cancelled(rows[t], now) \in Row
                       /\ Reaped(rows[t], now) \in Row
                       /\ Claimed(rows[t], w, now) \in Row
  <2>. TAKE t \in Tasks
  <2>1. rows[t] \in Row /\ rows[t].last \in Attempts
    BY DEF Row
  <2>. QED BY <2>1, CancelledTyped, FailedTyped, ClaimedTyped DEF Reaped
<1>. QED
  BY <1>1 DEF CancelPass, ReapPass, ClaimPass

\* Writing a typed row keeps TypeOK.
LEMMA UpdateTyped ==
    ASSUME TypeOK, NEW t \in Tasks, NEW row \in Row, Update(t, row), UNCHANGED now
    PROVE  TypeOK'
BY DEF TypeOK, Update

\* Every action writes typed rows.
LEMMA TypeStep ==
    ASSUME TypeOK, [Next]_vars
    PROVE  TypeOK'
<1>. USE BoundsAssumption
<1>1. now \in Nat /\ \A t \in Tasks : tasks[t] \in Row
  BY DEF TypeOK
<1>2. ASSUME NEW t \in Tasks, NEW req \in Requests, SpawnTask(t, req)
      PROVE  TypeOK'
  BY <1>1, <1>2, SpawnedTyped, UpdateTyped DEF SpawnTask
<1>3. ASSUME NEW t \in Tasks, NEW a \in Attempts, CompleteRun(t, a)
      PROVE  TypeOK'
  BY <1>1, <1>3, CompletedTyped, UpdateTyped DEF CompleteRun
<1>4. ASSUME NEW t \in Tasks, NEW a \in Attempts, NEW wake \in 0 .. MaxWake,
             ScheduleRun(t, a, wake)
      PROVE  TypeOK'
  BY <1>1, <1>4, ScheduledTyped, UpdateTyped DEF ScheduleRun
<1>5. ASSUME NEW t \in Tasks, NEW a \in Attempts, FailRun(t, a)
      PROVE  TypeOK'
  BY <1>1, <1>5, FailedTyped, UpdateTyped DEF FailRun
<1>6. ASSUME NEW t \in Tasks, NEW a \in Attempts, NEW renew \in BOOLEAN,
             SuperviseRun(t, a, renew)
      PROVE  TypeOK'
  BY <1>1, <1>6, SupervisedTyped, UpdateTyped DEF SuperviseRun
<1>7. ASSUME NEW t \in Tasks, NEW a \in Attempts, NEW step \in Steps, NEW value \in Values,
             SetCheckpoint(t, a, step, value)
      PROVE  TypeOK'
  <2>1. [tasks[t] EXCEPT !.checkpoints[step] = value] \in Row
    BY <1>1 DEF Row
  <2>. QED BY <2>1, <1>7, UpdateTyped DEF SetCheckpoint
<1>8. ASSUME NEW t \in Tasks, NEW at \in ReadBefore(t), CancelTask(t, at) \/ RetryTask(t, at)
      PROVE  TypeOK'
  <2>1. at \in Nat
    BY <1>8 DEF ReadBefore
  <2>2. CASE CancelTask(t, at)
    BY <2>1, <2>2, <1>1, CancelledTyped, UpdateTyped DEF CancelTask
  <2>3. CASE RetryTask(t, at)
    BY <2>1, <2>3, <1>1, RetriedTyped, UpdateTyped DEF RetryTask
  <2>. QED BY <2>2, <2>3, <1>8
<1>9. ASSUME NEW w \in Workers, NEW names \in SUBSET Names, NEW quantity \in 1 .. BatchLimit,
             ClaimTasks(w, names, quantity)
      PROVE  TypeOK'
  <2>1. PICK cancel \in SUBSET Tasks, reap \in SUBSET Tasks, claim \in SUBSET Tasks :
          tasks' = ClaimPass(ReapPass(CancelPass(tasks, cancel), reap), claim, w)
    BY <1>9 DEF ClaimTasks, Batches, ExpiredTasks, ExpiredRuns, ClaimableTasks
  <2>2. tasks' \in [Tasks -> Row]
    BY <2>1, <1>1, PassesTyped DEF TypeOK
  <2>. QED BY <2>2, <1>9 DEF ClaimTasks, TypeOK
<1>10. ASSUME CleanupTasks
       PROVE  TypeOK'
  BY <1>10, <1>1, NoTaskTyped DEF CleanupTasks, TypeOK
<1>11. ASSUME Tick
       PROVE  TypeOK'
  BY <1>11 DEF Tick, TypeOK
<1>12. CASE UNCHANGED vars
  BY <1>12 DEF vars, TypeOK
<1>. QED
  BY <1>2, <1>3, <1>4, <1>5, <1>6, <1>7, <1>8, <1>9, <1>10, <1>11, <1>12 DEF Next

\* Type correctness: no sequence of calls, by whatever callers and on whatever
\* runs, takes a row out of its table's type.
THEOREM TypeCorrect == Spec => []TypeOK
<1>1. Init => TypeOK
  BY NoTaskTyped, BoundsAssumption DEF Init, TypeOK
<1>. QED
  BY <1>1, TypeStep, PTL DEF Spec

-----------------------------------------------------------------------------
(* The shape of a task's rows: AuthoritativeRun, AttemptHistory and        *)
(* LeaseIffRunning are proved together, because a claim, a retry and a     *)
(* failure keep one only if the others hold.                               *)

History(r) ==
    /\ r.attempts = r.last
    /\ \A a \in Attempts : a < r.last => r.runs[a].state = "failed"
    /\ \A a \in Attempts : a > r.last => r.runs[a] = NoRun
    /\ r.max_attempts = LargerOf(r.req.max_attempts, r.attempts)

Leased(run) ==
    /\ run.state = "running" <=> run.claimed_by # NoWorker
    /\ run.state = "running" <=> run.claim_expires_at # Null

Authoritative(r) ==
    IF r.state = "cancelled"
    THEN Current(r).state \in {"cancelled", "failed"}
    ELSE Current(r).state = r.state

RowShape(r) ==
    /\ \A a \in Attempts : Leased(r.runs[a])
    /\ IF Live(r) THEN History(r) /\ Authoritative(r)
                  ELSE \A a \in Attempts : r.runs[a] = NoRun

ShapeInv == TypeOK /\ \A t \in Tasks : RowShape(tasks[t])

\* What a caller knows that passed lock_running_attempt().
Owned(r, a) == r.state = "running" /\ r.last = a /\ r.runs[a].state = "running"

\* A missing run holds no lease.
LEMMA NoRunLeased == Leased(NoRun)
BY DEF NoRun, Leased

\* A fresh run holds no lease.
LEMMA NewRunLeased ==
    ASSUME NEW state \in {"pending", "sleeping"}, NEW at
    PROVE  Leased(NewRun(state, at)) /\ NewRun(state, at).state = state
BY DEF NewRun, NoRun, Leased

\* A released run holds no lease.
LEMMA ReleaseLeased ==
    ASSUME NEW run \in RunType, NEW state, state # "running"
    PROVE  Leased(Release(run, state)) /\ Release(run, state).state = state
BY DEF Release, RunType, Leased

\* cancel_task() of an active task, whose authoritative run is active or was
\* just failed by fail_run(), leaves a well-shaped row.
LEMMA CancelledShape ==
    ASSUME NEW r \in Row, NEW at \in Nat, r.state \in Active,
           \A a \in Attempts : Leased(r.runs[a]),
           History(r), Current(r).state \in Active \cup {"failed"}
    PROVE  RowShape(Cancelled(r, at))
<1>. DEFINE c == Cancelled(r, at)
<1>1. \A a \in Attempts : r.runs[a] \in RunType
  BY DEF Row
<1>2. /\ c.state = "cancelled"
      /\ c.last = r.last /\ c.attempts = r.attempts /\ c.req = r.req
      /\ c.max_attempts = r.max_attempts
      /\ \A a \in Attempts : c.runs[a] = IF r.runs[a].state \in Active
                                         THEN Release(r.runs[a], "cancelled")
                                         ELSE r.runs[a]
  BY DEF Cancelled, Row, Active, Terminal
<1>3. \A a \in Attempts : Leased(c.runs[a])
  BY <1>1, <1>2, ReleaseLeased
<1>4. Current(c).state \in {"cancelled", "failed"}
  BY <1>1, <1>2, ReleaseLeased DEF Current, Row, Active
<1>5. History(c)
  BY <1>2 DEF History, NoRun, Active
<1>. QED
  BY <1>2, <1>3, <1>4, <1>5 DEF RowShape, Live, Authoritative

\* The current run is rewritten and the task follows it: how complete, sleep,
\* claim, renewal and the last failure keep the shape.
LEMMA RewrittenShape ==
    ASSUME NEW r \in Row, NEW c, RowShape(r), Live(r),
           NEW run, Leased(run), run.state # "cancelled", run.state \in Active \cup Terminal,
           c.state = run.state, c.last = r.last, c.attempts = r.attempts,
           c.req = r.req, c.max_attempts = r.max_attempts,
           \A b \in Attempts : c.runs[b] = IF b = r.last THEN run ELSE r.runs[b]
    PROVE  RowShape(c)
<1>1. History(r) /\ r.last \in Attempts /\ \A b \in Attempts : Leased(r.runs[b])
  BY DEF RowShape, Row
<1>2. History(c)
  BY <1>1 DEF History, Attempts
<1>3. Authoritative(c) /\ Live(c)
  BY <1>1 DEF Authoritative, Current, Live, Active, Terminal
<1>. QED
  BY <1>1, <1>2, <1>3 DEF RowShape

\* A due deadline cancels an owned run's task into a well-shaped row.
LEMMA DueShape ==
    ASSUME NEW r \in Row, NEW a \in Attempts, NEW at \in Nat, RowShape(r), Owned(r, a)
    PROVE  RowShape(Cancelled(r, at))
BY CancelledShape DEF RowShape, Live, Owned, Active, Current

\* complete_run() of an owned run keeps the shape.
LEMMA CompletedShape ==
    ASSUME NEW r \in Row, NEW a \in Attempts, NEW at \in Nat, RowShape(r), Owned(r, a)
    PROVE  RowShape(Completed(r, a, at))
<1>. DEFINE run == [Release(r.runs[a], "completed") EXCEPT !.ended_at = at]
            c == [r EXCEPT !.state = "completed", !.last = a, !.runs[a] = run]
<1>1. Leased(run) /\ run.state = "completed"
  BY DEF Release, Row, RunType, Leased
<1>2. RowShape(c)
  <2>. HIDE DEF run
  <2>1. /\ c.state = run.state /\ c.last = r.last /\ c.attempts = r.attempts
        /\ c.req = r.req /\ c.max_attempts = r.max_attempts
        /\ \A b \in Attempts : c.runs[b] = IF b = r.last THEN run ELSE r.runs[b]
    BY <1>1 DEF Row, Owned
  <2>. HIDE DEF c
  <2>. QED BY <2>1, <1>1, RewrittenShape DEF Terminal, Live, Owned
<1>. QED
  BY <1>2, DueShape DEF Completed

\* schedule_run() of an owned run keeps the shape.
LEMMA ScheduledShape ==
    ASSUME NEW r \in Row, NEW a \in Attempts, NEW wake \in Nat, NEW at \in Nat,
           RowShape(r), Owned(r, a)
    PROVE  RowShape(Scheduled(r, a, wake, at))
<1>. DEFINE run == [Release(r.runs[a], "sleeping") EXCEPT !.available_at = wake]
            c == [r EXCEPT !.state = "sleeping", !.runs[a] = run]
<1>1. Leased(run) /\ run.state = "sleeping"
  BY DEF Release, Row, RunType, Leased
<1>2. RowShape(c)
  <2>. HIDE DEF run
  <2>1. /\ c.state = run.state /\ c.last = r.last /\ c.attempts = r.attempts
        /\ c.req = r.req /\ c.max_attempts = r.max_attempts
        /\ \A b \in Attempts : c.runs[b] = IF b = r.last THEN run ELSE r.runs[b]
    BY <1>1 DEF Row, Owned
  <2>. HIDE DEF c
  <2>. QED BY <2>1, <1>1, RewrittenShape DEF Active, Live, Owned
<1>. QED
  BY <1>2, DueShape DEF Scheduled

\* fail_run() of an owned run keeps the shape: the retry takes the first free
\* attempt number, or the task ends.
LEMMA FailedShape ==
    ASSUME NEW r \in Row, NEW a \in Attempts, NEW at \in Nat,
           NEW reason \in {"error", "lease_expired"}, RowShape(r), Owned(r, a)
    PROVE  RowShape(Failed(r, a, reason, at))
<1>. DEFINE run == [Release(r.runs[a], "failed") EXCEPT !.ended_at = at, !.reason = reason]
            failed == RunFailed(r, a, reason, at)
            available_at == at + r.req.delay[a]
            state == IF available_at > at THEN "sleeping" ELSE "pending"
<1>1. Leased(run) /\ run.state = "failed"
  BY DEF Release, Row, RunType, Leased
<1>2. /\ failed.state = "running" /\ failed.last = a /\ failed.attempts = r.attempts
      /\ failed.req = r.req /\ failed.max_attempts = r.max_attempts
      /\ \A b \in Attempts : failed.runs[b] = IF b = a THEN run ELSE r.runs[b]
  <2>. HIDE DEF run
  <2>. QED BY DEF RunFailed, Row, Owned, run
<1>3. failed \in Row
  BY RunFailedTyped
<1>4. History(r) /\ \A b \in Attempts : Leased(r.runs[b])
  BY DEF RowShape, Live, Owned
<1>5. History(failed) /\ (\A b \in Attempts : Leased(failed.runs[b]))
        /\ Current(failed).state = "failed"
  <2>. HIDE DEF failed, run
  <2>. QED BY <1>1, <1>2, <1>4 DEF History, Owned, Current, Attempts
<1>6. RowShape(Cancelled(failed, at))
  <2>. HIDE DEF failed
  <2>. QED BY <1>2, <1>3, <1>5, CancelledShape DEF Active
<1>7. RowShape([failed EXCEPT !.state = "failed", !.attempts = LargerOf(@, a), !.last = a])
  <2>. DEFINE c == [failed EXCEPT !.state = "failed", !.attempts = LargerOf(@, a), !.last = a]
  <2>1. LargerOf(failed.attempts, a) = r.attempts
    BY <1>2, <1>4 DEF History, Owned, LargerOf, Attempts
  <2>2. /\ c.state = run.state /\ c.last = r.last /\ c.attempts = r.attempts
        /\ c.req = r.req /\ c.max_attempts = r.max_attempts
        /\ \A b \in Attempts : c.runs[b] = IF b = r.last THEN run ELSE r.runs[b]
    <3>. HIDE DEF failed, run
    <3>. QED BY <1>1, <1>2, <1>3, <2>1 DEF Row, Owned
  <2>. HIDE DEF c, run
  <2>3. RowShape(c)
    BY <2>2, <1>1, RewrittenShape DEF Terminal, Live, Owned
  <2>. QED BY <2>3 DEF c
<1>8. ASSUME HasRetry(r, a)
      PROVE  RowShape(RetryInserted(failed, a + 1, state, available_at))
  <2>. DEFINE c == RetryInserted(failed, a + 1, state, available_at)
              new == NewRun(state, available_at)
  <2>1. a + 1 \in Attempts /\ a + 1 <= r.max_attempts /\ r.attempts = a
    BY <1>8, <1>4, BoundsAssumption DEF HasRetry, Row, Attempts, History, Owned
  <2>2. Leased(new) /\ new.state = state /\ state \in {"pending", "sleeping"}
    <3>. HIDE DEF available_at
    <3>. QED BY NewRunLeased
  <2>3. /\ c.state = state /\ c.last = a + 1 /\ c.attempts = a + 1
        /\ c.req = r.req /\ c.max_attempts = r.max_attempts
        /\ \A b \in Attempts : c.runs[b] = IF b = a + 1 THEN new ELSE failed.runs[b]
    <3>. HIDE DEF failed, new, state, available_at
    <3>1. LargerOf(failed.attempts, a + 1) = a + 1
      BY <1>2, <2>1 DEF LargerOf, Attempts
    <3>. QED BY <3>1, <1>2, <1>3, <2>1 DEF RetryInserted, Row, new
  <2>. HIDE DEF c, new, state, failed, run
  <2>4. History(c)
    <3>1. c.max_attempts = LargerOf(c.req.max_attempts, c.attempts)
      <4>1. r.req.max_attempts \in Attempts /\ r.max_attempts \in Attempts
        BY RequestTyped DEF Row, RequestType
      <4>. QED BY <4>1, <2>1, <2>3, <1>4 DEF History, LargerOf, Attempts
    <3>2. \A b \in Attempts : b < a + 1 => c.runs[b].state = "failed"
      BY <2>3, <1>1, <1>2, <1>4 DEF History, Owned, Attempts
    <3>3. \A b \in Attempts : b > a + 1 => c.runs[b] = NoRun
      BY <2>3, <1>2, <1>4 DEF History, Owned, Attempts
    <3>. QED BY <3>1, <3>2, <3>3, <2>3 DEF History
  <2>5. RowShape(c)
    BY <2>1, <2>2, <2>3, <2>4, <1>5 DEF RowShape, Live, Authoritative, Current
  <2>. QED BY <2>5 DEF c
<1>. QED
  BY <1>6, <1>7, <1>8, DueShape DEF Failed

\* retry_task() of a failed task takes the first free attempt number.
LEMMA RetriedShape ==
    ASSUME NEW r \in Row, NEW at \in Nat, RowShape(r), r.state = "failed",
           r.attempts < MaxAttempt
    PROVE  RowShape(Retried(r, at))
<1>. DEFINE c == Retried(r, at)
            next == r.attempts + 1
            new == NewRun("pending", at)
<1>1. History(r) /\ r.runs[r.last].state = "failed" /\ \A b \in Attempts : Leased(r.runs[b])
  BY DEF RowShape, Live, Authoritative, Current
<1>2. next \in Attempts
  BY BoundsAssumption DEF Row, Attempts
<1>3. Leased(new) /\ new.state = "pending"
  BY NewRunLeased
<1>4. /\ c.state = "pending" /\ c.last = next /\ c.attempts = next /\ c.req = r.req
      /\ c.max_attempts = LargerOf(r.max_attempts, next)
      /\ \A b \in Attempts : c.runs[b] = IF b = next THEN new ELSE r.runs[b]
  <2>. HIDE DEF new
  <2>1. c = [r EXCEPT !.state = "pending", !.attempts = next,
                      !.max_attempts = LargerOf(@, next), !.last = next,
                      !.cancelled_at = Null, !.runs[next] = new]
    BY DEF Retried, new
  <2>. HIDE DEF c, next
  <2>2. c.runs = [r.runs EXCEPT ![next] = new]
    BY <2>1 DEF Row
  <2>3. \A b \in Attempts : c.runs[b] = IF b = next THEN new ELSE r.runs[b]
    BY <2>2, <1>2 DEF Row
  <2>4. /\ c.state = "pending" /\ c.last = next /\ c.attempts = next /\ c.req = r.req
        /\ c.max_attempts = LargerOf(r.max_attempts, next)
    BY <2>1 DEF Row
  <2>. QED BY <2>3, <2>4
<1>. HIDE DEF c, new
<1>5. History(c)
  <2>1. r.req.max_attempts \in Attempts /\ r.max_attempts \in Attempts
    BY RequestTyped DEF Row, RequestType
  <2>2. c.max_attempts = LargerOf(c.req.max_attempts, c.attempts)
    BY <2>1, <1>1, <1>2, <1>4 DEF History, LargerOf, Attempts
  <2>3. \A b \in Attempts : /\ b < next => b < r.last \/ b = r.last
                            /\ b > next => b > r.last
                            /\ b # next \/ ~(b < next)
    BY <1>1 DEF History, Row, Attempts
  <2>. HIDE DEF next
  <2>. QED BY <2>2, <2>3, <1>1, <1>4 DEF History
<1>6. RowShape(c)
  BY <1>1, <1>2, <1>3, <1>4, <1>5 DEF RowShape, Live, Authoritative, Current
<1>. QED BY <1>6 DEF c

\* A claimed run becomes the leased, authoritative one.
LEMMA ClaimedShape ==
    ASSUME NEW r \in Row, NEW w \in Workers, NEW at \in Nat, RowShape(r), Live(r)
    PROVE  RowShape(Claimed(r, w, at))
<1>. DEFINE c == Claimed(r, w, at)
            run == [r.runs[r.last] EXCEPT !.state = "running", !.claimed_by = w,
                                          !.claim_expires_at = at + Lease,
                                          !.available_at = at]
<1>1. Leased(run) /\ run.state = "running"
  <2>1. r.runs[r.last] \in RunType
    BY DEF Row
  <2>2. w # NoWorker /\ at + Lease # Null
    BY ValuesAssumption, PolicyAssumption DEF Null
  <2>. QED BY <2>1, <2>2 DEF RunType, Leased
<1>2. LargerOf(r.attempts, r.last) = r.attempts
  BY DEF RowShape, History, LargerOf, Row, Attempts
<1>3. /\ c.state = run.state /\ c.last = r.last /\ c.attempts = r.attempts
      /\ c.req = r.req /\ c.max_attempts = r.max_attempts
      /\ \A b \in Attempts : c.runs[b] = IF b = r.last THEN run ELSE r.runs[b]
  <2>1. c.state = "running" /\ c.last = r.last /\ c.attempts = LargerOf(r.attempts, r.last)
          /\ c.req = r.req /\ c.max_attempts = r.max_attempts
    BY DEF Claimed, Row
  <2>2. \A b \in Attempts : c.runs[b] = IF b = r.last THEN run ELSE r.runs[b]
    BY DEF Claimed, Row
  <2>. HIDE DEF c, run
  <2>. QED BY <2>1, <2>2, <1>1, <1>2
<1>. HIDE DEF run, c
<1>4. RowShape(c)
  BY <1>1, <1>3, RewrittenShape DEF Active
<1>. QED BY <1>4 DEF c

\* A new task has the shape.
LEMMA SpawnedShape ==
    ASSUME NEW req \in Requests, NEW at \in Nat
    PROVE  RowShape(Spawned(req, at))
<1>. DEFINE c == Spawned(req, at)
            new == NewRun("pending", at)
<1>1. Leased(new) /\ new.state = "pending" /\ Leased(NoRun)
  BY NewRunLeased, NoRunLeased
<1>2. 1 \in Attempts /\ req.max_attempts \in Attempts
  BY RequestTyped, BoundsAssumption DEF RequestType, Attempts
<1>3. /\ c.state = "pending" /\ c.last = 1 /\ c.attempts = 1 /\ c.req = req
      /\ c.max_attempts = req.max_attempts
      /\ \A b \in Attempts : c.runs[b] = IF b = 1 THEN new ELSE NoRun
  <2>. HIDE DEF new
  <2>. QED BY <1>2 DEF Spawned, NoTask, new
<1>. HIDE DEF c, new
<1>4. History(c)
  BY <1>2, <1>3 DEF History, LargerOf, Attempts
<1>5. RowShape(c)
  BY <1>1, <1>2, <1>3, <1>4 DEF RowShape, Live, Authoritative, Current
<1>. QED BY <1>5 DEF c

\* The reaper only meets owned runs.
LEMMA ReapedShape ==
    ASSUME NEW r \in Row, NEW at \in Nat, RowShape(r), LeaseExpired(r, at)
    PROVE  RowShape(Reaped(r, at)) /\ Live(r)
<1>1. Live(r)
  BY DEF LeaseExpired, RowShape, Current, NoRun, Row
<1>2. Owned(r, r.last) /\ r.last \in Attempts
  BY <1>1 DEF LeaseExpired, RowShape, Authoritative, Current, Owned, Row
<1>. QED BY <1>1, <1>2, FailedShape DEF Reaped

\* supervise_run() of an owned run keeps the shape.
LEMMA SupervisedShape ==
    ASSUME NEW r \in Row, NEW a \in Attempts, NEW renew \in BOOLEAN, NEW at \in Nat,
           RowShape(r), Owned(r, a)
    PROVE  RowShape(Supervised(r, a, renew, at))
<1>. DEFINE lease == LargerOf(r.runs[a].claim_expires_at, at + Lease)
            run == [r.runs[a] EXCEPT !.claim_expires_at = lease]
            c == [r EXCEPT !.runs[a].claim_expires_at = lease]
<1>1. lease \in Nat
  BY PolicyAssumption DEF Row, RunType, LargerOf, OrNull, Null
<1>2. Leased(run) /\ run.state = "running"
  <2>. HIDE DEF lease
  <2>1. r.runs[a] \in RunType /\ Leased(r.runs[a]) /\ r.runs[a].state = "running"
    BY DEF Row, RowShape, Owned
  <2>. QED BY <1>1, <2>1 DEF RunType, Leased, Null
<1>3. RowShape(c)
  <2>1. /\ c.state = "running" /\ c.last = r.last /\ c.attempts = r.attempts
        /\ c.req = r.req /\ c.max_attempts = r.max_attempts
        /\ \A b \in Attempts : c.runs[b] = IF b = r.last THEN run ELSE r.runs[b]
    <3>. HIDE DEF lease
    <3>. QED BY DEF Row, Owned
  <2>. HIDE DEF c, run
  <2>. QED BY <2>1, <1>2, RewrittenShape DEF Active, Live, Owned
<1>. QED
  BY <1>3, DueShape, ReapedShape DEF Supervised

\* A call that lock_running_attempt() lets through addresses an owned run.
LEMMA FencedOwned ==
    ASSUME NEW t \in Tasks, NEW a \in Attempts, TypeOK, Fenced(t, a)
    PROVE  Owned(tasks[t], a)
<1>1. tasks[t] \in Row /\ tasks[t].runs[a].state \in Active \cup Terminal \cup {"absent"}
  BY DEF TypeOK, Row, RunType
<1>. QED
  BY <1>1 DEF Fenced, LockRunningAttempt, Owned, Active, Terminal

\* The three passes of claim_tasks() keep the shape of every row.
LEMMA PassesShape ==
    ASSUME NEW rows \in [Tasks -> Row], NEW batch \in SUBSET Tasks,
           NEW w \in Workers, now \in Nat,
           \A t \in Tasks : RowShape(rows[t])
    PROVE  /\ batch \subseteq ExpiredTasks(rows)
                => \A t \in Tasks : RowShape(CancelPass(rows, batch)[t])
           /\ batch \subseteq ExpiredRuns(rows)
                => \A t \in Tasks : RowShape(ReapPass(rows, batch)[t])
           /\ (\A t \in batch : Live(rows[t]))
                => \A t \in Tasks : RowShape(ClaimPass(rows, batch, w)[t])
<1>1. ASSUME batch \subseteq ExpiredTasks(rows), NEW t \in batch
      PROVE  RowShape(Cancelled(rows[t], now))
  <2>1. rows[t] \in Row /\ rows[t].state \in Active /\ Current(rows[t]).state \in Active
    BY <1>1 DEF ExpiredTasks
  <2>2. Live(rows[t])
    BY <2>1 DEF Live, Active
  <2>. QED BY <2>1, <2>2, CancelledShape DEF RowShape
<1>2. ASSUME batch \subseteq ExpiredRuns(rows), NEW t \in batch
      PROVE  RowShape(Reaped(rows[t], now))
  BY <1>2, ReapedShape DEF ExpiredRuns
<1>3. ASSUME \A t \in batch : Live(rows[t]), NEW t \in batch
      PROVE  RowShape(Claimed(rows[t], w, now))
  BY <1>3, ClaimedShape
<1>. QED
  BY <1>1, <1>2, <1>3 DEF CancelPass, ReapPass, ClaimPass

\* A task that is not there has the shape.
LEMMA NoTaskShape ==
    ASSUME NEW state \in {"absent", "deleted"}
    PROVE  RowShape(NoTask(state))
BY NoRunLeased DEF RowShape, NoTask, Live

\* Writing a well-shaped row keeps the invariant.
LEMMA UpdateShape ==
    ASSUME ShapeInv, NEW t \in Tasks, NEW row, RowShape(row), Update(t, row), TypeOK'
    PROVE  ShapeInv'
BY DEF ShapeInv, TypeOK, Update

\* Every action keeps the shape of every task's rows.
LEMMA ShapeStep ==
    ASSUME ShapeInv, [Next]_vars
    PROVE  ShapeInv'
<1>. TypeOK'
  BY TypeStep DEF ShapeInv
<1>. USE BoundsAssumption
<1>1. now \in Nat /\ tasks \in [Tasks -> Row] /\ TypeOK
        /\ \A t \in Tasks : tasks[t] \in Row /\ RowShape(tasks[t])
  BY DEF ShapeInv, TypeOK
<1>2. ASSUME NEW t \in Tasks, NEW req \in Requests, SpawnTask(t, req)
      PROVE  ShapeInv'
  BY <1>1, <1>2, SpawnedShape, UpdateShape DEF SpawnTask
<1>3. ASSUME NEW t \in Tasks, NEW a \in Attempts, CompleteRun(t, a)
      PROVE  ShapeInv'
  BY <1>1, <1>3, FencedOwned, CompletedShape, UpdateShape DEF CompleteRun
<1>4. ASSUME NEW t \in Tasks, NEW a \in Attempts, NEW wake \in 0 .. MaxWake,
             ScheduleRun(t, a, wake)
      PROVE  ShapeInv'
  BY <1>1, <1>4, FencedOwned, ScheduledShape, UpdateShape DEF ScheduleRun
<1>5. ASSUME NEW t \in Tasks, NEW a \in Attempts, FailRun(t, a)
      PROVE  ShapeInv'
  BY <1>1, <1>5, FencedOwned, FailedShape, UpdateShape DEF FailRun
<1>6. ASSUME NEW t \in Tasks, NEW a \in Attempts, NEW renew \in BOOLEAN,
             SuperviseRun(t, a, renew)
      PROVE  ShapeInv'
  BY <1>1, <1>6, SupervisedShape, UpdateShape DEF SuperviseRun, Owned
<1>7. ASSUME NEW t \in Tasks, NEW a \in Attempts, NEW step \in Steps, NEW value \in Values,
             SetCheckpoint(t, a, step, value)
      PROVE  ShapeInv'
  <2>. DEFINE r == tasks[t]
              c == [r EXCEPT !.checkpoints[step] = value]
  <2>1. /\ c.state = r.state /\ c.last = r.last /\ c.attempts = r.attempts
        /\ c.req = r.req /\ c.max_attempts = r.max_attempts /\ c.runs = r.runs
    BY <1>1 DEF Row
  <2>2. RowShape(c)
    BY <2>1, <1>1 DEF RowShape, History, Authoritative, Live, Current
  <2>. QED BY <2>2, <1>1, <1>7, UpdateShape DEF SetCheckpoint
<1>8. ASSUME NEW t \in Tasks, NEW at \in ReadBefore(t), CancelTask(t, at) \/ RetryTask(t, at)
      PROVE  ShapeInv'
  <2>1. at \in Nat
    BY <1>8 DEF ReadBefore
  <2>2. CASE CancelTask(t, at)
    <3>1. RowShape(Cancelled(tasks[t], at))
      <4>1. CASE tasks[t].state \in Terminal
        BY <4>1, <1>1 DEF Cancelled
      <4>2. CASE tasks[t].state \notin Terminal
        <5>1. tasks[t].state \in Active
          BY <4>2, <2>2, <1>1 DEF CancelTask, Live, Row
        <5>. QED BY <5>1, <2>1, <2>2, <1>1, CancelledShape
                 DEF CancelTask, RowShape, Authoritative, Active
      <4>. QED BY <4>1, <4>2
    <3>. QED BY <3>1, <2>2, <1>1, UpdateShape DEF CancelTask
  <2>3. CASE RetryTask(t, at)
    BY <2>1, <2>3, <1>1, RetriedShape, UpdateShape DEF RetryTask
  <2>. QED BY <2>2, <2>3, <1>8
<1>9. ASSUME NEW w \in Workers, NEW names \in SUBSET Names, NEW quantity \in 1 .. BatchLimit,
             ClaimTasks(w, names, quantity)
      PROVE  ShapeInv'
  <2>. DEFINE cancelled(cancel) == CancelPass(tasks, cancel)
              reaped(cancel, reap) == ReapPass(cancelled(cancel), reap)
  <2>1. PICK cancel \in SUBSET Tasks, reap \in SUBSET Tasks, claim \in SUBSET Tasks :
          /\ cancel \subseteq ExpiredTasks(tasks)
          /\ reap \subseteq ExpiredRuns(cancelled(cancel))
          /\ claim \subseteq ClaimableTasks(reaped(cancel, reap), names)
          /\ tasks' = ClaimPass(reaped(cancel, reap), claim, w)
    BY <1>9 DEF ClaimTasks, Batches, ExpiredTasks, ExpiredRuns, ClaimableTasks
  <2>2. cancelled(cancel) \in [Tasks -> Row] /\ \A t \in Tasks : RowShape(cancelled(cancel)[t])
    BY <2>1, <1>1, PassesTyped, PassesShape
  <2>. HIDE DEF cancelled
  <2>3. /\ reaped(cancel, reap) \in [Tasks -> Row]
        /\ \A t \in Tasks : RowShape(reaped(cancel, reap)[t])
    BY <2>1, <2>2, <1>1, PassesTyped, PassesShape
  <2>. HIDE DEF reaped
  <2>4. \A t \in claim : Live(reaped(cancel, reap)[t])
    BY <2>1 DEF ClaimableTasks, Claimable, Live
  <2>5. \A t \in Tasks : RowShape(tasks'[t])
    BY <2>1, <2>3, <2>4, <1>1, PassesShape
  <2>. QED BY <2>5 DEF ShapeInv
<1>10. ASSUME CleanupTasks
       PROVE  ShapeInv'
  BY <1>10, <1>1, NoTaskShape DEF CleanupTasks, ShapeInv
<1>11. ASSUME Tick
       PROVE  ShapeInv'
  BY <1>11, <1>1 DEF Tick, ShapeInv
<1>12. CASE UNCHANGED vars
  BY <1>12, <1>1 DEF vars, ShapeInv
<1>. QED
  BY <1>2, <1>3, <1>4, <1>5, <1>6, <1>7, <1>8, <1>9, <1>10, <1>11, <1>12 DEF Next

\* The inductive invariant of the queue.
LEMMA ShapeInductive == Spec => []ShapeInv
<1>1. Init => ShapeInv
  BY NoTaskTyped, NoTaskShape, BoundsAssumption DEF Init, TypeOK, ShapeInv
<1>. QED
  BY <1>1, ShapeStep, PTL DEF Spec

\* A task has at most one active run, the one last_attempt_run names, and they
\* agree on their state: no exception about a run that is not authoritative can
\* be raised on behalf of the run's own worker or of the reaper.
THEOREM AuthoritativeRunHolds == Spec => []AuthoritativeRun
<1>1. ShapeInv => AuthoritativeRun
  <2>. SUFFICES ASSUME ShapeInv, NEW t \in Tasks, Live(tasks[t])
                PROVE  /\ tasks[t].state # "cancelled" => Current(tasks[t]).state = tasks[t].state
                       /\ tasks[t].state = "cancelled"
                            => Current(tasks[t]).state \in {"cancelled", "failed"}
                       /\ \A a \in Attempts : a # tasks[t].last
                            => tasks[t].runs[a].state \in {"absent", "failed"}
    BY DEF AuthoritativeRun
  <2>1. tasks[t] \in Row /\ History(tasks[t]) /\ Authoritative(tasks[t])
    BY DEF ShapeInv, RowShape, TypeOK
  <2>2. \A a \in Attempts : a # tasks[t].last => a < tasks[t].last \/ a > tasks[t].last
    BY <2>1 DEF Row, Attempts
  <2>. QED BY <2>1, <2>2 DEF History, Authoritative, NoRun
<1>. QED BY <1>1, ShapeInductive, PTL

\* Attempts are numbered 1, 2, ... without gaps or repetitions and only manual
\* retries extend the submitted budget.
THEOREM AttemptHistoryHolds == Spec => []AttemptHistory
<1>1. ShapeInv => AttemptHistory
  BY DEF ShapeInv, RowShape, History, AttemptHistory
<1>. QED BY <1>1, ShapeInductive, PTL

\* The schema's claim CHECK can never fail: a run holds a lease exactly while it
\* is running.
THEOREM LeaseIffRunningHolds == Spec => []LeaseIffRunning
<1>1. ShapeInv => LeaseIffRunning
  BY DEF ShapeInv, RowShape, Leased, LeaseIffRunning
<1>. QED BY <1>1, ShapeInductive, PTL

-----------------------------------------------------------------------------
(* What one step may do to one task.                                       *)

\* The lease of an attempt ran out.
Expired(r, a, at) == r.runs[a].claim_expires_at <= at

Renewed(r, a, at) == [r EXCEPT !.runs[a].claim_expires_at = LargerOf(@, at + Lease)]

Checkpointed(r, step, value) == [r EXCEPT !.checkpoints[step] = value]

\* A checkpoint is written under a name that has none.
FirstWrite(r, c) ==
    \E step \in Steps, value \in Values :
        r.checkpoints[step] = NoValue /\ c = Checkpointed(r, step, value)

\* A worker's own call, under a lease that holds and a deadline that is not due.
OwnerStep(r, c, a, at) ==
    /\ Owned(r, a) /\ ~Expired(r, a, at) /\ ~CancellationDue(r, at)
    /\ \/ c = Completed(r, a, at)
       \/ \E wake \in Nat : ~CancellationDue(r, wake) /\ wake > at /\ c = Scheduled(r, a, wake, at)
       \/ FirstWrite(r, c)
       \/ c = Renewed(r, a, at)

\* fail_run(), by the owner or, once the lease ran out, by the reaper.
FailStep(r, c, a, at) ==
    /\ Owned(r, a) /\ ~CancellationDue(r, at)
    /\ c = Failed(r, a, IF Expired(r, a, at) THEN "lease_expired" ELSE "error", at)

CancelStep(r, c, at) == r.state \in Active /\ \E read \in 0 .. at : c = Cancelled(r, read)

RetryStep(r, c, at) ==
    /\ r.state = "failed" /\ r.attempts < MaxAttempt
    /\ \E read \in 0 .. at : ~CancellationDue(r, read) /\ c = Retried(r, read)

ClaimStep(r, c, at) ==
    \E w \in Workers, names \in SUBSET Names : Claimable(r, names, at) /\ c = Claimed(r, w, at)

SpawnStep(r, c, at) ==
    r.state = "absent" /\ \E req \in Requests, read \in 0 .. at : c = Spawned(req, read)

\* One claim may reap a run and claim the retry it inserted.
ReclaimStep(r, c, a, at) ==
    /\ Expired(r, a, at)
    /\ \E mid \in Row : FailStep(r, mid, a, at) /\ RowShape(mid) /\ ClaimStep(mid, c, at)

\* What claim_tasks() does to a task.
ClaimRow(r, c, at) ==
    \/ c = r
    \/ CancelStep(r, c, at)
    \/ ClaimStep(r, c, at)
    \/ \E a \in Attempts : \/ Expired(r, a, at) /\ FailStep(r, c, a, at)
                          \/ ReclaimStep(r, c, a, at)

RowNext(r, c, at) ==
    \/ ClaimRow(r, c, at)
    \/ SpawnStep(r, c, at)
    \/ RetryStep(r, c, at)
    \/ \E a \in Attempts : OwnerStep(r, c, a, at) \/ FailStep(r, c, a, at)
    \/ r.state \in Terminal /\ TerminalAt(r) # Null /\ TerminalAt(r) <= at - Ttl /\ c = NoTask("deleted")

\* What lock_running_attempt() guarantees of a call it lets through.
LEMMA FencedUnexpired ==
    ASSUME NEW t \in Tasks, NEW a \in Attempts, TypeOK, Fenced(t, a)
    PROVE  Owned(tasks[t], a) /\ ~Expired(tasks[t], a, now)
<1>1. tasks[t] \in Row /\ tasks[t].runs[a].state \in Active \cup Terminal \cup {"absent"}
  BY DEF TypeOK, Row, RunType
<1>. QED
  BY <1>1, FencedOwned DEF Fenced, LockRunningAttempt, Owned, Expired

\* An expired lease belongs to the owned run.
LEMMA LeaseExpiredOwned ==
    ASSUME NEW r \in Row, NEW at \in Nat, RowShape(r), LeaseExpired(r, at)
    PROVE  Owned(r, r.last) /\ r.last \in Attempts /\ Expired(r, r.last, at)
<1>1. Live(r)
  BY DEF LeaseExpired, RowShape, Current, NoRun, Row
<1>. QED
  BY <1>1 DEF LeaseExpired, RowShape, Authoritative, Current, Owned, Row, Expired

\* An owned run whose deadline is due is cancelled by whichever function of the
\* attempt comes first.
LEMMA DueIsCancelStep ==
    ASSUME NEW r \in Row, NEW a \in Attempts, NEW at \in Nat, Owned(r, a)
    PROVE  CancelStep(r, Cancelled(r, at), at)
BY DEF CancelStep, Owned, Active

\* Reaping is one step of the row.
LEMMA ReapedStep ==
    ASSUME NEW r \in Row, NEW at \in Nat, RowShape(r), LeaseExpired(r, at)
    PROVE  IF CancellationDue(r, at)
           THEN CancelStep(r, Reaped(r, at), at)
           ELSE FailStep(r, Reaped(r, at), r.last, at)
<1>1. Owned(r, r.last) /\ r.last \in Attempts /\ Expired(r, r.last, at)
  BY LeaseExpiredOwned
<1>2. CASE CancellationDue(r, at)
  <2>1. Reaped(r, at) = Cancelled(r, at)
    BY <1>2 DEF Reaped, Failed
  <2>. QED BY <1>1, <1>2, <2>1, DueIsCancelStep
<1>3. CASE ~CancellationDue(r, at)
  BY <1>1, <1>3 DEF FailStep, Reaped
<1>. QED BY <1>2, <1>3

-----------------------------------------------------------------------------
(* The fields the row operators write, and the ones they keep.             *)

\* What no function but spawn_task() and the cleanup writes.
Kept(r, c) == c.req = r.req /\ c.enqueue_at = r.enqueue_at

\* cancel_task() of an active task.
LEMMA CancelledFields ==
    ASSUME NEW r \in Row, NEW at, r.state \in Active
    PROVE  LET c == Cancelled(r, at)
           IN  /\ c.state = "cancelled" /\ Kept(r, c) /\ c.last = r.last
               /\ c.attempts = r.attempts /\ c.max_attempts = r.max_attempts
               /\ c.first_started_at = r.first_started_at /\ c.checkpoints = r.checkpoints
               /\ \A a \in Attempts : c.runs[a] = IF r.runs[a].state \in Active
                                                  THEN Release(r.runs[a], "cancelled")
                                                  ELSE r.runs[a]
BY DEF Cancelled, Row, Active, Terminal, Kept

\* What releasing a run keeps.
LEMMA ReleaseFields ==
    ASSUME NEW run \in RunType, NEW state
    PROVE  /\ Release(run, state).state = state
           /\ Release(run, state).reason = run.reason
           /\ Release(run, state).ended_at = run.ended_at
           /\ Release(run, state).available_at = run.available_at
BY DEF Release, RunType

\* complete_run() before the deadline.
LEMMA CompletedFields ==
    ASSUME NEW r \in Row, NEW a \in Attempts, NEW at \in Nat, Owned(r, a), ~CancellationDue(r, at)
    PROVE  LET c == Completed(r, a, at)
           IN  /\ c.state = "completed" /\ Kept(r, c) /\ c.last = a
               /\ c.attempts = r.attempts /\ c.max_attempts = r.max_attempts
               /\ c.first_started_at = r.first_started_at /\ c.checkpoints = r.checkpoints
               /\ c.runs[a].state = "completed" /\ c.runs[a].reason = r.runs[a].reason
               /\ c.runs[a].ended_at = at
               /\ \A b \in Attempts \ {a} : c.runs[b] = r.runs[b]
<1>. DEFINE run == [Release(r.runs[a], "completed") EXCEPT !.ended_at = at]
            c == [r EXCEPT !.state = "completed", !.last = a, !.runs[a] = run]
<1>1. run.state = "completed" /\ run.reason = r.runs[a].reason /\ run.ended_at = at
  BY DEF Release, Row, RunType
<1>2. Completed(r, a, at) = c
  BY DEF Completed
<1>3. /\ c.state = "completed" /\ Kept(r, c) /\ c.last = a
      /\ c.attempts = r.attempts /\ c.max_attempts = r.max_attempts
      /\ c.first_started_at = r.first_started_at /\ c.checkpoints = r.checkpoints
      /\ c.runs[a] = run
      /\ \A b \in Attempts \ {a} : c.runs[b] = r.runs[b]
  <2>. HIDE DEF run
  <2>. QED BY DEF Row, Kept
<1>. HIDE DEF c, run
<1>. QED BY <1>1, <1>2, <1>3

\* schedule_run() of a wake time in the future and before the deadline.
LEMMA ScheduledFields ==
    ASSUME NEW r \in Row, NEW a \in Attempts, NEW wake \in Nat, NEW at \in Nat, Owned(r, a),
           ~CancellationDue(r, at), ~CancellationDue(r, wake), wake > at
    PROVE  LET c == Scheduled(r, a, wake, at)
           IN  /\ c.state = "sleeping" /\ Kept(r, c) /\ c.last = a
               /\ c.attempts = r.attempts /\ c.max_attempts = r.max_attempts
               /\ c.first_started_at = r.first_started_at /\ c.checkpoints = r.checkpoints
               /\ c.runs[a].state = "sleeping" /\ c.runs[a].reason = r.runs[a].reason
               /\ c.runs[a].available_at = wake
               /\ \A b \in Attempts \ {a} : c.runs[b] = r.runs[b]
<1>. DEFINE run == [Release(r.runs[a], "sleeping") EXCEPT !.available_at = wake]
            c == [r EXCEPT !.state = "sleeping", !.runs[a] = run]
<1>1. run.state = "sleeping" /\ run.reason = r.runs[a].reason /\ run.available_at = wake
  BY DEF Release, Row, RunType
<1>2. Scheduled(r, a, wake, at) = c
  BY DEF Scheduled
<1>3. /\ c.state = "sleeping" /\ Kept(r, c) /\ c.last = a
      /\ c.attempts = r.attempts /\ c.max_attempts = r.max_attempts
      /\ c.first_started_at = r.first_started_at /\ c.checkpoints = r.checkpoints
      /\ c.runs[a] = run
      /\ \A b \in Attempts \ {a} : c.runs[b] = r.runs[b]
  <2>. HIDE DEF run
  <2>. QED BY DEF Row, Kept, Owned
<1>. HIDE DEF c, run
<1>. QED BY <1>1, <1>2, <1>3

\* fail_run() before the deadline: the run fails, and the task ends, is
\* cancelled because its retry would come too late, or waits for the retry.
LEMMA FailedFields ==
    ASSUME NEW r \in Row, NEW a \in Attempts, NEW at \in Nat,
           NEW reason \in {"error", "lease_expired"}, RowShape(r), Owned(r, a),
           ~CancellationDue(r, at)
    PROVE  LET c == Failed(r, a, reason, at)
               av == at + r.req.delay[a]
           IN  /\ Kept(r, c) /\ c.max_attempts = r.max_attempts /\ r.attempts = a
               /\ c.first_started_at = r.first_started_at /\ c.checkpoints = r.checkpoints
               /\ c.runs[a].state = "failed" /\ c.runs[a].reason = reason
               /\ c.runs[a].ended_at = at
               /\ \/ /\ c.state \in {"failed", "cancelled"} /\ c.last = a /\ c.attempts = a
                     /\ \A b \in Attempts \ {a} : c.runs[b] = r.runs[b]
                  \/ /\ c.state \in {"pending", "sleeping"} /\ c.last = a + 1
                     /\ c.attempts = a + 1 /\ a + 1 <= r.max_attempts /\ a + 1 \in Attempts
                     /\ c.runs[a + 1] = NewRun(c.state, av)
                     /\ ~CancellationDue(r, av) /\ av \in Nat
                     /\ \A b \in Attempts \ {a, a + 1} : c.runs[b] = r.runs[b]
<1>. DEFINE run == [Release(r.runs[a], "failed") EXCEPT !.ended_at = at, !.reason = reason]
            failed == RunFailed(r, a, reason, at)
            av == at + r.req.delay[a]
            state == IF av > at THEN "sleeping" ELSE "pending"
            ended == [failed EXCEPT !.state = "failed", !.attempts = LargerOf(@, a), !.last = a]
            c == Failed(r, a, reason, at)
<1>1. run.state = "failed" /\ run.reason = reason /\ run.ended_at = at
  BY DEF Release, Row, RunType
<1>2. /\ failed.state = "running" /\ failed.last = a /\ failed.attempts = r.attempts
      /\ Kept(r, failed) /\ failed.max_attempts = r.max_attempts
      /\ failed.first_started_at = r.first_started_at /\ failed.checkpoints = r.checkpoints
      /\ \A b \in Attempts : failed.runs[b] = IF b = a THEN run ELSE r.runs[b]
  <2>. HIDE DEF run
  <2>. QED BY DEF RunFailed, Row, Owned, run, Kept
<1>3. failed \in Row /\ av \in Nat
  <2>1. failed \in Row
    BY RunFailedTyped
  <2>2. av \in Nat
    BY RequestTyped DEF Row, RequestType
  <2>. QED BY <2>1, <2>2
<1>4. r.attempts = a /\ \A b \in Attempts \ {a} : r.runs[b].state \notin Active
  BY DEF RowShape, Live, Owned, History, Attempts, NoRun, Active
<1>5. \/ c = ended
      \/ c = Cancelled(failed, at)
      \/ /\ HasRetry(r, a) /\ ~CancellationDue(r, av)
         /\ c = RetryInserted(failed, a + 1, state, av)
  BY DEF Failed
<1>. HIDE DEF failed, run, c, av, state
<1>6. CASE c = ended
  <2>1. LargerOf(failed.attempts, a) = a
    BY <1>2, <1>4 DEF LargerOf, Attempts
  <2>2. /\ Kept(r, c) /\ c.max_attempts = r.max_attempts
        /\ c.first_started_at = r.first_started_at /\ c.checkpoints = r.checkpoints
        /\ c.runs = failed.runs /\ c.state = "failed" /\ c.last = a /\ c.attempts = a
    BY <1>2, <1>3, <1>6, <2>1 DEF Row, Kept
  <2>. QED BY <2>2, <1>1, <1>2, <1>4 DEF c
<1>7. CASE c = Cancelled(failed, at)
  <2>1. /\ Kept(r, c) /\ c.max_attempts = r.max_attempts
        /\ c.first_started_at = r.first_started_at /\ c.checkpoints = r.checkpoints
        /\ c.state = "cancelled" /\ c.last = a /\ c.attempts = a
        /\ \A b \in Attempts : c.runs[b] = IF failed.runs[b].state \in Active
                                           THEN Release(failed.runs[b], "cancelled")
                                           ELSE failed.runs[b]
    BY <1>2, <1>3, <1>4, <1>7, CancelledFields DEF Kept, Active
  <2>2. \A b \in Attempts : c.runs[b] = failed.runs[b]
    BY <2>1, <1>1, <1>2, <1>4 DEF Active
  <2>. QED BY <2>1, <2>2, <1>1, <1>2, <1>4 DEF c
<1>8. CASE HasRetry(r, a) /\ ~CancellationDue(r, av) /\ c = RetryInserted(failed, a + 1, state, av)
  <2>1. LargerOf(failed.attempts, a + 1) = a + 1 /\ a + 1 \in Attempts /\ a + 1 <= r.max_attempts
    BY <1>2, <1>4, <1>8, BoundsAssumption DEF LargerOf, Attempts, HasRetry, Row
  <2>2. state \in {"pending", "sleeping"}
    BY DEF state
  <2>3. /\ Kept(r, c) /\ c.max_attempts = r.max_attempts
        /\ c.first_started_at = r.first_started_at /\ c.checkpoints = r.checkpoints
        /\ c.state = state /\ c.last = a + 1 /\ c.attempts = a + 1
        /\ \A b \in Attempts : c.runs[b] = IF b = a + 1 THEN NewRun(state, av) ELSE failed.runs[b]
    BY <1>2, <1>3, <1>8, <2>1 DEF Row, Kept, RetryInserted
  <2>4. \A b \in Attempts \ {a, a + 1} : c.runs[b] = r.runs[b]
    BY <2>3, <1>2
  <2>5. c.runs[a] = run
    BY <2>3, <1>2 DEF Attempts
  <2>. QED BY <2>1, <2>2, <2>3, <2>4, <2>5, <1>1, <1>3, <1>4, <1>8 DEF c, av
<1>. QED BY <1>5, <1>6, <1>7, <1>8

\* retry_task() adds one run and changes no other.
LEMMA RetriedFields ==
    ASSUME NEW r \in Row, NEW at \in Nat, r.attempts < MaxAttempt
    PROVE  LET c == Retried(r, at)
               next == r.attempts + 1
           IN  /\ c.state = "pending" /\ Kept(r, c) /\ c.last = next /\ c.attempts = next
               /\ c.max_attempts = LargerOf(r.max_attempts, next)
               /\ c.first_started_at = r.first_started_at /\ c.checkpoints = r.checkpoints
               /\ next \in Attempts /\ c.runs[next] = NewRun("pending", at)
               /\ \A b \in Attempts \ {next} : c.runs[b] = r.runs[b]
<1>. DEFINE next == r.attempts + 1
            new == NewRun("pending", at)
            c == [r EXCEPT !.state = "pending", !.attempts = next,
                           !.max_attempts = LargerOf(@, next), !.last = next,
                           !.cancelled_at = Null, !.runs[next] = new]
<1>1. next \in Attempts
  BY BoundsAssumption DEF Row, Attempts
<1>2. Retried(r, at) = c
  BY DEF Retried
<1>3. /\ c.state = "pending" /\ Kept(r, c) /\ c.last = next /\ c.attempts = next
      /\ c.max_attempts = LargerOf(r.max_attempts, next)
      /\ c.first_started_at = r.first_started_at /\ c.checkpoints = r.checkpoints
      /\ c.runs = [r.runs EXCEPT ![next] = new]
  <2>. HIDE DEF next, new
  <2>. QED BY DEF Row, Kept
<1>4. c.runs[next] = new /\ \A b \in Attempts \ {next} : c.runs[b] = r.runs[b]
  <2>. HIDE DEF next, new, c
  <2>. QED BY <1>1, <1>3 DEF Row
<1>. HIDE DEF c
<1>. QED BY <1>1, <1>2, <1>3, <1>4

\* The claim itself.
LEMMA ClaimedFields ==
    ASSUME NEW r \in Row, NEW w \in Workers, NEW at \in Nat, RowShape(r), Live(r)
    PROVE  LET c == Claimed(r, w, at)
           IN  /\ c.state = "running" /\ Kept(r, c) /\ c.last = r.last /\ c.attempts = r.attempts
               /\ c.max_attempts = r.max_attempts /\ c.checkpoints = r.checkpoints
               /\ c.first_started_at = (IF r.first_started_at = Null THEN at
                                        ELSE r.first_started_at)
               /\ c.runs[r.last].state = "running" /\ c.runs[r.last].claimed_by = w
               /\ c.runs[r.last].claim_expires_at = at + Lease
               /\ c.runs[r.last].reason = r.runs[r.last].reason
               /\ \A b \in Attempts \ {r.last} : c.runs[b] = r.runs[b]
<1>. DEFINE run == [r.runs[r.last] EXCEPT !.state = "running", !.claimed_by = w,
                                          !.claim_expires_at = at + Lease,
                                          !.available_at = at]
            c == Claimed(r, w, at)
<1>1. LargerOf(r.attempts, r.last) = r.attempts
  BY DEF RowShape, History, LargerOf, Row, Attempts
<1>2. r.last \in Attempts /\ r.runs[r.last] \in RunType
  BY DEF Row
<1>3. /\ run.state = "running" /\ run.claimed_by = w /\ run.claim_expires_at = at + Lease
      /\ run.reason = r.runs[r.last].reason
  BY <1>2 DEF RunType
<1>4. /\ c.state = "running" /\ Kept(r, c) /\ c.last = r.last
      /\ c.attempts = LargerOf(r.attempts, r.last)
      /\ c.max_attempts = r.max_attempts /\ c.checkpoints = r.checkpoints
      /\ c.first_started_at = (IF r.first_started_at = Null THEN at ELSE r.first_started_at)
      /\ \A b \in Attempts : c.runs[b] = IF b = r.last THEN run ELSE r.runs[b]
  BY DEF Claimed, Row, Kept
<1>. HIDE DEF c, run
<1>5. c.runs[r.last] = run /\ \A b \in Attempts \ {r.last} : c.runs[b] = r.runs[b]
  BY <1>2, <1>4
<1>6. /\ c.state = "running" /\ Kept(r, c) /\ c.last = r.last /\ c.attempts = r.attempts
      /\ c.max_attempts = r.max_attempts /\ c.checkpoints = r.checkpoints
      /\ c.first_started_at = (IF r.first_started_at = Null THEN at ELSE r.first_started_at)
  BY <1>1, <1>4
<1>. QED BY <1>3, <1>5, <1>6 DEF c

\* A renewal only moves the end of the lease, and never back.
LEMMA RenewedFields ==
    ASSUME NEW r \in Row, NEW a \in Attempts, NEW at \in Nat
    PROVE  LET c == Renewed(r, a, at)
           IN  /\ c.state = r.state /\ Kept(r, c) /\ c.last = r.last /\ c.attempts = r.attempts
               /\ c.max_attempts = r.max_attempts /\ c.checkpoints = r.checkpoints
               /\ c.first_started_at = r.first_started_at
               /\ c.runs[a] = [r.runs[a] EXCEPT
                                 !.claim_expires_at = LargerOf(r.runs[a].claim_expires_at, at + Lease)]
               /\ LargerOf(r.runs[a].claim_expires_at, at + Lease) \in Nat
               /\ LargerOf(r.runs[a].claim_expires_at, at + Lease) >= r.runs[a].claim_expires_at
               /\ \A b \in Attempts \ {a} : c.runs[b] = r.runs[b]
<1>. DEFINE lease == LargerOf(r.runs[a].claim_expires_at, at + Lease)
            c == [r EXCEPT !.runs[a].claim_expires_at = lease]
<1>3. Renewed(r, a, at) = c
  BY DEF Renewed
<1>1. lease \in Nat /\ lease >= r.runs[a].claim_expires_at
  BY PolicyAssumption DEF Row, RunType, LargerOf, OrNull, Null
<1>2. /\ c.state = r.state /\ Kept(r, c) /\ c.last = r.last /\ c.attempts = r.attempts
      /\ c.max_attempts = r.max_attempts /\ c.checkpoints = r.checkpoints
      /\ c.first_started_at = r.first_started_at
      /\ c.runs[a] = [r.runs[a] EXCEPT !.claim_expires_at = lease]
      /\ \A b \in Attempts \ {a} : c.runs[b] = r.runs[b]
  <2>. HIDE DEF lease
  <2>. QED BY DEF Row, Kept
<1>. HIDE DEF c
<1>. QED BY <1>1, <1>2, <1>3

\* A checkpoint write changes the checkpoints only.
LEMMA CheckpointedFields ==
    ASSUME NEW r \in Row, NEW step \in Steps, NEW value
    PROVE  LET c == Checkpointed(r, step, value)
           IN  /\ c.state = r.state /\ Kept(r, c) /\ c.last = r.last /\ c.attempts = r.attempts
               /\ c.max_attempts = r.max_attempts /\ c.runs = r.runs
               /\ c.first_started_at = r.first_started_at
               /\ \A s \in Steps : c.checkpoints[s] = IF s = step THEN value ELSE r.checkpoints[s]
BY DEF Checkpointed, Row, Kept

\* A new task has not started and has one pending run.
LEMMA SpawnedFields ==
    ASSUME NEW req \in Requests, NEW at \in Nat
    PROVE  LET c == Spawned(req, at)
           IN  /\ c.state = "pending" /\ c.req = req /\ c.enqueue_at = at /\ c.last = 1
               /\ c.attempts = 1 /\ c.max_attempts = req.max_attempts
               /\ c.first_started_at = Null
               /\ \A b \in Attempts : c.runs[b] = IF b = 1 THEN NewRun("pending", at) ELSE NoRun
BY BoundsAssumption DEF Spawned, NoTask, Attempts

-----------------------------------------------------------------------------
(* Every step of the queue is a step of the relation.                      *)

\* A row written by Update() is the only one that changes.
LEMMA UpdateStep ==
    ASSUME TypeOK, NEW t \in Tasks, NEW row, Update(t, row), RowNext(tasks[t], row, now)
    PROVE  \A u \in Tasks : RowNext(tasks[u], tasks'[u], now)
BY DEF TypeOK, Update, RowNext, ClaimRow

\* The three passes of claim_tasks() make one step of each task.
LEMMA ClaimTasksSteps ==
    ASSUME ShapeInv, NEW w \in Workers, NEW names \in SUBSET Names,
           NEW quantity \in 1 .. BatchLimit, ClaimTasks(w, names, quantity),
           NEW t \in Tasks
    PROVE  ClaimRow(tasks[t], tasks'[t], now)
<1>. DEFINE cancelled(cancel) == CancelPass(tasks, cancel)
            reaped(cancel, reap) == ReapPass(cancelled(cancel), reap)
<1>1. PICK cancel \in SUBSET Tasks, reap \in SUBSET Tasks, claim \in SUBSET Tasks :
        /\ cancel \subseteq ExpiredTasks(tasks)
        /\ reap \subseteq ExpiredRuns(cancelled(cancel))
        /\ claim \subseteq ClaimableTasks(reaped(cancel, reap), names)
        /\ tasks' = ClaimPass(reaped(cancel, reap), claim, w)
  BY DEF ClaimTasks, Batches, ExpiredTasks, ExpiredRuns, ClaimableTasks
<1>2. /\ now \in Nat /\ tasks \in [Tasks -> Row] /\ tasks[t] \in Row /\ RowShape(tasks[t])
      /\ \A u \in Tasks : RowShape(tasks[u])
  BY DEF ShapeInv, TypeOK
<1>. DEFINE r == tasks[t]
            r1 == cancelled(cancel)[t]
            r2 == reaped(cancel, reap)[t]
<1>3. r1 \in Row /\ RowShape(r1)
  BY <1>1, <1>2, PassesTyped, PassesShape
<1>4. /\ r1 = IF t \in cancel THEN Cancelled(r, now) ELSE r
      /\ r2 = IF t \in reap THEN Reaped(r1, now) ELSE r1
      /\ tasks'[t] = IF t \in claim THEN Claimed(r2, w, now) ELSE r2
  BY <1>1 DEF CancelPass, ReapPass, ClaimPass
<1>5. /\ t \in cancel => r.state \in Active
      /\ t \in reap => LeaseExpired(r1, now)
      /\ t \in claim => Claimable(r2, names, now)
  BY <1>1 DEF ExpiredTasks, ExpiredRuns, ClaimableTasks
<1>. HIDE DEF cancelled, reaped, r1, r2
<1>6. CASE t \in cancel
  <2>1. r1 = Cancelled(r, now) /\ r1.state = "cancelled" /\ CancelStep(r, r1, now)
    BY <1>2, <1>4, <1>5, <1>6, CancelledFields DEF CancelStep
  <2>2. t \notin reap
    BY <2>1, <1>2, <1>3, <1>5, LeaseExpiredOwned DEF Owned
  <2>3. t \notin claim
    BY <2>1, <2>2, <1>4, <1>5 DEF Claimable
  <2>. QED BY <2>1, <2>2, <2>3, <1>4 DEF ClaimRow
<1>7. CASE t \notin cancel /\ t \notin reap
  BY <1>4, <1>5, <1>7 DEF ClaimRow, ClaimStep
<1>8. CASE t \notin cancel /\ t \in reap
  <2>1. r1 = r /\ r2 = Reaped(r, now) /\ LeaseExpired(r, now)
    BY <1>4, <1>5, <1>8
  <2>2. /\ Owned(r, r.last) /\ r.last \in Attempts /\ Expired(r, r.last, now)
        /\ RowShape(r2) /\ r2 \in Row
    BY <2>1, <1>2, LeaseExpiredOwned, ReapedShape, FailedTyped DEF Reaped
  <2>3. CASE CancellationDue(r, now)
    <3>1. CancelStep(r, r2, now) /\ r2 = Cancelled(r, now)
      BY <2>1, <2>3, <1>2, ReapedStep DEF Reaped, Failed
    <3>2. r2.state = "cancelled"
      BY <3>1, <2>2, <1>2 DEF Cancelled, Owned, Terminal, Row
    <3>3. t \notin claim
      BY <3>2, <1>5 DEF Claimable
    <3>. QED BY <3>1, <3>3, <1>4 DEF ClaimRow
  <2>4. CASE ~CancellationDue(r, now)
    <3>1. FailStep(r, r2, r.last, now)
      BY <2>1, <2>4, <1>2, ReapedStep
    <3>2. t \in claim => ClaimStep(r2, tasks'[t], now)
      BY <1>4, <1>5 DEF ClaimStep
    <3>. QED BY <3>1, <3>2, <2>2, <1>4 DEF ClaimRow, ReclaimStep
  <2>. QED BY <2>3, <2>4
<1>. QED BY <1>6, <1>7, <1>8

\* Every step of the queue is, for each task, one step of the row relation.
LEMMA RowSteps ==
    ASSUME ShapeInv, [Next]_vars
    PROVE  \A t \in Tasks : RowNext(tasks[t], tasks'[t], now)
<1>. USE BoundsAssumption
<1>1. now \in Nat /\ TypeOK /\ \A t \in Tasks : tasks[t] \in Row /\ RowShape(tasks[t])
  BY DEF ShapeInv, TypeOK
<1>. DEFINE Goal == \A t \in Tasks : RowNext(tasks[t], tasks'[t], now)
<1>2. ASSUME NEW t \in Tasks, NEW req \in Requests, SpawnTask(t, req)
      PROVE  Goal
  <2>1. RowNext(tasks[t], Spawned(req, now), now)
    BY <1>1, <1>2 DEF SpawnTask, RowNext, SpawnStep
  <2>. QED BY <2>1, <1>1, <1>2, UpdateStep DEF SpawnTask
<1>3. ASSUME NEW t \in Tasks, NEW a \in Attempts, CompleteRun(t, a)
      PROVE  Goal
  <2>1. Owned(tasks[t], a) /\ ~Expired(tasks[t], a, now)
    BY <1>1, <1>3, FencedUnexpired DEF CompleteRun
  <2>2. RowNext(tasks[t], Completed(tasks[t], a, now), now)
    <3>1. CASE CancellationDue(tasks[t], now)
      BY <3>1, <2>1, <1>1, DueIsCancelStep DEF Completed, RowNext, ClaimRow
    <3>2. CASE ~CancellationDue(tasks[t], now)
      BY <3>2, <2>1 DEF RowNext, ClaimRow, OwnerStep
    <3>. QED BY <3>1, <3>2
  <2>. QED BY <2>2, <1>1, <1>3, UpdateStep DEF CompleteRun
<1>4. ASSUME NEW t \in Tasks, NEW a \in Attempts, NEW wake \in 0 .. MaxWake,
             ScheduleRun(t, a, wake)
      PROVE  Goal
  <2>1. Owned(tasks[t], a) /\ ~Expired(tasks[t], a, now)
    BY <1>1, <1>4, FencedUnexpired DEF ScheduleRun
  <2>2. RowNext(tasks[t], Scheduled(tasks[t], a, wake, now), now)
    <3>1. CASE CancellationDue(tasks[t], now) \/ CancellationDue(tasks[t], wake)
      BY <3>1, <2>1, <1>1, DueIsCancelStep DEF Scheduled, RowNext, ClaimRow
    <3>2. CASE ~(CancellationDue(tasks[t], now) \/ CancellationDue(tasks[t], wake)) /\ wake <= now
      BY <3>2 DEF Scheduled, RowNext, ClaimRow
    <3>3. CASE ~(CancellationDue(tasks[t], now) \/ CancellationDue(tasks[t], wake)) /\ wake > now
      BY <3>3, <2>1 DEF RowNext, ClaimRow, OwnerStep
    <3>. QED BY <3>1, <3>2, <3>3, <1>1
  <2>. QED BY <2>2, <1>1, <1>4, UpdateStep DEF ScheduleRun
<1>5. ASSUME NEW t \in Tasks, NEW a \in Attempts, FailRun(t, a)
      PROVE  Goal
  <2>1. Owned(tasks[t], a) /\ ~Expired(tasks[t], a, now)
    BY <1>1, <1>5, FencedUnexpired DEF FailRun
  <2>2. RowNext(tasks[t], Failed(tasks[t], a, "error", now), now)
    <3>1. CASE CancellationDue(tasks[t], now)
      BY <3>1, <2>1, <1>1, DueIsCancelStep DEF Failed, RowNext, ClaimRow
    <3>2. CASE ~CancellationDue(tasks[t], now)
      BY <3>2, <2>1 DEF RowNext, ClaimRow, FailStep
    <3>. QED BY <3>1, <3>2
  <2>. QED BY <2>2, <1>1, <1>5, UpdateStep DEF FailRun
<1>6. ASSUME NEW t \in Tasks, NEW a \in Attempts, NEW renew \in BOOLEAN,
             SuperviseRun(t, a, renew)
      PROVE  Goal
  <2>. DEFINE r == tasks[t]
  <2>1. Owned(r, a) /\ r \in Row
    BY <1>1, <1>6 DEF SuperviseRun, Owned
  <2>2. RowNext(r, Supervised(r, a, renew, now), now)
    <3>1. CASE CancellationDue(r, now)
      BY <3>1, <2>1, <1>1, DueIsCancelStep DEF Supervised, RowNext, ClaimRow
    <3>2. CASE ~CancellationDue(r, now) /\ LeaseExpired(r, now)
      <4>1. FailStep(r, Reaped(r, now), a, now)
        BY <3>2, <2>1, <1>1, ReapedStep DEF Owned
      <4>. QED BY <4>1, <3>2 DEF Supervised, RowNext, ClaimRow
    <3>3. CASE ~CancellationDue(r, now) /\ ~LeaseExpired(r, now)
      <4>1. ~Expired(r, a, now)
        BY <3>3, <2>1 DEF LeaseExpired, Current, Owned, Expired
      <4>2. OwnerStep(r, Renewed(r, a, now), a, now)
        BY <4>1, <3>3, <2>1 DEF OwnerStep
      <4>3. Supervised(r, a, renew, now) \in {r, Renewed(r, a, now)}
        BY <3>3 DEF Supervised, Renewed
      <4>. QED BY <4>2, <4>3 DEF RowNext, ClaimRow, ReclaimStep
    <3>. QED BY <3>1, <3>2, <3>3
  <2>. QED BY <2>2, <1>1, <1>6, UpdateStep DEF SuperviseRun
<1>7. ASSUME NEW t \in Tasks, NEW a \in Attempts, NEW step \in Steps, NEW value \in Values,
             SetCheckpoint(t, a, step, value)
      PROVE  Goal
  <2>1. Owned(tasks[t], a) /\ ~Expired(tasks[t], a, now)
    BY <1>1, <1>7, FencedUnexpired DEF SetCheckpoint
  <2>2. RowNext(tasks[t], Checkpointed(tasks[t], step, value), now)
    BY <2>1, <1>7 DEF RowNext, OwnerStep, FirstWrite, SetCheckpoint
  <2>. QED BY <2>2, <1>1, <1>7, UpdateStep DEF SetCheckpoint, Checkpointed
<1>8. ASSUME NEW t \in Tasks, NEW at \in ReadBefore(t), CancelTask(t, at) \/ RetryTask(t, at)
      PROVE  Goal
  <2>1. at \in 0 .. now
    BY DEF ReadBefore
  <2>2. CASE CancelTask(t, at)
    <3>1. CASE tasks[t].state \in Terminal
      <4>1. RowNext(tasks[t], Cancelled(tasks[t], at), now)
        BY <3>1 DEF Cancelled, RowNext, ClaimRow
      <4>. QED BY <4>1, <2>2, <1>1, UpdateStep DEF CancelTask
    <3>2. CASE tasks[t].state \notin Terminal
      <4>1. tasks[t].state \in Active
        BY <3>2, <2>2, <1>1 DEF CancelTask, Live, Row
      <4>2. RowNext(tasks[t], Cancelled(tasks[t], at), now)
        BY <4>1, <2>1 DEF CancelStep, RowNext, ClaimRow
      <4>. QED BY <4>2, <2>2, <1>1, UpdateStep DEF CancelTask
    <3>. QED BY <3>1, <3>2
  <2>3. CASE RetryTask(t, at)
    <3>1. RowNext(tasks[t], Retried(tasks[t], at), now)
      BY <2>1, <2>3 DEF RetryTask, RetryStep, RowNext, ClaimRow
    <3>. QED BY <3>1, <2>3, <1>1, UpdateStep DEF RetryTask
  <2>. QED BY <2>2, <2>3, <1>8
<1>9. ASSUME NEW w \in Workers, NEW names \in SUBSET Names, NEW quantity \in 1 .. BatchLimit,
             ClaimTasks(w, names, quantity)
      PROVE  Goal
  BY <1>9, ClaimTasksSteps DEF RowNext
<1>10. ASSUME CleanupTasks
       PROVE  Goal
  BY <1>10, <1>1 DEF CleanupTasks, Batches, Expendable, RowNext, ClaimRow
<1>11. CASE UNCHANGED tasks
  BY <1>11 DEF RowNext, ClaimRow
<1>. QED
  BY <1>2, <1>3, <1>4, <1>5, <1>6, <1>7, <1>8, <1>9, <1>10, <1>11 DEF Next, Tick, vars

\* Some task name exists, because some request does.
LEMMA NamesInhabited == Names \in (SUBSET Names) \ {{}} /\ 1 \in 1 .. BatchLimit
<1>1. PICK req \in Requests : req.name \in Names
  BY RequestsAssumption DEF RequestType
<1>. QED BY <1>1, BoundsAssumption

\* A task that was submitted is never "absent" again and keeps its request.
LEMMA RowStays ==
    ASSUME NEW r \in Row, NEW c, NEW at \in Nat, RowShape(r), RowNext(r, c, at),
           r.state # "absent"
    PROVE  c.state # "absent" /\ (Live(c) => Live(r) /\ c.req = r.req)
<1>1. CASE c = r
  BY <1>1
<1>2. CASE CancelStep(r, c, at)
  BY <1>2, CancelledFields DEF CancelStep, Kept, Live, Active
<1>3. CASE RetryStep(r, c, at)
  <2>1. PICK read \in 0 .. at : c = Retried(r, read)
    BY <1>3 DEF RetryStep
  <2>2. r.state = "failed" /\ r.attempts < MaxAttempt /\ read \in Nat
    BY <1>3 DEF RetryStep
  <2>3. c.state = "pending" /\ Kept(r, c)
    BY <2>1, <2>2, RetriedFields
  <2>. QED BY <2>2, <2>3 DEF Kept, Live
<1>4. ASSUME NEW m \in Row, RowShape(m), ClaimStep(m, c, at)
      PROVE  c.state = "running" /\ c.req = m.req /\ Live(m)
  <2>1. PICK w \in Workers : c = Claimed(m, w, at)
    BY <1>4 DEF ClaimStep
  <2>2. Live(m)
    BY <1>4 DEF ClaimStep, Claimable, Live
  <2>. QED BY <2>1, <2>2, <1>4, ClaimedFields DEF Kept
<1>5. ASSUME NEW a \in Attempts, OwnerStep(r, c, a, at)
      PROVE  Live(c) /\ c.req = r.req /\ Live(r)
  <2>1. Owned(r, a) /\ ~CancellationDue(r, at) /\ r.state = "running"
    BY <1>5 DEF OwnerStep, Owned
  <2>2. CASE c = Completed(r, a, at)
    BY <2>1, <2>2, CompletedFields DEF Kept, Live
  <2>3. CASE \E wake \in Nat : ~CancellationDue(r, wake) /\ wake > at /\ c = Scheduled(r, a, wake, at)
    BY <2>1, <2>3, ScheduledFields DEF Kept, Live
  <2>4. CASE FirstWrite(r, c)
    BY <2>1, <2>4, CheckpointedFields DEF FirstWrite, Kept, Live
  <2>5. CASE c = Renewed(r, a, at)
    BY <2>1, <2>5, RenewedFields DEF Kept, Live
  <2>. QED BY <1>5, <2>2, <2>3, <2>4, <2>5 DEF OwnerStep
<1>6. ASSUME NEW a \in Attempts, NEW m, FailStep(r, m, a, at)
      PROVE  Live(m) /\ m.req = r.req /\ Live(r)
  <2>1. PICK reason \in {"error", "lease_expired"} : m = Failed(r, a, reason, at)
    BY <1>6 DEF FailStep
  <2>2. Owned(r, a) /\ ~CancellationDue(r, at)
    BY <1>6 DEF FailStep
  <2>3. Kept(r, m) /\ m.state \in {"failed", "cancelled", "pending", "sleeping"}
    BY <2>1, <2>2, FailedFields
  <2>. QED BY <2>2, <2>3 DEF Kept, Live, Owned
<1>7. CASE r.state \in Terminal /\ c = NoTask("deleted")
  BY <1>7 DEF NoTask, Live
<1>. QED
  BY <1>1, <1>2, <1>3, <1>4, <1>5, <1>6, <1>7
  DEF RowNext, ClaimRow, ReclaimStep, SpawnStep, Live

-----------------------------------------------------------------------------
(* DeadlineWins.                                                           *)

RowDeadline(r) ==
    Live(r) =>
        /\ r.first_started_at # Null
             => ~Elapsed(r.enqueue_at, r.req.max_delay, r.first_started_at)
        /\ r.state \in {"completed", "failed"} => ~CancellationDue(r, Current(r).ended_at)
        /\ r.state \in {"pending", "sleeping"} /\ r.first_started_at # Null
             => ~CancellationDue(r, Current(r).available_at)

\* The deadline depends on the request, the submission and the first claim.
LEMMA DueKept ==
    ASSUME NEW r, NEW c, NEW at, Kept(r, c), c.first_started_at = r.first_started_at
    PROVE  CancellationDue(c, at) <=> CancellationDue(r, at)
BY DEF Kept, CancellationDue

\* A failure ends the task before its deadline or makes it wait for a time
\* before its deadline.
LEMMA FailStepDeadline ==
    ASSUME NEW r \in Row, NEW c, NEW a \in Attempts, NEW at \in Nat,
           RowShape(r), RowDeadline(r), FailStep(r, c, a, at)
    PROVE  RowDeadline(c)
<1>. DEFINE reason == IF Expired(r, a, at) THEN "lease_expired" ELSE "error"
            av == at + r.req.delay[a]
<1>1. /\ reason \in {"error", "lease_expired"} /\ Owned(r, a) /\ ~CancellationDue(r, at)
      /\ c = Failed(r, a, reason, at) /\ Live(r)
  BY DEF FailStep, Owned, Live
<1>. HIDE DEF reason
<1>2. /\ Kept(r, c) /\ c.first_started_at = r.first_started_at /\ c.runs[a].ended_at = at
      /\ \/ c.state \in {"failed", "cancelled"} /\ c.last = a
         \/ /\ c.state \in {"pending", "sleeping"} /\ c.last = a + 1
            /\ c.runs[a + 1] = NewRun(c.state, av) /\ ~CancellationDue(r, av)
  BY <1>1, FailedFields
<1>3. NewRun(c.state, av).available_at = av
  BY DEF NewRun, NoRun
<1>. HIDE DEF av
<1>4. \A x : CancellationDue(c, x) <=> CancellationDue(r, x)
  BY <1>2, DueKept
<1>. QED BY <1>1, <1>2, <1>3, <1>4 DEF RowDeadline, Kept, Current

\* A claim starts a task before its maximal delay has passed.
LEMMA ClaimStepDeadline ==
    ASSUME NEW r \in Row, NEW c, NEW at \in Nat, RowShape(r), RowDeadline(r), ClaimStep(r, c, at)
    PROVE  RowDeadline(c)
<1>1. PICK w \in Workers : c = Claimed(r, w, at)
  BY DEF ClaimStep
<1>2. Live(r) /\ ~CancellationDue(r, at)
  BY DEF ClaimStep, Claimable, Live
<1>3. /\ c.state = "running" /\ Kept(r, c)
      /\ c.first_started_at = (IF r.first_started_at = Null THEN at ELSE r.first_started_at)
  BY <1>1, <1>2, ClaimedFields
<1>4. c.first_started_at # Null => ~Elapsed(c.enqueue_at, c.req.max_delay, c.first_started_at)
  BY <1>2, <1>3 DEF RowDeadline, Kept, CancellationDue
<1>. QED BY <1>3, <1>4 DEF RowDeadline

\* Every step of a row keeps the deadline facts.
LEMMA RowDeadlineStep ==
    ASSUME NEW r \in Row, NEW c, NEW at \in Nat, RowShape(r), RowDeadline(r), RowNext(r, c, at)
    PROVE  RowDeadline(c)
<1>1. CASE c = r
  BY <1>1
<1>2. CASE SpawnStep(r, c, at)
  <2>1. PICK req \in Requests, read \in 0 .. at : c = Spawned(req, read)
    BY <1>2 DEF SpawnStep
  <2>2. c.state = "pending" /\ c.first_started_at = Null
    BY <2>1, SpawnedFields
  <2>. QED BY <2>2 DEF RowDeadline
<1>3. CASE CancelStep(r, c, at)
  <2>1. PICK read \in 0 .. at : c = Cancelled(r, read)
    BY <1>3 DEF CancelStep
  <2>2. /\ c.state = "cancelled" /\ Kept(r, c) /\ c.first_started_at = r.first_started_at
        /\ Live(r)
    BY <2>1, <1>3, CancelledFields DEF CancelStep, Live, Active
  <2>. QED BY <2>2 DEF RowDeadline, Kept
<1>4. CASE RetryStep(r, c, at)
  <2>1. PICK read \in 0 .. at : ~CancellationDue(r, read) /\ c = Retried(r, read)
    BY <1>4 DEF RetryStep
  <2>2. /\ c.state = "pending" /\ Kept(r, c) /\ c.first_started_at = r.first_started_at
        /\ Current(c) = NewRun("pending", read) /\ Live(r)
    <3>1. r.state = "failed" /\ r.attempts < MaxAttempt /\ read \in Nat
      BY <1>4 DEF RetryStep
    <3>2. /\ c.state = "pending" /\ Kept(r, c) /\ c.first_started_at = r.first_started_at
          /\ c.last = r.attempts + 1 /\ c.runs[r.attempts + 1] = NewRun("pending", read)
      BY <3>1, <2>1, RetriedFields
    <3>. QED BY <3>1, <3>2 DEF Current, Live
  <2>3. Current(c).available_at = read
    BY <2>2 DEF NewRun, NoRun
  <2>. QED BY <2>1, <2>2, <2>3, DueKept DEF RowDeadline, Kept
<1>5. CASE ClaimStep(r, c, at)
  BY <1>5, ClaimStepDeadline
<1>6. ASSUME NEW a \in Attempts, OwnerStep(r, c, a, at)
      PROVE  RowDeadline(c)
  <2>1. Owned(r, a) /\ ~CancellationDue(r, at) /\ Live(r)
    BY <1>6 DEF OwnerStep, Owned, Live
  <2>2. CASE c = Completed(r, a, at)
    <3>1. /\ c.state = "completed" /\ Kept(r, c) /\ Current(c).ended_at = at
          /\ c.first_started_at = r.first_started_at
      BY <2>1, <2>2, CompletedFields DEF Current
    <3>. QED BY <3>1, <2>1, DueKept DEF RowDeadline, Kept
  <2>3. ASSUME NEW wake \in Nat, ~CancellationDue(r, wake), wake > at,
               c = Scheduled(r, a, wake, at)
        PROVE  RowDeadline(c)
    <3>1. /\ c.state = "sleeping" /\ Kept(r, c) /\ Current(c).available_at = wake
          /\ c.first_started_at = r.first_started_at
      BY <2>1, <2>3, ScheduledFields DEF Current
    <3>. QED BY <3>1, <2>1, <2>3, DueKept DEF RowDeadline, Kept
  <2>4. ASSUME NEW step \in Steps, NEW value \in Values, c = Checkpointed(r, step, value)
        PROVE  RowDeadline(c)
    <3>1. c.state = "running" /\ Kept(r, c) /\ c.first_started_at = r.first_started_at
      BY <2>1, <2>4, CheckpointedFields DEF Owned
    <3>. QED BY <3>1, <2>1 DEF RowDeadline, Kept
  <2>5. CASE c = Renewed(r, a, at)
    <3>1. c.state = "running" /\ Kept(r, c) /\ c.first_started_at = r.first_started_at
      BY <2>1, <2>5, RenewedFields DEF Owned
    <3>. QED BY <3>1, <2>1 DEF RowDeadline, Kept
  <2>. QED BY <1>6, <2>2, <2>3, <2>4, <2>5 DEF OwnerStep, FirstWrite
<1>7. ASSUME NEW a \in Attempts, FailStep(r, c, a, at)
      PROVE  RowDeadline(c)
  BY <1>7, FailStepDeadline
<1>8. ASSUME NEW a \in Attempts, NEW mid \in Row, FailStep(r, mid, a, at), RowShape(mid),
             ClaimStep(mid, c, at)
      PROVE  RowDeadline(c)
  BY <1>8, FailStepDeadline, ClaimStepDeadline
<1>9. CASE c = NoTask("deleted")
  BY <1>9 DEF NoTask, RowDeadline, Live
<1>. QED BY <1>1, <1>2, <1>3, <1>4, <1>5, <1>6, <1>7, <1>8, <1>9 DEF RowNext, ClaimRow, ReclaimStep

\* The deadline wins every race: for any policy, whatever the order in which a
\* claim, a completion, a failure, a suspension, a manual retry and the sweep of
\* expired tasks reach the row, no task starts past its maximal delay, ends
\* completed or failed past its maximal duration, or waits for a time past it.
THEOREM DeadlineWinsHolds == Spec => []DeadlineWins
<1>1. Init => DeadlineWins
  BY DEF Init, DeadlineWins, NoTask, Live
<1>2. ShapeInv /\ DeadlineWins /\ [Next]_vars => DeadlineWins'
  <2>. SUFFICES ASSUME ShapeInv, DeadlineWins, [Next]_vars, NEW t \in Tasks
                PROVE  RowDeadline(tasks'[t])
    BY DEF DeadlineWins, RowDeadline
  <2>1. now \in Nat /\ tasks[t] \in Row /\ RowShape(tasks[t]) /\ RowDeadline(tasks[t])
    BY DEF ShapeInv, TypeOK, DeadlineWins, RowDeadline
  <2>2. RowNext(tasks[t], tasks'[t], now)
    BY RowSteps
  <2>. QED BY <2>1, <2>2, RowDeadlineStep
<1>. QED BY <1>1, <1>2, ShapeInductive, PTL DEF Spec

-----------------------------------------------------------------------------
(* What a step may never do.                                               *)

\* The steps of a row whose task has ended.
LEMMA EndedRowSteps ==
    ASSUME NEW r \in Row, NEW c, NEW at, RowNext(r, c, at), r.state \in Terminal \cup {"deleted"}
    PROVE  c = r \/ RetryStep(r, c, at) \/ (r.state \in Terminal /\ c = NoTask("deleted"))
BY DEF RowNext, ClaimRow, ReclaimStep, SpawnStep, CancelStep, ClaimStep, Claimable, OwnerStep,
       FailStep, Owned, Active, Terminal

RowFinal(r, c) ==
    /\ r.state \in {"completed", "cancelled", "deleted"} => Frozen(r, c)
    /\ r.state = "failed" =>
         \/ Frozen(r, c)
         \/ /\ c.state = "pending" /\ c.req = r.req /\ c.checkpoints = r.checkpoints
            /\ \A a \in 1 .. r.attempts : c.runs[a] = r.runs[a]

\* A manual retry keeps what happened before it.
LEMMA RowFinalStep ==
    ASSUME NEW r \in Row, NEW c, NEW at \in Nat, RowNext(r, c, at)
    PROVE  RowFinal(r, c)
<1>1. CASE r.state \notin Terminal \cup {"deleted"}
  BY <1>1 DEF Terminal, RowFinal
<1>2. CASE c = r \/ c = NoTask("deleted")
  BY <1>2 DEF Frozen, NoTask, RowFinal
<1>3. CASE RetryStep(r, c, at)
  <2>1. PICK read \in 0 .. at : c = Retried(r, read)
    BY <1>3 DEF RetryStep
  <2>2. r.state = "failed" /\ r.attempts < MaxAttempt /\ read \in Nat
    BY <1>3 DEF RetryStep
  <2>3. /\ c.state = "pending" /\ Kept(r, c) /\ c.checkpoints = r.checkpoints
        /\ r.attempts + 1 \in Attempts
        /\ \A b \in Attempts \ {r.attempts + 1} : c.runs[b] = r.runs[b]
    BY <2>1, <2>2, RetriedFields
  <2>4. \A a \in 1 .. r.attempts : a \in Attempts \ {r.attempts + 1}
    BY <2>3, BoundsAssumption DEF Row, Attempts
  <2>. QED BY <2>2, <2>3, <2>4 DEF Kept, RowFinal
<1>. QED BY <1>1, <1>2, <1>3, EndedRowSteps

\* An outcome is final: nothing a stale worker, a cancellation, a claim or the
\* reaper does reaches the rows of a completed or cancelled task, and only a
\* manual retry, which keeps what happened before, those of a failed one.
THEOREM TerminalIsFinalHolds == Spec => TerminalIsFinal
<1>. DEFINE Final == \A t \in Tasks : RowFinal(tasks[t], tasks'[t])
<1>1. ShapeInv /\ [Next]_vars => Final
  <2>. SUFFICES ASSUME ShapeInv, [Next]_vars, NEW t \in Tasks
                PROVE  RowFinal(tasks[t], tasks'[t])
    OBVIOUS
  <2>1. now \in Nat /\ tasks[t] \in Row
    BY DEF ShapeInv, TypeOK
  <2>. QED BY <2>1, RowSteps, RowFinalStep
<1>2. (Final \/ UNCHANGED vars) => [\A t \in Tasks : LET r == tasks[t] IN
        /\ r.state \in {"completed", "cancelled", "deleted"} => Frozen(r, tasks'[t])
        /\ r.state = "failed" =>
             \/ Frozen(r, tasks'[t])
             \/ /\ tasks'[t].state = "pending"
                /\ tasks'[t].req = r.req
                /\ tasks'[t].checkpoints = r.checkpoints
                /\ \A a \in 1 .. r.attempts : tasks'[t].runs[a] = r.runs[a]]_vars
  BY DEF RowFinal
<1>. QED
  BY <1>1, <1>2, ShapeInductive, PTL DEF Spec, TerminalIsFinal

\* A task that is not there has no checkpoints, and only a failed run has a
\* failure reason.
RowBare(r) ==
    /\ ~Live(r) => \A s \in Steps : r.checkpoints[s] = NoValue
    /\ \A a \in Attempts : r.runs[a].state # "failed" => r.runs[a].reason = "none"

BareInv == ShapeInv /\ \A t \in Tasks : RowBare(tasks[t])

\* A fresh run and a missing run have no failure reason.
LEMMA FreshRunBare ==
    /\ NoRun.reason = "none"
    /\ \A state, at : NewRun(state, at).reason = "none" /\ NewRun(state, at).state = state
BY DEF NewRun, NoRun

\* A failure keeps both facts, and the run ends with the reason its lease gives.
LEMMA FailStepBare ==
    ASSUME NEW r \in Row, NEW c, NEW a \in Attempts, NEW at \in Nat,
           RowShape(r), RowBare(r), FailStep(r, c, a, at)
    PROVE  RowBare(c) /\ c.checkpoints = r.checkpoints /\ c.runs[a].state = "failed"
             /\ c.last \in {a, a + 1}
             /\ (Expired(r, a, at) => c.runs[a].reason = "lease_expired")
             /\ (~Expired(r, a, at) => c.runs[a].reason = "error")
<1>. DEFINE reason == IF Expired(r, a, at) THEN "lease_expired" ELSE "error"
            av == at + r.req.delay[a]
<1>1. /\ reason \in {"error", "lease_expired"} /\ Owned(r, a) /\ ~CancellationDue(r, at)
      /\ c = Failed(r, a, reason, at)
  BY DEF FailStep
<1>2. (Expired(r, a, at) => reason = "lease_expired") /\ (~Expired(r, a, at) => reason = "error")
  OBVIOUS
<1>. HIDE DEF reason
<1>3. /\ c.checkpoints = r.checkpoints
      /\ c.runs[a].state = "failed" /\ c.runs[a].reason = reason
      /\ \/ /\ c.state \in {"failed", "cancelled"} /\ c.last = a
            /\ \A b \in Attempts \ {a} : c.runs[b] = r.runs[b]
         \/ /\ c.state \in {"pending", "sleeping"} /\ c.last = a + 1
            /\ c.runs[a + 1] = NewRun(c.state, av)
            /\ \A b \in Attempts \ {a, a + 1} : c.runs[b] = r.runs[b]
  BY <1>1, FailedFields
<1>4. NewRun(c.state, av).reason = "none"
  BY FreshRunBare
<1>. HIDE DEF av
<1>5. Live(c) /\ \A b \in Attempts : c.runs[b].state # "failed" => c.runs[b].reason = "none"
  BY <1>3, <1>4 DEF Live, RowBare
<1>. QED BY <1>2, <1>3, <1>5 DEF RowBare

\* A claim keeps both facts and the checkpoints.
LEMMA ClaimStepBare ==
    ASSUME NEW r \in Row, NEW c, NEW at \in Nat, RowShape(r), RowBare(r), ClaimStep(r, c, at)
    PROVE  /\ RowBare(c) /\ c.checkpoints = r.checkpoints /\ c.state = "running"
           /\ \A b \in Attempts \ {r.last} : c.runs[b] = r.runs[b]
<1>1. PICK w \in Workers : c = Claimed(r, w, at)
  BY DEF ClaimStep
<1>2. Live(r) /\ r.last \in Attempts /\ r.runs[r.last].state # "failed"
  BY DEF ClaimStep, Claimable, Live, Row, Current
<1>3. /\ c.state = "running" /\ c.checkpoints = r.checkpoints
      /\ c.runs[r.last].reason = r.runs[r.last].reason
      /\ \A b \in Attempts \ {r.last} : c.runs[b] = r.runs[b]
  BY <1>1, <1>2, ClaimedFields
<1>4. Live(c) /\ \A b \in Attempts : c.runs[b].state # "failed" => c.runs[b].reason = "none"
  BY <1>2, <1>3 DEF Live, RowBare
<1>. QED BY <1>3, <1>4 DEF RowBare

\* So does a cancellation, which releases every active run.
LEMMA CancelStepBare ==
    ASSUME NEW r \in Row, NEW c, NEW at \in Nat, RowBare(r), CancelStep(r, c, at)
    PROVE  /\ RowBare(c) /\ c.checkpoints = r.checkpoints /\ c.state = "cancelled"
           /\ \A b \in Attempts : r.runs[b].state \in Active => c.runs[b].state = "cancelled"
<1>1. PICK read \in 0 .. at : c = Cancelled(r, read)
  BY DEF CancelStep
<1>2. /\ c.state = "cancelled" /\ c.checkpoints = r.checkpoints
      /\ \A b \in Attempts : c.runs[b] = IF r.runs[b].state \in Active
                                         THEN Release(r.runs[b], "cancelled")
                                         ELSE r.runs[b]
  BY <1>1, CancelledFields DEF CancelStep
<1>3. \A b \in Attempts : /\ Release(r.runs[b], "cancelled").state = "cancelled"
                          /\ Release(r.runs[b], "cancelled").reason = r.runs[b].reason
  BY ReleaseFields DEF Row
<1>4. \A b \in Attempts : c.runs[b].state # "failed" => c.runs[b].reason = "none"
  BY <1>2, <1>3 DEF RowBare, Active
<1>. QED BY <1>2, <1>3, <1>4 DEF RowBare, Live

\* So does a manual retry, which adds a fresh run.
LEMMA RetryStepBare ==
    ASSUME NEW r \in Row, NEW c, NEW at \in Nat, RowBare(r), RetryStep(r, c, at)
    PROVE  RowBare(c) /\ c.checkpoints = r.checkpoints
<1>1. PICK read \in 0 .. at : c = Retried(r, read)
  BY DEF RetryStep
<1>2. r.attempts < MaxAttempt /\ read \in Nat
  BY DEF RetryStep
<1>3. /\ c.state = "pending" /\ c.checkpoints = r.checkpoints
      /\ c.runs[r.attempts + 1] = NewRun("pending", read)
      /\ \A b \in Attempts \ {r.attempts + 1} : c.runs[b] = r.runs[b]
  BY <1>1, <1>2, RetriedFields
<1>4. Live(c) /\ \A b \in Attempts : c.runs[b].state # "failed" => c.runs[b].reason = "none"
  BY <1>3, FreshRunBare DEF Live, RowBare
<1>. QED BY <1>3, <1>4 DEF RowBare

\* The owner's own calls; only a checkpoint write changes the checkpoints.
LEMMA OwnerStepBare ==
    ASSUME NEW r \in Row, NEW c, NEW a \in Attempts, NEW at \in Nat,
           RowBare(r), OwnerStep(r, c, a, at)
    PROVE  /\ RowBare(c) /\ Live(c)
           /\ c.checkpoints = r.checkpoints \/ FirstWrite(r, c)
           /\ \/ c.runs[a].state \in {"completed", "sleeping"} /\ c.runs[a].reason = "none"
              \/ /\ c.runs[a].state = "running" /\ c.runs[a].reason = "none"
                 /\ c.runs[a].claimed_by = r.runs[a].claimed_by
                 /\ c.runs[a].claim_expires_at >= r.runs[a].claim_expires_at
<1>1. /\ Owned(r, a) /\ ~CancellationDue(r, at) /\ Live(r) /\ r.runs[a] \in RunType
      /\ r.runs[a].reason = "none"
  BY DEF OwnerStep, Owned, Live, RowBare, Row
<1>2. CASE c = Completed(r, a, at)
  <2>1. /\ c.state = "completed" /\ c.checkpoints = r.checkpoints
        /\ c.runs[a].state = "completed" /\ c.runs[a].reason = "none"
        /\ \A b \in Attempts \ {a} : c.runs[b] = r.runs[b]
    BY <1>1, <1>2, CompletedFields
  <2>. QED BY <2>1 DEF RowBare, Live
<1>3. ASSUME NEW wake \in Nat, ~CancellationDue(r, wake), wake > at,
             c = Scheduled(r, a, wake, at)
      PROVE  /\ c.state = "sleeping" /\ c.checkpoints = r.checkpoints
             /\ c.runs[a].state = "sleeping" /\ c.runs[a].reason = "none"
             /\ \A b \in Attempts \ {a} : c.runs[b] = r.runs[b]
  BY <1>1, <1>3, ScheduledFields
<1>4. CASE c = Renewed(r, a, at)
  <2>. DEFINE lease == LargerOf(r.runs[a].claim_expires_at, at + Lease)
  <2>1. /\ c.state = r.state /\ c.checkpoints = r.checkpoints
        /\ c.runs[a] = [r.runs[a] EXCEPT !.claim_expires_at = lease]
        /\ lease >= r.runs[a].claim_expires_at
        /\ \A b \in Attempts \ {a} : c.runs[b] = r.runs[b]
    BY <1>4, RenewedFields
  <2>. HIDE DEF lease
  <2>2. /\ c.runs[a].state = "running" /\ c.runs[a].reason = "none"
        /\ c.runs[a].claimed_by = r.runs[a].claimed_by
        /\ c.runs[a].claim_expires_at = lease
    BY <2>1, <1>1 DEF RunType, Owned
  <2>3. RowBare(c) /\ Live(c)
    <3>1. c.state = r.state /\ \A b \in Attempts \ {a} : c.runs[b] = r.runs[b]
      BY <2>1
    <3>2. Live(c)
      BY <3>1, <1>1 DEF Live
    <3>3. \A b \in Attempts : c.runs[b].state # "failed" => c.runs[b].reason = "none"
      BY <3>1, <2>2 DEF RowBare
    <3>. QED BY <3>2, <3>3 DEF RowBare
  <2>4. c.runs[a].claim_expires_at >= r.runs[a].claim_expires_at
    BY <2>1, <2>2
  <2>. QED BY <2>1, <2>2, <2>3, <2>4
<1>5. ASSUME NEW step \in Steps, NEW value \in Values, c = Checkpointed(r, step, value)
      PROVE  c.state = r.state /\ c.runs = r.runs
  BY <1>5, CheckpointedFields
<1>6. r.runs[a].claim_expires_at >= r.runs[a].claim_expires_at /\ r.runs[a].state = "running"
  BY <1>1 DEF RunType, OrNull, Null, Owned
<1>7. CASE \E wake \in Nat : ~CancellationDue(r, wake) /\ wake > at /\ c = Scheduled(r, a, wake, at)
  <2>1. /\ c.state = "sleeping" /\ c.checkpoints = r.checkpoints
        /\ c.runs[a].state = "sleeping" /\ c.runs[a].reason = "none"
        /\ \A b \in Attempts \ {a} : c.runs[b] = r.runs[b]
    BY <1>3, <1>7
  <2>. QED BY <2>1 DEF RowBare, Live
<1>8. CASE FirstWrite(r, c)
  <2>1. c.state = r.state /\ c.runs = r.runs
    BY <1>5, <1>8 DEF FirstWrite
  <2>. QED BY <2>1, <1>1, <1>6, <1>8 DEF RowBare, Live
<1>. QED BY <1>2, <1>4, <1>7, <1>8 DEF OwnerStep

\* Every step of a row keeps both facts.
LEMMA RowBareStep ==
    ASSUME NEW r \in Row, NEW c, NEW at \in Nat, RowShape(r), RowBare(r), RowNext(r, c, at)
    PROVE  RowBare(c)
<1>1. CASE c = r
  BY <1>1
<1>2. CASE SpawnStep(r, c, at)
  <2>1. PICK req \in Requests, read \in 0 .. at : c = Spawned(req, read)
    BY <1>2 DEF SpawnStep
  <2>2. /\ c.state = "pending"
        /\ \A b \in Attempts : c.runs[b] = IF b = 1 THEN NewRun("pending", read) ELSE NoRun
    BY <2>1, SpawnedFields
  <2>. QED BY <2>2, FreshRunBare DEF RowBare, Live
<1>3. CASE c = NoTask("deleted")
  BY <1>3, FreshRunBare DEF NoTask, RowBare
<1>4. ASSUME NEW a \in Attempts, NEW mid \in Row, FailStep(r, mid, a, at), RowShape(mid),
             ClaimStep(mid, c, at)
      PROVE  RowBare(c)
  BY <1>4, FailStepBare, ClaimStepBare
<1>5. CASE CancelStep(r, c, at)
  BY <1>5, CancelStepBare
<1>6. CASE RetryStep(r, c, at)
  BY <1>6, RetryStepBare
<1>7. CASE ClaimStep(r, c, at)
  BY <1>7, ClaimStepBare
<1>8. ASSUME NEW a \in Attempts, OwnerStep(r, c, a, at) \/ FailStep(r, c, a, at)
      PROVE  RowBare(c)
  BY <1>8, OwnerStepBare, FailStepBare
<1>. QED BY <1>1, <1>2, <1>3, <1>4, <1>5, <1>6, <1>7, <1>8 DEF RowNext, ClaimRow, ReclaimStep

\* Every action keeps them.
LEMMA BareStep ==
    ASSUME BareInv, [Next]_vars
    PROVE  BareInv'
<1>1. ShapeInv'
  BY ShapeStep DEF BareInv
<1>2. ASSUME NEW t \in Tasks PROVE RowBare(tasks'[t])
  <2>1. now \in Nat /\ tasks[t] \in Row /\ RowShape(tasks[t]) /\ RowBare(tasks[t])
    BY DEF BareInv, ShapeInv, TypeOK
  <2>2. RowNext(tasks[t], tasks'[t], now)
    BY RowSteps DEF BareInv
  <2>. QED BY <2>1, <2>2, RowBareStep
<1>. QED BY <1>1, <1>2 DEF BareInv

\* No row of a missing task has checkpoints.
LEMMA BareInit ==
    ASSUME Init
    PROVE  BareInv
<1>1. ShapeInv
  BY NoTaskTyped, NoTaskShape, BoundsAssumption DEF Init, TypeOK, ShapeInv
<1>2. RowBare(NoTask("absent"))
  BY FreshRunBare DEF RowBare, NoTask
<1>. QED BY <1>1, <1>2 DEF BareInv, Init

\* The inductive invariant the history of a row is read from.
LEMMA BareInductive == Spec => []BareInv
BY BareInit, BareStep, PTL DEF Spec

\* The checkpoints of a row after a step: only the owner of a lease that holds
\* adds one, under a name that has none.
LEMMA CheckpointStep ==
    ASSUME NEW r \in Row, NEW c, NEW at \in Nat, RowShape(r), RowBare(r), RowNext(r, c, at),
           Live(r)
    PROVE  \/ c.checkpoints = r.checkpoints
           \/ c.state = "deleted" /\ r.state \in Terminal
           \/ \E a \in Attempts : Owned(r, a) /\ ~Expired(r, a, at) /\ FirstWrite(r, c)
<1>1. CASE c = r \/ CancelStep(r, c, at) \/ RetryStep(r, c, at) \/ ClaimStep(r, c, at)
  BY <1>1, CancelStepBare, RetryStepBare, ClaimStepBare
<1>2. ASSUME NEW a \in Attempts, OwnerStep(r, c, a, at)
      PROVE  c.checkpoints = r.checkpoints \/ (Owned(r, a) /\ ~Expired(r, a, at) /\ FirstWrite(r, c))
  <2>1. Owned(r, a) /\ ~Expired(r, a, at)
    BY <1>2 DEF OwnerStep
  <2>. QED BY <1>2, <2>1, OwnerStepBare
<1>3. ASSUME NEW a \in Attempts, FailStep(r, c, a, at)
      PROVE  c.checkpoints = r.checkpoints
  BY <1>3, FailStepBare
<1>4. ASSUME NEW a \in Attempts, NEW mid \in Row, FailStep(r, mid, a, at), RowShape(mid),
             ClaimStep(mid, c, at)
      PROVE  c.checkpoints = r.checkpoints
  BY <1>4, FailStepBare, ClaimStepBare
<1>5. CASE r.state \in Terminal /\ c = NoTask("deleted")
  BY <1>5 DEF NoTask
<1>. QED
  BY <1>1, <1>2, <1>3, <1>4, <1>5 DEF RowNext, ClaimRow, ReclaimStep, SpawnStep, Live

\* A committed checkpoint stays while its task does.
LEMMA CheckpointsKept ==
    ASSUME NEW r \in Row, NEW c, NEW at \in Nat, RowShape(r), RowBare(r), RowNext(r, c, at),
           Live(r), Live(c), NEW s \in Steps, r.checkpoints[s] # NoValue
    PROVE  c.checkpoints[s] = r.checkpoints[s]
BY CheckpointStep, CheckpointedFields DEF FirstWrite, Live

\* A checkpoint's first value survives every retry, lease loss and manual retry,
\* whoever writes to the same name later.
THEOREM CheckpointsImmutableHolds == Spec => CheckpointsImmutable
<1>1. ASSUME BareInv, [Next]_vars, NEW t \in Tasks, NEW s \in Steps,
             tasks[t].checkpoints[s] # NoValue
      PROVE  \/ tasks'[t].checkpoints[s] = tasks[t].checkpoints[s]
             \/ tasks'[t].state = "deleted"
  <2>1. now \in Nat /\ tasks[t] \in Row /\ RowShape(tasks[t]) /\ RowBare(tasks[t])
    BY <1>1 DEF BareInv, ShapeInv, TypeOK
  <2>2. RowNext(tasks[t], tasks'[t], now)
    BY <1>1, RowSteps DEF BareInv
  <2>3. Live(tasks[t])
    BY <1>1, <2>1 DEF RowBare
  <2>. QED BY <1>1, <2>1, <2>2, <2>3, CheckpointStep, CheckpointedFields DEF FirstWrite
<1>2. BareInv /\ [Next]_vars =>
        [\A t \in Tasks, s \in Steps : tasks[t].checkpoints[s] # NoValue =>
            \/ tasks'[t].checkpoints[s] = tasks[t].checkpoints[s]
            \/ tasks'[t].state = "deleted"]_vars
  BY <1>1
<1>. QED
  BY <1>2, BareInductive, PTL DEF Spec, CheckpointsImmutable

\* A running run is the owned one.
LEMMA RunningOwned ==
    ASSUME NEW r \in Row, NEW a \in Attempts, RowShape(r), r.runs[a].state = "running"
    PROVE  Owned(r, a)
<1>1. Live(r)
  BY DEF RowShape, NoRun
<1>2. a = r.last
  BY <1>1 DEF RowShape, History, NoRun, Row, Attempts
<1>. QED BY <1>1, <1>2 DEF RowShape, Authoritative, Current, Owned

RowFenced(r, c, at) ==
    \A a \in Attempts :
        LET run == r.runs[a]  run2 == c.runs[a]
        IN  run.state = "running" =>
              IF run.claim_expires_at <= at
              THEN /\ run2 = run \/ run2.state = "cancelled"
                        \/ (run2.state = "failed" /\ run2.reason = "lease_expired")
                   /\ c.checkpoints = r.checkpoints
              ELSE /\ run2.reason # "lease_expired"
                   /\ run2.state = "running" =>
                        /\ run2.claimed_by = run.claimed_by
                        /\ run2.claim_expires_at >= run.claim_expires_at

\* What a step may do to a running run, past its lease and within it.
LEMMA RowFencedStep ==
    ASSUME NEW r \in Row, NEW c, NEW at \in Nat, RowShape(r), RowBare(r), RowNext(r, c, at)
    PROVE  RowFenced(r, c, at)
<1>. SUFFICES ASSUME NEW a \in Attempts, r.runs[a].state = "running"
              PROVE  IF Expired(r, a, at)
                     THEN /\ \/ c.runs[a] = r.runs[a] \/ c.runs[a].state = "cancelled"
                             \/ c.runs[a].state = "failed" /\ c.runs[a].reason = "lease_expired"
                          /\ c.checkpoints = r.checkpoints
                     ELSE /\ c.runs[a].reason # "lease_expired"
                          /\ c.runs[a].state = "running" =>
                               /\ c.runs[a].claimed_by = r.runs[a].claimed_by
                               /\ c.runs[a].claim_expires_at >= r.runs[a].claim_expires_at
  BY DEF RowFenced, Expired
<1>1. Owned(r, a) /\ r.runs[a].reason = "none" /\ r.runs[a].claim_expires_at \in Int
  BY RunningOwned DEF RowBare, Row, RunType, OrNull, Null
<1>2. /\ \A b \in Attempts : Owned(r, b) => b = a
      /\ ~SpawnStep(r, c, at) /\ ~RetryStep(r, c, at) /\ ~ClaimStep(r, c, at)
      /\ r.state \notin Terminal
  BY <1>1 DEF Owned, SpawnStep, RetryStep, ClaimStep, Claimable, Terminal
<1>3. CASE c = r
  BY <1>1, <1>3
<1>4. CASE CancelStep(r, c, at)
  <2>1. /\ c.runs[a].state = "cancelled" /\ c.checkpoints = r.checkpoints /\ RowBare(c)
    BY <1>4, CancelStepBare DEF Active
  <2>. QED BY <2>1 DEF RowBare
<1>5. CASE OwnerStep(r, c, a, at)
  BY <1>5, OwnerStepBare DEF OwnerStep
<1>6. CASE FailStep(r, c, a, at)
  BY <1>6, FailStepBare
<1>7. ASSUME NEW mid \in Row, FailStep(r, mid, a, at), Expired(r, a, at), RowShape(mid),
             ClaimStep(mid, c, at)
      PROVE  /\ c.runs[a].state = "failed" /\ c.runs[a].reason = "lease_expired"
             /\ c.checkpoints = r.checkpoints
  <2>1. /\ RowBare(mid) /\ mid.checkpoints = r.checkpoints /\ mid.runs[a].state = "failed"
        /\ mid.runs[a].reason = "lease_expired"
    BY <1>7, FailStepBare
  <2>2. mid.last # a
    BY <1>7, <2>1 DEF ClaimStep, Claimable, Current
  <2>3. c.checkpoints = mid.checkpoints /\ c.runs[a] = mid.runs[a]
    BY <1>7, <2>1, <2>2, ClaimStepBare
  <2>. QED BY <2>1, <2>3
<1>8. \/ c = r \/ CancelStep(r, c, at) \/ OwnerStep(r, c, a, at) \/ FailStep(r, c, a, at)
      \/ \E mid \in Row : /\ FailStep(r, mid, a, at) /\ Expired(r, a, at)
                          /\ RowShape(mid) /\ ClaimStep(mid, c, at)
  BY <1>2 DEF RowNext, ClaimRow, ReclaimStep, OwnerStep, FailStep
<1>. QED BY <1>3, <1>4, <1>5, <1>6, <1>7, <1>8

\* The lease fences both ways: past it the run's worker changes nothing and the
\* run can only be reaped or cancelled; within it nobody reaps the run, takes it
\* over or shortens the lease.
THEOREM LeaseFencingHolds == Spec => LeaseFencing
<1>. DEFINE FencedStep == \A t \in Tasks : RowFenced(tasks[t], tasks'[t], now)
<1>1. BareInv /\ [Next]_vars => FencedStep
  <2>. SUFFICES ASSUME BareInv, [Next]_vars, NEW t \in Tasks
                PROVE  RowFenced(tasks[t], tasks'[t], now)
    OBVIOUS
  <2>1. now \in Nat /\ tasks[t] \in Row /\ RowShape(tasks[t]) /\ RowBare(tasks[t])
    BY DEF BareInv, ShapeInv, TypeOK
  <2>2. RowNext(tasks[t], tasks'[t], now)
    BY RowSteps DEF BareInv
  <2>. QED BY <2>1, <2>2, RowFencedStep
<1>2. FencedStep => [\A t \in Tasks, a \in Attempts :
        LET r == tasks[t]  run == r.runs[a]  run2 == tasks'[t].runs[a]
        IN  run.state = "running" =>
              IF run.claim_expires_at <= now
              THEN /\ run2 = run \/ run2.state = "cancelled"
                        \/ (run2.state = "failed" /\ run2.reason = "lease_expired")
                   /\ tasks'[t].checkpoints = r.checkpoints
              ELSE /\ run2.reason # "lease_expired"
                   /\ run2.state = "running" =>
                        /\ run2.claimed_by = run.claimed_by
                        /\ run2.claim_expires_at >= run.claim_expires_at]_vars
  BY DEF RowFenced
<1>. QED
  BY <1>1, <1>2, BareInductive, PTL DEF Spec, LeaseFencing

-----------------------------------------------------------------------------
(* The refinement of StedaTask.                                            *)

LifeStep(r, c) == LifeOf(c) = LifeOf(r) \/ Lifecycle!Step(LifeOf(r), LifeOf(c))

\* The lifecycle fields of a row.
LEMMA LifeFields ==
    ASSUME NEW r
    PROVE  /\ LifeOf(r).attempt = r.attempts
           /\ LifeOf(r).budget = IF Live(r) THEN r.max_attempts ELSE 0
           /\ LifeOf(r) = [phase |-> LifeOf(r).phase, attempt |-> LifeOf(r).attempt,
                           budget |-> LifeOf(r).budget]
           /\ r.state \in {"pending", "sleeping"} => LifeOf(r).phase = "waiting"
           /\ r.state = "running" => LifeOf(r).phase = "executing"
           /\ r.state \in Terminal => LifeOf(r).phase = r.state
           /\ r.state = "absent" => LifeOf(r).phase = "none"
           /\ r.state = "deleted" => LifeOf(r).phase = "gone"
BY DEF LifeOf, Phase, Terminal

\* A row that shows the next attempt is one abstract step ahead.
LEMMA NextAttemptStep ==
    ASSUME NEW r \in Row, NEW c, r.state = "running", r.attempts < r.max_attempts,
           c.state \in {"pending", "sleeping", "running"},
           c.attempts = r.attempts + 1, c.max_attempts = r.max_attempts
    PROVE  LifeStep(r, c)
<1>. DEFINE phase == IF c.state = "running" THEN "executing" ELSE "waiting"
<1>1. LifeOf(r) = [phase |-> "executing", attempt |-> r.attempts, budget |-> r.max_attempts]
  BY DEF LifeOf, Phase, Live
<1>2. LifeOf(c) = [phase |-> phase, attempt |-> r.attempts + 1, budget |-> r.max_attempts]
  <2>1. Phase(c) = phase /\ Live(c)
    BY DEF Phase, Live
  <2>. HIDE DEF phase
  <2>. QED BY <2>1 DEF LifeOf
<1>3. phase \in {"waiting", "executing"}
  OBVIOUS
<1>. HIDE DEF phase
<1>4. r.attempts \in Int /\ r.max_attempts \in Int
  BY DEF Row, Attempts
<1>5. ASSUME NEW l, NEW m, NEW p \in {"waiting", "executing"}, NEW x \in Int, NEW y \in Int,
             x < y, l = [phase |-> "executing", attempt |-> x, budget |-> y],
             m = [phase |-> p, attempt |-> x + 1, budget |-> y]
      PROVE  Lifecycle!NextAttempt(l, m)
  <2>1. l.phase = "executing" /\ l.attempt = x /\ l.budget = y
    BY <1>5
  <2>2. m = [l EXCEPT !.phase = p, !.attempt = @ + 1]
    <3>. DEFINE k == [l EXCEPT !.phase = p]
                n == [k EXCEPT !.attempt = x + 1]
    <3>1. k = [phase |-> p, attempt |-> x, budget |-> y]
      BY <1>5
    <3>2. n = m
      <4>. HIDE DEF k
      <4>1. \A z : [k EXCEPT !.attempt = z] = [phase |-> p, attempt |-> z, budget |-> y]
        BY <3>1
      <4>. QED BY <4>1, <1>5
    <3>3. n = [l EXCEPT !.phase = p, !.attempt = @ + 1]
      BY <2>1, <1>5
    <3>. QED BY <3>2, <3>3
  <2>. QED BY <1>5, <2>1, <2>2 DEF Lifecycle!NextAttempt
<1>6. Lifecycle!NextAttempt(LifeOf(r), LifeOf(c))
  BY <1>1, <1>2, <1>3, <1>4, <1>5
<1>. QED BY <1>6 DEF LifeStep, Lifecycle!Step

\* Every step of a row is one step of the abstract task, or none.
LEMMA RowLifeStep ==
    ASSUME NEW r \in Row, NEW c, NEW at \in Nat, RowShape(r), RowNext(r, c, at)
    PROVE  LifeStep(r, c)
<1>1. CASE c = r
  BY <1>1 DEF LifeStep
<1>2. CASE SpawnStep(r, c, at)
  <2>1. PICK req \in Requests, read \in 0 .. at : c = Spawned(req, read)
    BY <1>2 DEF SpawnStep
  <2>2. c.state = "pending" /\ c.attempts = 1 /\ c.max_attempts >= 1
    BY <2>1, SpawnedFields, RequestTyped DEF RequestType, Attempts
  <2>. QED BY <1>2, <2>2, LifeFields
           DEF SpawnStep, LifeStep, Lifecycle!Step, Lifecycle!Submit, Live
<1>3. CASE CancelStep(r, c, at)
  <2>1. /\ c.state = "cancelled" /\ c.attempts = r.attempts /\ c.max_attempts = r.max_attempts
        /\ r.state \in Active
    BY <1>3, CancelledFields DEF CancelStep
  <2>2. Lifecycle!End(LifeOf(r), LifeOf(c))
    BY <2>1, LifeFields DEF Lifecycle!End, Lifecycle!Outcomes, Live, Active, Terminal
  <2>. QED BY <2>2 DEF LifeStep, Lifecycle!Step
<1>4. CASE RetryStep(r, c, at)
  <2>1. PICK read \in 0 .. at : c = Retried(r, read)
    BY <1>4 DEF RetryStep
  <2>2. r.state = "failed" /\ r.attempts < MaxAttempt /\ read \in Nat
    BY <1>4 DEF RetryStep
  <2>3. /\ c.state = "pending" /\ c.attempts = r.attempts + 1
        /\ c.max_attempts = LargerOf(r.max_attempts, r.attempts + 1)
    BY <2>1, <2>2, RetriedFields
  <2>4. c.max_attempts = IF r.max_attempts > r.attempts THEN r.max_attempts ELSE r.attempts + 1
    BY <2>3, BoundsAssumption DEF LargerOf, Row, Attempts
  <2>5. Lifecycle!Reopen(LifeOf(r), LifeOf(c))
    BY <2>2, <2>3, <2>4, LifeFields DEF Lifecycle!Reopen, Live, Terminal
  <2>. QED BY <2>5 DEF LifeStep, Lifecycle!Step
<1>5. CASE ClaimStep(r, c, at)
  <2>1. PICK w \in Workers : c = Claimed(r, w, at)
    BY <1>5 DEF ClaimStep
  <2>2. Live(r) /\ r.state \in {"pending", "sleeping"}
    BY <1>5 DEF ClaimStep, Claimable, Live
  <2>3. c.state = "running" /\ c.attempts = r.attempts /\ c.max_attempts = r.max_attempts
    BY <2>1, <2>2, ClaimedFields
  <2>4. Lifecycle!Start(LifeOf(r), LifeOf(c))
    BY <2>2, <2>3, LifeFields DEF Lifecycle!Start, Live
  <2>. QED BY <2>4 DEF LifeStep, Lifecycle!Step
<1>6. ASSUME NEW a \in Attempts, OwnerStep(r, c, a, at)
      PROVE  LifeStep(r, c)
  <2>1. /\ r.state = "running" /\ c.attempts = r.attempts /\ c.max_attempts = r.max_attempts
        /\ c.state \in {"running", "sleeping", "completed"}
    <3>1. Owned(r, a) /\ ~CancellationDue(r, at) /\ r.state = "running"
      BY <1>6 DEF OwnerStep, Owned
    <3>2. CASE c = Completed(r, a, at)
      BY <3>1, <3>2, CompletedFields
    <3>3. CASE \E wake \in Nat : ~CancellationDue(r, wake) /\ wake > at /\ c = Scheduled(r, a, wake, at)
      BY <3>1, <3>3, ScheduledFields
    <3>4. CASE FirstWrite(r, c)
      BY <3>1, <3>4, CheckpointedFields DEF FirstWrite
    <3>5. CASE c = Renewed(r, a, at)
      BY <3>1, <3>5, RenewedFields
    <3>. QED BY <1>6, <3>2, <3>3, <3>4, <3>5 DEF OwnerStep
  <2>2. CASE c.state = "running"
    <3>1. LifeOf(c) = LifeOf(r)
      BY <2>1, <2>2 DEF LifeOf, Phase, Live
    <3>. QED BY <3>1 DEF LifeStep
  <2>3. CASE c.state = "sleeping"
    <3>1. Lifecycle!Suspend(LifeOf(r), LifeOf(c))
      BY <2>1, <2>3, LifeFields DEF Lifecycle!Suspend, Live
    <3>. QED BY <3>1 DEF LifeStep, Lifecycle!Step
  <2>4. CASE c.state = "completed"
    <3>1. Lifecycle!End(LifeOf(r), LifeOf(c))
      BY <2>1, <2>4, LifeFields DEF Lifecycle!End, Lifecycle!Outcomes, Live, Terminal
    <3>. QED BY <3>1 DEF LifeStep, Lifecycle!Step
  <2>. QED BY <2>1, <2>2, <2>3, <2>4
<1>7. ASSUME NEW a \in Attempts, NEW mid, FailStep(r, mid, a, at)
      PROVE  /\ r.state = "running" /\ mid.max_attempts = r.max_attempts /\ r.attempts = a
             /\ \/ mid.state \in {"failed", "cancelled"} /\ mid.attempts = a
                \/ /\ mid.state \in {"pending", "sleeping"} /\ mid.attempts = a + 1
                   /\ a < r.max_attempts
  <2>1. PICK reason \in {"error", "lease_expired"} : mid = Failed(r, a, reason, at)
    BY <1>7 DEF FailStep
  <2>2. Owned(r, a) /\ ~CancellationDue(r, at)
    BY <1>7 DEF FailStep
  <2>3. /\ mid.max_attempts = r.max_attempts /\ r.attempts = a
        /\ \/ mid.state \in {"failed", "cancelled"} /\ mid.attempts = a
           \/ /\ mid.state \in {"pending", "sleeping"} /\ mid.attempts = a + 1
              /\ a + 1 <= r.max_attempts
    BY <2>1, <2>2, FailedFields
  <2>. QED BY <2>2, <2>3 DEF Owned, Row, Attempts
<1>8. ASSUME NEW a \in Attempts, FailStep(r, c, a, at)
      PROVE  LifeStep(r, c)
  <2>1. CASE c.state \in {"failed", "cancelled"} /\ c.attempts = a
    <3>1. Lifecycle!End(LifeOf(r), LifeOf(c))
      BY <1>7, <1>8, <2>1, LifeFields DEF Lifecycle!End, Lifecycle!Outcomes, Live, Terminal
    <3>. QED BY <3>1 DEF LifeStep, Lifecycle!Step
  <2>2. CASE c.state \in {"pending", "sleeping"} /\ c.attempts = a + 1 /\ a < r.max_attempts
    BY <1>7, <1>8, <2>2, NextAttemptStep
  <2>. QED BY <1>7, <1>8, <2>1, <2>2
<1>9. ASSUME NEW a \in Attempts, NEW mid \in Row, FailStep(r, mid, a, at), RowShape(mid),
             ClaimStep(mid, c, at)
      PROVE  LifeStep(r, c)
  <2>1. PICK w \in Workers : c = Claimed(mid, w, at)
    BY <1>9 DEF ClaimStep
  <2>2. Live(mid) /\ mid.state \in {"pending", "sleeping"}
    BY <1>9 DEF ClaimStep, Claimable, Live
  <2>3. c.state = "running" /\ c.attempts = mid.attempts /\ c.max_attempts = mid.max_attempts
    BY <2>1, <2>2, <1>9, ClaimedFields
  <2>4. /\ r.state = "running" /\ mid.max_attempts = r.max_attempts /\ r.attempts = a
        /\ mid.attempts = a + 1 /\ a < r.max_attempts
    BY <1>7, <1>9, <2>2
  <2>. QED BY <2>3, <2>4, NextAttemptStep
<1>10. CASE r.state \in Terminal /\ c = NoTask("deleted")
  <2>1. c.state = "deleted" /\ c.attempts = 0
    BY <1>10 DEF NoTask
  <2>2. Lifecycle!Forget(LifeOf(r), LifeOf(c))
    BY <1>10, <2>1, LifeFields
    DEF Lifecycle!Forget, Lifecycle!Outcomes, Lifecycle!Nothing, Live, Terminal
  <2>. QED BY <2>2 DEF LifeStep, Lifecycle!Step
<1>. QED BY <1>1, <1>2, <1>3, <1>4, <1>5, <1>6, <1>8, <1>9, <1>10 DEF RowNext, ClaimRow, ReclaimStep

\* The lifecycle of a typed row is typed.
LEMMA LifeTyped ==
    ASSUME NEW r \in Row
    PROVE  LifeOf(r) \in Lifecycle!Life
BY BoundsAssumption
DEF LifeOf, Phase, Row, Attempts, Live, Active, Terminal, Lifecycle!Life, Lifecycle!Outcomes

\* Every behaviour of the rows is a behaviour of the abstract task: one outcome,
\* attempts one at a time within the budget, reopened only by a manual retry of a
\* failed task.
THEOREM RefinesTaskLifecycle == Spec => ImplementsTaskLifecycle
<1>. DEFINE lifeBar == [t \in Tasks |-> LifeOf(tasks[t])]
<1>1. Init => Lifecycle!Init
  BY DEF Init, Lifecycle!Init, Lifecycle!Nothing, LifeOf, Phase, NoTask, Live
<1>2. ShapeInv /\ ShapeInv' /\ [Next]_vars => [Lifecycle!Next]_lifeBar
  <2>. SUFFICES ASSUME ShapeInv, ShapeInv', [Next]_vars
                PROVE  Lifecycle!Next
    OBVIOUS
  <2>1. \A t \in Tasks : LifeOf(tasks'[t]) \in Lifecycle!Life
    BY LifeTyped DEF ShapeInv, TypeOK
  <2>2. \A t \in Tasks : LifeStep(tasks[t], tasks'[t])
    <3>. TAKE t \in Tasks
    <3>1. now \in Nat /\ tasks[t] \in Row /\ RowShape(tasks[t])
      BY DEF ShapeInv, TypeOK
    <3>. QED BY <3>1, RowSteps, RowLifeStep
  <2>. QED BY <2>1, <2>2 DEF Lifecycle!Next, LifeStep
<1>. QED
  BY <1>1, <1>2, ShapeInductive, PTL DEF Spec, ImplementsTaskLifecycle, Lifecycle!Spec
=============================================================================
