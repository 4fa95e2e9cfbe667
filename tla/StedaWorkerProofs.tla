------------------------ MODULE StedaWorkerProofs ------------------------
(***************************************************************************)
(* Proofs about StedaWorker and StedaMetrics: what workers, clients and    *)
(* maintenance do to the run another worker is executing, and what the     *)
(* counters say of it.                                                     *)
(***************************************************************************)
EXTENDS StedaMetrics, StedaQueueProofs, FiniteSetTheorems

-----------------------------------------------------------------------------
(* What a step does to a run it is not a call about.                       *)

\* The run was claimed at least once.
Begun(run) == run.state \notin {"absent", "pending", "sleeping"}

\* The run was taken from its worker, by a cancellation or by the reaper.
Taken(run) == run.state = "cancelled" \/ (run.state = "failed" /\ run.reason = "lease_expired")

\* A run that has begun stays as it is, apart from its lease, or is taken from
\* its worker, or goes with its task.
Calm(r, c, a) ==
    Begun(r.runs[a]) =>
        \/ c.runs[a].state = r.runs[a].state /\ c.runs[a].reason = r.runs[a].reason
        \/ r.runs[a].state = "running" /\ Taken(c.runs[a])
        \/ c.state = "deleted"

\* Nor does a run begin.
Silent(r, c, a) ==
    /\ Calm(r, c, a)
    /\ r.runs[a].state # "running" => c.runs[a].state # "running"

\* A row that stays as it is.
LEMMA SameSilent ==
    ASSUME NEW r, NEW a
    PROVE  Silent(r, r, a)
BY DEF Silent, Calm

\* A cancellation takes the running run.
LEMMA CancelSilent ==
    ASSUME NEW r \in Row, NEW c, NEW at \in Nat, NEW b \in Attempts, CancelStep(r, c, at)
    PROVE  Silent(r, c, b)
<1>1. PICK read \in 0 .. at : c = Cancelled(r, read)
  BY DEF CancelStep
<1>2. c.runs[b] = IF r.runs[b].state \in Active THEN Release(r.runs[b], "cancelled") ELSE r.runs[b]
  BY <1>1, CancelledFields DEF CancelStep
<1>3. Release(r.runs[b], "cancelled").state = "cancelled"
  BY ReleaseFields DEF Row
<1>. QED BY <1>2, <1>3 DEF Silent, Calm, Begun, Taken, Active

\* A failure ends its run, and only the reaper's counts as taking it; the run it
\* may insert was not there before.
LEMMA FailSilent ==
    ASSUME NEW r \in Row, NEW c, NEW a \in Attempts, NEW at \in Nat, NEW b \in Attempts,
           RowShape(r), FailStep(r, c, a, at)
    PROVE  /\ b # a \/ Expired(r, a, at) => Silent(r, c, b)
           /\ c.runs[a].state = "failed"
<1>. DEFINE reason == IF Expired(r, a, at) THEN "lease_expired" ELSE "error"
            av == at + r.req.delay[a]
<1>1. /\ reason \in {"error", "lease_expired"} /\ Owned(r, a) /\ ~CancellationDue(r, at)
      /\ c = Failed(r, a, reason, at)
  BY DEF FailStep
<1>2. Expired(r, a, at) => reason = "lease_expired"
  OBVIOUS
<1>. HIDE DEF reason
<1>3. /\ c.runs[a].state = "failed" /\ c.runs[a].reason = reason
      /\ \/ \A d \in Attempts \ {a} : c.runs[d] = r.runs[d]
         \/ /\ c.state \in {"pending", "sleeping"}
            /\ c.runs[a + 1] = NewRun(c.state, av)
            /\ \A d \in Attempts \ {a, a + 1} : c.runs[d] = r.runs[d]
  BY <1>1, FailedFields
<1>4. NewRun(c.state, av).state = c.state
  BY FreshRunBare
<1>. HIDE DEF av
<1>5. b = a + 1 => r.runs[b].state = "absent"
  BY <1>1 DEF RowShape, Live, Owned, History, NoRun, Attempts
<1>6. r.runs[a].state = "running"
  BY <1>1 DEF Owned
<1>. QED BY <1>2, <1>3, <1>4, <1>5, <1>6 DEF Silent, Calm, Begun, Taken

\* The owner's own calls concern its own run; writing a checkpoint and renewing
\* the lease leave that one running.
LEMMA OwnerSilent ==
    ASSUME NEW r \in Row, NEW c, NEW a \in Attempts, NEW at \in Nat, NEW b \in Attempts,
           OwnerStep(r, c, a, at)
    PROVE  /\ b # a => Silent(r, c, b)
           /\ FirstWrite(r, c) \/ c = Renewed(r, a, at) => Silent(r, c, b)
<1>1. Owned(r, a) /\ ~CancellationDue(r, at) /\ r.runs[a] \in RunType
  BY DEF OwnerStep, Row
<1>2. CASE c = Completed(r, a, at) /\ b # a
  <2>1. c.runs[b] = r.runs[b]
    BY <1>1, <1>2, CompletedFields
  <2>. QED BY <2>1 DEF Silent, Calm
<1>3. CASE (\E wake \in Nat : ~CancellationDue(r, wake) /\ wake > at /\ c = Scheduled(r, a, wake, at))
             /\ b # a
  <2>1. c.runs[b] = r.runs[b]
    BY <1>1, <1>3, ScheduledFields
  <2>. QED BY <2>1 DEF Silent, Calm
<1>4. CASE FirstWrite(r, c)
  <2>1. c.runs = r.runs
    BY <1>4, CheckpointedFields DEF FirstWrite
  <2>. QED BY <2>1 DEF Silent, Calm
<1>5. CASE c = Renewed(r, a, at)
  <2>. DEFINE lease == LargerOf(r.runs[a].claim_expires_at, at + Lease)
  <2>1. /\ c.runs[a] = [r.runs[a] EXCEPT !.claim_expires_at = lease]
        /\ \A d \in Attempts \ {a} : c.runs[d] = r.runs[d]
    BY <1>5, RenewedFields
  <2>. HIDE DEF lease
  <2>2. c.runs[a].state = r.runs[a].state /\ c.runs[a].reason = r.runs[a].reason
    BY <2>1, <1>1 DEF RunType
  <2>. QED BY <2>1, <2>2 DEF Silent, Calm
<1>6. FirstWrite(r, c) \/ c = Renewed(r, a, at) => Silent(r, c, b)
  BY <1>4, <1>5
<1>7. b # a => Silent(r, c, b)
  BY <1>2, <1>3, <1>6 DEF OwnerStep
<1>. QED BY <1>6, <1>7

\* Submitting, retrying by hand and deleting a task begin nothing.
LEMMA ClientSilent ==
    ASSUME NEW r \in Row, NEW c, NEW at \in Nat, NEW b \in Attempts, RowShape(r),
           \/ SpawnStep(r, c, at)
           \/ RetryStep(r, c, at)
           \/ c = NoTask("deleted")
    PROVE  Silent(r, c, b)
<1>1. CASE SpawnStep(r, c, at)
  <2>1. PICK req \in Requests, read \in 0 .. at : c = Spawned(req, read)
    BY <1>1 DEF SpawnStep
  <2>2. c.runs[b] = IF b = 1 THEN NewRun("pending", read) ELSE NoRun
    BY <2>1, SpawnedFields
  <2>3. c.runs[b].state # "running" /\ r.runs[b].state = "absent"
    BY <2>2, <1>1, FreshRunBare DEF SpawnStep, NoRun, RowShape, Live
  <2>. QED BY <2>3 DEF Silent, Calm, Begun
<1>2. CASE RetryStep(r, c, at)
  <2>1. PICK read \in 0 .. at : c = Retried(r, read)
    BY <1>2 DEF RetryStep
  <2>2. /\ c.runs[r.attempts + 1] = NewRun("pending", read)
        /\ \A d \in Attempts \ {r.attempts + 1} : c.runs[d] = r.runs[d]
    BY <1>2, <2>1, RetriedFields DEF RetryStep
  <2>3. r.runs[r.attempts + 1].state = "absent" \/ b # r.attempts + 1
    BY <1>2 DEF RetryStep, RowShape, Live, History, NoRun, Row, Attempts
  <2>. QED BY <2>2, <2>3, FreshRunBare DEF Silent, Calm, Begun
<1>3. CASE c = NoTask("deleted")
  <2>1. c.state = "deleted" /\ c.runs[b].state = "absent"
    BY <1>3 DEF NoTask, NoRun
  <2>. QED BY <2>1 DEF Silent, Calm
<1>. QED BY <1>1, <1>2, <1>3

\* A claim begins runs for its worker alone, each the current run of a task it
\* leaves running, and is calm about every run that has begun.
LEMMA ClaimEffect ==
    ASSUME ShapeInv, NEW w \in Workers, NEW names, NEW quantity,
           ClaimTasks(w, names, quantity), NEW t \in Tasks, NEW b \in Attempts
    PROVE  /\ Calm(tasks[t], tasks'[t], b)
           /\ tasks[t].runs[b].state # "running" /\ tasks'[t].runs[b].state = "running"
                => /\ b = tasks'[t].last
                   /\ tasks'[t].runs[b].claimed_by = w
                   /\ ~Begun(tasks[t].runs[b])
                   /\ tasks'[t].state = "running" /\ tasks[t].state # "deleted"
<1>. DEFINE cancelled(cancel) == CancelPass(tasks, cancel)
            reaped(cancel, reap) == ReapPass(cancelled(cancel), reap)
<1>1. PICK cancel \in SUBSET Tasks, reap \in SUBSET Tasks, claim \in SUBSET Tasks :
        /\ cancel \subseteq ExpiredTasks(tasks)
        /\ reap \subseteq ExpiredRuns(cancelled(cancel))
        /\ claim \subseteq ClaimableTasks(reaped(cancel, reap), names)
        /\ tasks' = ClaimPass(reaped(cancel, reap), claim, w)
  BY DEF ClaimTasks, Batches, ExpiredTasks, ExpiredRuns, ClaimableTasks
<1>2. /\ now \in Nat /\ tasks \in [Tasks -> Row] /\ tasks[t] \in Row /\ RowShape(tasks[t])
      /\ \A u \in Tasks : RowShape(tasks[u])
  BY DEF ShapeInv, TypeOK
<1>. DEFINE r == tasks[t]
            r1 == cancelled(cancel)[t]
            m == reaped(cancel, reap)[t]
            c == tasks'[t]
<1>3. r1 \in Row /\ RowShape(r1) /\ m \in Row /\ RowShape(m)
  <2>1. cancelled(cancel) \in [Tasks -> Row] /\ \A u \in Tasks : RowShape(cancelled(cancel)[u])
    BY <1>1, <1>2, PassesTyped, PassesShape
  <2>. HIDE DEF cancelled
  <2>. QED BY <2>1, <1>1, <1>2, PassesTyped, PassesShape
<1>4. /\ r1 = IF t \in cancel THEN Cancelled(r, now) ELSE r
      /\ m = IF t \in reap THEN Reaped(r1, now) ELSE r1
      /\ c = IF t \in claim THEN Claimed(m, w, now) ELSE m
  BY <1>1 DEF CancelPass, ReapPass, ClaimPass
<1>5. /\ t \in cancel => r.state \in Active
      /\ t \in reap => LeaseExpired(r1, now)
      /\ t \in claim => Claimable(m, names, now)
  BY <1>1 DEF ExpiredTasks, ExpiredRuns, ClaimableTasks
<1>. HIDE DEF cancelled, reaped, r1, m, c
<1>6. Silent(r, m, b) /\ (r.state = "deleted" => m = r)
  <2>1. CASE t \in cancel
    <3>1. r1 = Cancelled(r, now) /\ r1.state = "cancelled" /\ CancelStep(r, r1, now)
      BY <1>2, <1>4, <1>5, <2>1, CancelledFields DEF CancelStep
    <3>2. t \notin reap
      BY <3>1, <1>2, <1>3, <1>5, LeaseExpiredOwned DEF Owned
    <3>. QED BY <3>1, <3>2, <1>2, <1>4, <1>5, <2>1, CancelSilent DEF Active
  <2>2. CASE t \notin cancel /\ t \notin reap
    BY <1>4, <2>2, SameSilent
  <2>3. CASE t \notin cancel /\ t \in reap
    <3>1. r1 = r /\ m = Reaped(r, now) /\ LeaseExpired(r, now)
      BY <1>4, <1>5, <2>3
    <3>2. Owned(r, r.last) /\ r.last \in Attempts /\ Expired(r, r.last, now)
      BY <3>1, <1>2, LeaseExpiredOwned
    <3>3. CancelStep(r, m, now) \/ FailStep(r, m, r.last, now)
      BY <3>1, <1>2, ReapedStep
    <3>4. Silent(r, m, b)
      BY <3>2, <3>3, <1>2, CancelSilent, FailSilent
    <3>. QED BY <3>2, <3>4 DEF Owned
  <2>. QED BY <2>1, <2>2, <2>3
<1>7. CASE t \notin claim
  <2>1. c = m
    BY <1>4, <1>7
  <2>2. Calm(r, c, b) /\ (r.runs[b].state # "running" => c.runs[b].state # "running")
    BY <2>1, <1>6 DEF Silent
  <2>. QED BY <2>2 DEF c
<1>8. CASE t \in claim
  <2>1. /\ Live(m) /\ m.last \in Attempts /\ ~Begun(m.runs[m.last]) /\ m.state # "deleted"
        /\ c = Claimed(m, w, now)
    BY <1>3, <1>4, <1>5, <1>8 DEF Claimable, Live, Row, Current, Begun
  <2>2. /\ c.state = "running" /\ c.last = m.last
        /\ c.runs[m.last].state = "running" /\ c.runs[m.last].claimed_by = w
        /\ \A d \in Attempts \ {m.last} : c.runs[d] = m.runs[d]
    BY <2>1, <1>2, <1>3, ClaimedFields
  <2>3. Begun(r.runs[b]) => Begun(m.runs[b]) /\ b # m.last
    BY <2>1, <1>6 DEF Silent, Calm, Begun, Taken
  <2>4. Calm(r, c, b)
    BY <2>2, <2>3, <1>6, <2>1 DEF Silent, Calm
  <2>5. r.runs[b].state # "running" /\ c.runs[b].state = "running" => b = m.last
    BY <2>2, <1>6 DEF Silent
  <2>6. r.state # "deleted"
    BY <2>1, <1>6
  <2>. QED BY <2>2, <2>3, <2>4, <2>5, <2>6 DEF c
<1>. QED BY <1>7, <1>8

-----------------------------------------------------------------------------
(* The same for the calls.                                                 *)

\* Every run but possibly one is left in silence by the step.
AllSilent == \A t \in Tasks, b \in Attempts : Silent(tasks[t], tasks'[t], b)

SilentBut(t, a) ==
    \A u \in Tasks, b \in Attempts : u # t \/ b # a => Silent(tasks[u], tasks'[u], b)

\* An update of one task's row.
LEMMA UpdateSilent ==
    ASSUME TypeOK, NEW t \in Tasks, NEW row, Update(t, row)
    PROVE  /\ (\A b \in Attempts : Silent(tasks[t], row, b)) => AllSilent
           /\ \A a \in Attempts :
                (\A b \in Attempts : b # a => Silent(tasks[t], row, b)) => SilentBut(t, a)
<1>1. \A u \in Tasks : tasks'[u] = IF u = t THEN row ELSE tasks[u]
  BY DEF TypeOK, Update
<1>. QED BY <1>1, SameSilent DEF AllSilent, SilentBut

\* supervise_run() lets the run be, cancels it or reaps it.
LEMMA SuperviseSilent ==
    ASSUME ShapeInv, NEW t \in Tasks, NEW a \in Attempts, NEW renew \in BOOLEAN,
           SuperviseRun(t, a, renew)
    PROVE  AllSilent
<1>. DEFINE r == tasks[t]
            c == Supervised(r, a, renew, now)
<1>1. /\ Owned(r, a) /\ r \in Row /\ RowShape(r) /\ now \in Nat /\ TypeOK
      /\ Update(t, c)
  BY BoundsAssumption DEF ShapeInv, TypeOK, SuperviseRun, Owned
<1>2. ASSUME NEW b \in Attempts PROVE Silent(r, c, b)
  <2>1. CASE CancellationDue(r, now)
    BY <2>1, <1>1, DueIsCancelStep, CancelSilent DEF Supervised
  <2>2. CASE ~CancellationDue(r, now) /\ LeaseExpired(r, now)
    <3>1. FailStep(r, Reaped(r, now), a, now) /\ Expired(r, a, now)
      BY <2>2, <1>1, ReapedStep, LeaseExpiredOwned DEF Owned
    <3>2. c = Reaped(r, now)
      BY <2>2 DEF Supervised
    <3>. QED BY <3>1, <3>2, <1>1, FailSilent
  <2>3. CASE ~CancellationDue(r, now) /\ ~LeaseExpired(r, now)
    <3>1. ~Expired(r, a, now)
      BY <2>3, <1>1 DEF LeaseExpired, Current, Owned, Expired
    <3>2. OwnerStep(r, Renewed(r, a, now), a, now)
      BY <3>1, <2>3, <1>1 DEF OwnerStep
    <3>3. c \in {r, Renewed(r, a, now)}
      BY <2>3 DEF Supervised, Renewed
    <3>. QED BY <3>2, <3>3, <1>1, OwnerSilent, SameSilent
  <2>. QED BY <2>1, <2>2, <2>3
<1>. HIDE DEF c
<1>. QED BY <1>1, <1>2, UpdateSilent

\* complete_run() ends its run.
LEMMA CompleteSilent ==
    ASSUME ShapeInv, NEW t \in Tasks, NEW a \in Attempts, CompleteRun(t, a)
    PROVE  SilentBut(t, a) /\ tasks'[t].runs[a].state \in {"completed", "cancelled"}
<1>. DEFINE r == tasks[t]
            c == Completed(r, a, now)
<1>1. r \in Row /\ RowShape(r) /\ now \in Nat /\ TypeOK /\ Update(t, c)
  BY BoundsAssumption DEF ShapeInv, TypeOK, CompleteRun
<1>2. Owned(r, a) /\ ~Expired(r, a, now)
  BY <1>1, FencedUnexpired DEF CompleteRun
<1>3. CASE CancellationDue(r, now)
  <2>1. c = Cancelled(r, now) /\ CancelStep(r, c, now)
    BY <1>1, <1>2, <1>3, DueIsCancelStep DEF Completed
  <2>2. \A b \in Attempts : Silent(r, c, b)
    BY <2>1, <1>1, CancelSilent
  <2>3. r.state \in Active /\ r.runs[a].state \in Active /\ r.runs[a] \in RunType
    BY <1>1, <1>2 DEF Owned, Active, Row
  <2>4. c.runs[a] = Release(r.runs[a], "cancelled")
    BY <2>1, <2>3, <1>1, CancelledFields
  <2>5. c.runs[a].state = "cancelled"
    BY <2>3, <2>4, ReleaseFields
  <2>. HIDE DEF c
  <2>. QED BY <2>2, <2>5, <1>1, UpdateSilent DEF Update, TypeOK
<1>4. CASE ~CancellationDue(r, now)
  <2>1. OwnerStep(r, c, a, now)
    BY <1>2, <1>4 DEF OwnerStep
  <2>2. \A b \in Attempts : b # a => Silent(r, c, b)
    BY <2>1, <1>1, OwnerSilent
  <2>3. c.runs[a].state = "completed"
    BY <1>1, <1>2, <1>4, CompletedFields
  <2>. HIDE DEF c
  <2>. QED BY <2>2, <2>3, <1>1, UpdateSilent DEF Update, TypeOK
<1>. QED BY <1>3, <1>4

\* schedule_run() suspends its run if the wake time lies ahead, and otherwise
\* lets it be; either way it may find the deadline due.
LEMMA ScheduleSilent ==
    ASSUME ShapeInv, NEW t \in Tasks, NEW a \in Attempts, NEW wake \in Nat,
           ScheduleRun(t, a, wake)
    PROVE  /\ SilentBut(t, a)
           /\ tasks'[t].state \in {"running", "sleeping", "cancelled"}
           /\ tasks'[t].state # "sleeping" => AllSilent
           /\ tasks'[t].state = "sleeping" => tasks'[t].runs[a].state = "sleeping" /\ wake > now
<1>. DEFINE r == tasks[t]
            c == Scheduled(r, a, wake, now)
<1>1. r \in Row /\ RowShape(r) /\ now \in Nat /\ TypeOK /\ Update(t, c)
  BY BoundsAssumption DEF ShapeInv, TypeOK, ScheduleRun
<1>2. Owned(r, a) /\ ~Expired(r, a, now)
  BY <1>1, FencedUnexpired DEF ScheduleRun
<1>3. tasks'[t] = c
  BY <1>1 DEF Update, TypeOK
<1>4. CASE CancellationDue(r, now) \/ CancellationDue(r, wake)
  <2>1. c = Cancelled(r, now) /\ CancelStep(r, c, now) /\ r.state \in Active
    BY <1>1, <1>2, <1>4, DueIsCancelStep DEF Scheduled, Owned, Active
  <2>2. \A b \in Attempts : Silent(r, c, b)
    BY <2>1, <1>1, CancelSilent
  <2>3. c.state = "cancelled"
    BY <2>1, <1>1, CancelledFields
  <2>. HIDE DEF c
  <2>. QED BY <2>2, <2>3, <1>1, <1>3, UpdateSilent
<1>5. CASE ~(CancellationDue(r, now) \/ CancellationDue(r, wake)) /\ wake <= now
  <2>1. c = r /\ c.state = "running"
    BY <1>2, <1>5 DEF Scheduled, Owned
  <2>2. \A b \in Attempts : Silent(r, c, b)
    BY <2>1, SameSilent
  <2>. HIDE DEF c
  <2>. QED BY <2>1, <2>2, <1>1, <1>3, UpdateSilent
<1>6. CASE ~(CancellationDue(r, now) \/ CancellationDue(r, wake)) /\ wake > now
  <2>1. OwnerStep(r, c, a, now)
    BY <1>2, <1>6 DEF OwnerStep
  <2>2. \A b \in Attempts : b # a => Silent(r, c, b)
    BY <2>1, <1>1, OwnerSilent
  <2>3. c.runs[a].state = "sleeping" /\ c.state = "sleeping"
    BY <1>1, <1>2, <1>6, ScheduledFields
  <2>. HIDE DEF c
  <2>. QED BY <2>2, <2>3, <1>1, <1>3, <1>6, UpdateSilent
<1>. QED BY <1>1, <1>4, <1>5, <1>6

\* fail_run() by a worker ends its run.
LEMMA FailRunSilent ==
    ASSUME ShapeInv, NEW t \in Tasks, NEW a \in Attempts, FailRun(t, a)
    PROVE  SilentBut(t, a) /\ tasks'[t].runs[a].state \in {"failed", "cancelled"}
<1>. DEFINE r == tasks[t]
            c == Failed(r, a, "error", now)
<1>1. r \in Row /\ RowShape(r) /\ now \in Nat /\ TypeOK /\ Update(t, c)
  BY BoundsAssumption DEF ShapeInv, TypeOK, FailRun
<1>2. Owned(r, a) /\ ~Expired(r, a, now)
  BY <1>1, FencedUnexpired DEF FailRun
<1>3. CASE CancellationDue(r, now)
  <2>1. c = Cancelled(r, now) /\ CancelStep(r, c, now)
    BY <1>1, <1>2, <1>3, DueIsCancelStep DEF Failed
  <2>2. \A b \in Attempts : Silent(r, c, b)
    BY <2>1, <1>1, CancelSilent
  <2>3. r.state \in Active /\ r.runs[a].state \in Active /\ r.runs[a] \in RunType
    BY <1>1, <1>2 DEF Owned, Active, Row
  <2>4. c.runs[a] = Release(r.runs[a], "cancelled")
    BY <2>1, <2>3, <1>1, CancelledFields
  <2>5. c.runs[a].state = "cancelled"
    BY <2>3, <2>4, ReleaseFields
  <2>. HIDE DEF c
  <2>. QED BY <2>2, <2>5, <1>1, UpdateSilent DEF Update, TypeOK
<1>4. CASE ~CancellationDue(r, now)
  <2>1. FailStep(r, c, a, now)
    BY <1>2, <1>4 DEF FailStep
  <2>2. \A b \in Attempts : (b # a => Silent(r, c, b)) /\ c.runs[a].state = "failed"
    BY <2>1, <1>1, FailSilent
  <2>. HIDE DEF c
  <2>. QED BY <2>2, <1>1, UpdateSilent DEF Update, TypeOK
<1>. QED BY <1>3, <1>4

\* A checkpoint disturbs no run.
LEMMA CheckpointSilent ==
    ASSUME ShapeInv, NEW t \in Tasks, NEW a \in Attempts, NEW step \in Steps, NEW value \in Values,
           SetCheckpoint(t, a, step, value)
    PROVE  AllSilent
<1>. DEFINE r == tasks[t]
            c == Checkpointed(r, step, value)
<1>1. r \in Row /\ now \in Nat /\ TypeOK /\ Update(t, c)
  BY BoundsAssumption DEF ShapeInv, TypeOK, SetCheckpoint, Checkpointed
<1>2. Owned(r, a) /\ ~Expired(r, a, now)
  BY <1>1, FencedUnexpired DEF SetCheckpoint
<1>3. FirstWrite(r, c)
  BY DEF SetCheckpoint, FirstWrite
<1>4. OwnerStep(r, c, a, now)
  BY <1>2, <1>3 DEF OwnerStep, SetCheckpoint
<1>5. \A b \in Attempts : Silent(r, c, b)
  BY <1>1, <1>3, <1>4, OwnerSilent
<1>. HIDE DEF c
<1>. QED BY <1>1, <1>5, UpdateSilent

\* Neither clients nor retention nor the clock begin a run or end one otherwise
\* than by taking it.
LEMMA EnvironmentSilent ==
    ASSUME ShapeInv, Environment
    PROVE  AllSilent
<1>1. now \in Nat /\ TypeOK /\ \A t \in Tasks : tasks[t] \in Row /\ RowShape(tasks[t])
  BY BoundsAssumption DEF ShapeInv, TypeOK
<1>2. ASSUME NEW t \in Tasks, NEW req \in Requests, SpawnTask(t, req)
      PROVE  AllSilent
  <2>1. SpawnStep(tasks[t], Spawned(req, now), now)
    BY <1>1, <1>2 DEF SpawnTask, SpawnStep
  <2>. QED BY <2>1, <1>1, <1>2, ClientSilent, UpdateSilent DEF SpawnTask
<1>3. ASSUME NEW t \in Tasks, NEW at \in ReadBefore(t), CancelTask(t, at)
      PROVE  AllSilent
  <2>1. CASE tasks[t].state \in Terminal
    <3>1. Cancelled(tasks[t], at) = tasks[t]
      BY <2>1 DEF Cancelled
    <3>. QED BY <3>1, <1>1, <1>3, SameSilent, UpdateSilent DEF CancelTask
  <2>2. CASE tasks[t].state \notin Terminal
    <3>1. tasks[t].state \in Active /\ at \in 0 .. now
      BY <2>2, <1>1, <1>3 DEF CancelTask, Live, Row, ReadBefore
    <3>2. CancelStep(tasks[t], Cancelled(tasks[t], at), now)
      BY <3>1 DEF CancelStep
    <3>. QED BY <3>2, <1>1, <1>3, CancelSilent, UpdateSilent DEF CancelTask
  <2>. QED BY <2>1, <2>2
<1>4. ASSUME NEW t \in Tasks, NEW at \in ReadBefore(t), RetryTask(t, at)
      PROVE  AllSilent
  <2>1. RetryStep(tasks[t], Retried(tasks[t], at), now)
    BY <1>4 DEF RetryTask, RetryStep, ReadBefore
  <2>. QED BY <2>1, <1>1, <1>4, ClientSilent, UpdateSilent DEF RetryTask
<1>5. CASE CleanupTasks
  <2>1. \A t \in Tasks : tasks'[t] = NoTask("deleted") \/ tasks'[t] = tasks[t]
    BY <1>5 DEF CleanupTasks
  <2>. QED BY <2>1, <1>1, ClientSilent, SameSilent DEF AllSilent
<1>6. CASE Tick
  BY <1>6, SameSilent DEF Tick, AllSilent
<1>. QED BY <1>2, <1>3, <1>4, <1>5, <1>6 DEF Environment

-----------------------------------------------------------------------------
(* Where a slot goes.                                                      *)

\* Stages in which an attempt is going on as the handler's own.
Owning == {"claimed", "loading", "handler", "completing"}

\* A worker executes the run under a lease that holds.
Held(run, at) == run.state = "running" /\ run.claim_expires_at > at

\* The step leaves every other slot alone.
OnlySlot(s) == \A u \in Slots : u # s => exec'[u] = exec[u]

SameFlags == mode' = mode /\ fatal' = fatal /\ faulty' = faulty

\* The slot keeps its attempt.
Onward(s) ==
    /\ exec'[s] \in Execution
    /\ exec'[s].task = exec[s].task /\ exec'[s].attempt = exec[s].attempt
    /\ SameFlags

\* The attempt goes on and its run was left in silence.
Advances(s) ==
    /\ Onward(s) /\ AllSilent
    /\ exec[s].pc # "confirming" /\ exec'[s].pc # "confirming"
    /\ exec'[s].pc \in Owning => exec[s].pc \in Owning \cup {"unwinding"}
    /\ exec'[s].pc = "unwinding" /\ ErrorsPropagate => exec[s].pc = "unwinding"

\* The handler suspended its run.
Suspends(s) ==
    /\ Onward(s)
    /\ MaxWake > 0
    /\ exec[s].pc \in InHandler /\ exec'[s].pc \in {"unwinding", "observing"}
    /\ ErrorsPropagate => exec'[s].pc = "observing"

\* The run was failed.
Fails(s) ==
    /\ Onward(s)
    /\ exec'[s].pc = "confirming"
    /\ tasks'[exec[s].task].runs[exec[s].attempt].state \in {"failed", "cancelled"}

\* The attempt is over, and no lease is left behind.
Ends(s) ==
    /\ exec'[s] = Idle /\ SameFlags
    /\ exec[s].pc = "confirming" \/ ~Held(tasks'[exec[s].task].runs[exec[s].attempt], now)

\* The worker met a run in a state it has no answer for.
Dies(s) ==
    /\ Die(s)
    /\ tasks[exec[s].task].runs[exec[s].attempt].state \notin {"running", "cancelled", "failed"}

\* A slot that is not idle holds an attempt.
LEMMA BusySlot ==
    ASSUME WorkerTypeOK, NEW s \in Slots, exec[s].pc # "idle"
    PROVE  /\ exec[s] \in Execution /\ exec[s].pc \in Stages
           /\ exec[s].task \in Tasks /\ exec[s].attempt \in Attempts
<1>1. exec[s] \in Execution \cup {Idle}
  BY DEF WorkerTypeOK
<1>. QED BY <1>1 DEF Idle, Execution

\* No stage is "idle".
LEMMA StageBusy ==
    ASSUME NEW pc \in Stages
    PROVE  pc # "idle" /\ Idle.pc = "idle"
BY DEF Stages, Idle

\* Going on changes the stage of one slot.
LEMMA GotoFacts ==
    ASSUME WorkerTypeOK, NEW s \in Slots, exec[s] \in Execution, NEW pc \in Stages, Goto(s, pc)
    PROVE  Onward(s) /\ OnlySlot(s) /\ exec'[s].pc = pc /\ exec' \in [Slots -> Execution \cup {Idle}]
<1>. DEFINE x == [exec[s] EXCEPT !.pc = pc]
<1>1. exec \in [Slots -> Execution \cup {Idle}] /\ SameFlags
  BY DEF WorkerTypeOK, Goto, SameFlags
<1>2. exec' = [exec EXCEPT ![s] = x]
  BY DEF Goto
<1>3. x \in Execution /\ x.pc = pc /\ x.task = exec[s].task /\ x.attempt = exec[s].attempt
  BY DEF Execution
<1>. HIDE DEF x
<1>. QED BY <1>1, <1>2, <1>3 DEF Onward, OnlySlot

\* Finishing and dying free one slot.
LEMMA FreedFacts ==
    ASSUME WorkerTypeOK, NEW s \in Slots, Finish(s) \/ Die(s)
    PROVE  /\ exec'[s] = Idle /\ OnlySlot(s) /\ exec' \in [Slots -> Execution \cup {Idle}]
           /\ Finish(s) => SameFlags
<1>1. exec \in [Slots -> Execution \cup {Idle}] /\ exec' = [exec EXCEPT ![s] = Idle]
  BY DEF WorkerTypeOK, Finish, Die
<1>. QED BY <1>1 DEF OnlySlot, Finish, SameFlags

\* An attempt-scoped call that was refused: the worker knows the reason if the
\* run has begun and was not completed, and then the lease is gone.
LEMMA RefusedRun ==
    ASSUME NEW r \in Row, NEW a \in Attempts, NEW at \in Nat, RowShape(r),
           LockRunningAttempt(r, a, FALSE, at) # "ok"
    PROVE  IF LockRunningAttempt(r, a, FALSE, at) \in ControlErrors
           THEN ~Held(r.runs[a], at)
           ELSE r.runs[a].state \notin {"running", "cancelled", "failed"}
<1>1. r.runs[a].state \in Active \cup Terminal \cup {"absent"} /\ r.runs[a].claim_expires_at \in Int
  BY DEF Row, RunType, OrNull, Null
<1>2. CASE r.runs[a].state = "running"
  <2>1. Owned(r, a)
    BY <1>2, RunningOwned
  <2>2. LockRunningAttempt(r, a, FALSE, at) = "ST003" /\ r.runs[a].claim_expires_at <= at
    BY <2>1, <1>1 DEF LockRunningAttempt, Owned
  <2>. QED BY <2>2, <1>1 DEF ControlErrors, Held
<1>3. CASE r.runs[a].state # "running"
  BY <1>1, <1>3 DEF LockRunningAttempt, ControlErrors, Held, Active, Terminal
<1>. QED BY <1>2, <1>3

\* supervise_run() knows every run that has begun.
LEMMA SupervisionKnows ==
    ASSUME NEW r \in Row, NEW a \in Attempts, NEW at \in Nat, RowShape(r),
           Supervision(r, a, at) \in SuperviseErrors
    PROVE  r.runs[a].state \notin {"running", "cancelled", "failed"}
<1>1. CASE r.runs[a].state = "running"
  <2>1. Owned(r, a)
    BY <1>1, RunningOwned
  <2>. QED BY <2>1 DEF Owned, Supervision, SuperviseErrors
<1>2. CASE r.runs[a].state \in {"cancelled", "failed"}
  BY <1>2 DEF Supervision, SuperviseErrors
<1>. QED BY <1>1, <1>2

\* A round of supervision: the attempt goes on only while its run is running, and
\* no worker lets go of a run that still is.
LEMMA SuperviseFacts ==
    ASSUME ShapeInv, WorkerTypeOK, NEW s \in Slots, exec[s] \in Execution, NEW pc,
           NEW renew \in BOOLEAN, Supervise(s, renew, pc)
    PROVE  /\ AllSilent /\ [Next]_vars /\ now' = now
           /\ \/ Goto(s, pc)
              \/ Finish(s) /\ ~Held(tasks'[exec[s].task].runs[exec[s].attempt], now)
              \/ Dies(s)
<1>. DEFINE t == exec[s].task
            a == exec[s].attempt
            r == tasks[t]
            answer == Supervision(r, a, now)
<1>1. /\ t \in Tasks /\ a \in Attempts /\ r \in Row /\ RowShape(r) /\ now \in Nat /\ TypeOK
      /\ tasks[t] = r
  BY BoundsAssumption DEF ShapeInv, TypeOK, Execution
<1>2. IF Owned(r, a) THEN SuperviseRun(t, a, renew) ELSE UNCHANGED vars
  BY DEF Supervise, Owned
<1>3. IF answer \in SuperviseErrors THEN Die(s) ELSE IF answer = "running" THEN Goto(s, pc) ELSE Finish(s)
  BY DEF Supervise
<1>4. AllSilent /\ [Next]_vars /\ now' = now
  <2>1. CASE Owned(r, a)
    <3>1. SuperviseRun(t, a, renew)
      BY <1>2, <2>1
    <3>2. Next
      BY <3>1, <1>1 DEF Next
    <3>3. AllSilent /\ now' = now
      BY <3>1, <1>1, SuperviseSilent DEF SuperviseRun
    <3>. QED BY <3>2, <3>3
  <2>2. CASE ~Owned(r, a)
    BY <1>2, <2>2, SameSilent DEF vars, AllSilent
  <2>. QED BY <2>1, <2>2
<1>5. answer \in SuperviseErrors => Dies(s)
  BY <1>1, <1>3, SupervisionKnows DEF Dies
<1>6. ASSUME answer \notin SuperviseErrors, answer # "running"
      PROVE  ~Held(tasks'[t].runs[a], now)
  <2>1. CASE ~Owned(r, a)
    <3>1. tasks' = tasks /\ r.runs[a].state # "running"
      BY <2>1, <1>1, <1>2, RunningOwned DEF vars
    <3>. QED BY <3>1 DEF Held
  <2>2. CASE Owned(r, a)
    <3>1. CancellationDue(r, now) \/ LeaseExpired(r, now)
      BY <2>2, <1>6 DEF Supervision, Owned
    <3>2. /\ Supervised(r, a, renew, now) = IF CancellationDue(r, now) THEN Cancelled(r, now)
                                             ELSE Reaped(r, now)
          /\ tasks'[t] = Supervised(r, a, renew, now)
      BY <3>1, <2>2, <1>1, <1>2 DEF Supervised, SuperviseRun, Update, TypeOK
    <3>3. CASE CancellationDue(r, now)
      <4>1. /\ CancelStep(r, tasks'[t], now) /\ r.state \in Active /\ r.runs[a].state \in Active
            /\ r.runs[a] \in RunType /\ tasks'[t] = Cancelled(r, now)
        BY <3>2, <3>3, <2>2, <1>1, DueIsCancelStep DEF Owned, Active, Row
      <4>2. tasks'[t].runs[a] = Release(r.runs[a], "cancelled")
        BY <4>1, <1>1, CancelledFields
      <4>3. tasks'[t].runs[a].state = "cancelled"
        BY <4>1, <4>2, ReleaseFields
      <4>. QED BY <4>3 DEF Held
    <3>4. CASE ~CancellationDue(r, now)
      <4>1. FailStep(r, tasks'[t], a, now)
        BY <3>1, <3>2, <3>4, <2>2, <1>1, ReapedStep DEF Owned
      <4>. QED BY <4>1, <1>1, FailSilent DEF Held
    <3>. QED BY <3>3, <3>4
  <2>. QED BY <2>1, <2>2
<1>. HIDE DEF answer
<1>. QED BY <1>3, <1>4, <1>5, <1>6

\* All that a step of an attempt does.
Moves(s) ==
    /\ exec[s] \in Execution
    /\ [Next]_vars /\ now' = now
    /\ OnlySlot(s) /\ exec' \in [Slots -> Execution \cup {Idle}]
    /\ SilentBut(exec[s].task, exec[s].attempt)
    /\ \/ AllSilent
       \/ tasks'[exec[s].task].runs[exec[s].attempt].state \in Terminal
       \/ Suspends(s) /\ tasks'[exec[s].task].runs[exec[s].attempt].state = "sleeping"
    /\ Advances(s) \/ Suspends(s) \/ Fails(s) \/ Ends(s) \/ Dies(s)

\* A step that goes on in silence.
LEMMA GotoMoves ==
    ASSUME WorkerTypeOK, NEW s \in Slots, exec[s] \in Execution, NEW pc \in Stages, Goto(s, pc),
           [Next]_vars, now' = now, AllSilent,
           exec[s].pc # "confirming", pc # "confirming",
           pc \in Owning => exec[s].pc \in Owning \cup {"unwinding"},
           pc = "unwinding" => exec[s].pc = "unwinding" \/ ~ErrorsPropagate
    PROVE  Moves(s)
<1>1. Onward(s) /\ OnlySlot(s) /\ exec'[s].pc = pc /\ exec' \in [Slots -> Execution \cup {Idle}]
  BY GotoFacts
<1>2. SilentBut(exec[s].task, exec[s].attempt)
  BY DEF AllSilent, SilentBut
<1>3. Advances(s)
  BY <1>1 DEF Advances
<1>. QED BY <1>1, <1>2, <1>3 DEF Moves

\* A step that frees its slot.
LEMMA FreedMoves ==
    ASSUME WorkerTypeOK, NEW s \in Slots, exec[s] \in Execution,
           [Next]_vars, now' = now, SilentBut(exec[s].task, exec[s].attempt),
           AllSilent \/ tasks'[exec[s].task].runs[exec[s].attempt].state \in Terminal,
           \/ Dies(s)
           \/ Finish(s) /\ (exec[s].pc = "confirming"
                              \/ ~Held(tasks'[exec[s].task].runs[exec[s].attempt], now))
    PROVE  Moves(s)
<1>1. /\ exec'[s] = Idle /\ OnlySlot(s) /\ exec' \in [Slots -> Execution \cup {Idle}]
      /\ Finish(s) => SameFlags
  BY FreedFacts DEF Dies
<1>2. Dies(s) \/ Ends(s)
  BY <1>1 DEF Ends
<1>. QED BY <1>1, <1>2 DEF Moves

\* An answer of supervise_run() in a stage before "confirming".
LEMMA SuperviseMoves ==
    ASSUME ShapeInv, WorkerTypeOK, NEW s \in Slots, exec[s] \in Execution, NEW pc \in Stages,
           NEW renew \in BOOLEAN, Supervise(s, renew, pc),
           exec[s].pc # "confirming", pc # "confirming",
           pc \in Owning => exec[s].pc \in Owning \cup {"unwinding"},
           pc = "unwinding" => exec[s].pc = "unwinding"
    PROVE  Moves(s)
<1>1. /\ AllSilent /\ [Next]_vars /\ now' = now
      /\ \/ Goto(s, pc)
         \/ Finish(s) /\ ~Held(tasks'[exec[s].task].runs[exec[s].attempt], now)
         \/ Dies(s)
  BY SuperviseFacts
<1>2. SilentBut(exec[s].task, exec[s].attempt)
  BY <1>1 DEF AllSilent, SilentBut
<1>. QED BY <1>1, <1>2, GotoMoves, FreedMoves

\* A call that lock_running_attempt() refused.
LEMMA RefusedMoves ==
    ASSUME ShapeInv, WorkerTypeOK, NEW s \in Slots, exec[s] \in Execution, UNCHANGED vars,
           LockRunningAttempt(tasks[exec[s].task], exec[s].attempt, FALSE, now) # "ok",
           Refused(s, LockRunningAttempt(tasks[exec[s].task], exec[s].attempt, FALSE, now))
    PROVE  Moves(s)
<1>. DEFINE t == exec[s].task
            a == exec[s].attempt
            error == LockRunningAttempt(tasks[t], a, FALSE, now)
<1>1. t \in Tasks /\ a \in Attempts /\ tasks[t] \in Row /\ RowShape(tasks[t]) /\ now \in Nat
  BY BoundsAssumption DEF ShapeInv, TypeOK, Execution
<1>2. IF error \in ControlErrors
      THEN ~Held(tasks[t].runs[a], now)
      ELSE tasks[t].runs[a].state \notin {"running", "cancelled", "failed"}
  BY <1>1, RefusedRun
<1>3. IF error \in ControlErrors THEN Finish(s) ELSE Die(s)
  BY DEF Refused
<1>4. tasks' = tasks /\ now' = now /\ [Next]_vars
  BY DEF vars
<1>5. SilentBut(t, a) /\ AllSilent
  BY <1>4, SameSilent DEF SilentBut, AllSilent
<1>. HIDE DEF error
<1>6. Dies(s) \/ (Finish(s) /\ ~Held(tasks'[t].runs[a], now))
  BY <1>2, <1>3, <1>4 DEF Dies
<1>. QED BY <1>4, <1>5, <1>6, FreedMoves

\* The handler's suspension of its run, however it ends.
LEMMA SleepMoves ==
    ASSUME ShapeInv, WorkerTypeOK, NEW s \in Slots, exec[s] \in Execution,
           NEW wake \in 0 .. MaxWake, HandlerSleep(s, wake)
    PROVE  Moves(s)
<1>. DEFINE t == exec[s].task
            a == exec[s].attempt
            error == LockRunningAttempt(tasks[t], a, FALSE, now)
<1>1. t \in Tasks /\ a \in Attempts /\ now \in Nat /\ exec[s].pc \in InHandler /\ wake \in Nat
  BY BoundsAssumption DEF ShapeInv, TypeOK, Execution, HandlerSleep
<1>2. exec[s].pc \in Stages /\ exec[s].pc # "confirming"
  BY <1>1 DEF InHandler, Stages
<1>3. ASSUME NEW e
      PROVE  /\ AfterError(e) \in Stages /\ AfterError(e) # "confirming"
             /\ AfterError(e) \notin Owning
             /\ AfterError(e) = "unwinding" => ~ErrorsPropagate
  BY DEF AfterError, Stages, Owning
<1>4. CASE UNCHANGED vars /\ Goto(s, AfterError(error))
  <2>1. AllSilent /\ now' = now /\ [Next]_vars
    BY <1>4, SameSilent DEF vars, AllSilent
  <2>. QED BY <2>1, <1>2, <1>3, <1>4, GotoMoves
<1>5. CASE ScheduleRun(t, a, wake) /\ tasks'[t].state = "running" /\ Goto(s, exec[s].pc)
  <2>1. AllSilent
    BY <1>1, <1>5, ScheduleSilent
  <2>2. Next /\ now' = now
    BY <1>1, <1>5 DEF Next, ScheduleRun
  <2>3. exec[s].pc \in Owning => exec[s].pc \in Owning \cup {"unwinding"}
    OBVIOUS
  <2>. QED BY <2>1, <2>2, <2>3, <1>2, <1>5, GotoMoves
<1>6. CASE ScheduleRun(t, a, wake) /\ tasks'[t].state = "cancelled" /\ Goto(s, AfterError("ST001"))
  <2>1. AllSilent
    BY <1>1, <1>6, ScheduleSilent
  <2>2. Next /\ now' = now
    BY <1>1, <1>6 DEF Next, ScheduleRun
  <2>. QED BY <2>1, <2>2, <1>2, <1>3, <1>6, GotoMoves
<1>7. CASE ScheduleRun(t, a, wake) /\ tasks'[t].state = "sleeping" /\ Goto(s, AfterError("suspended"))
  <2>1. SilentBut(t, a) /\ wake > now /\ tasks'[t].runs[a].state = "sleeping"
    BY <1>1, <1>7, ScheduleSilent
  <2>2. Next /\ now' = now
    BY <1>1, <1>7 DEF Next, ScheduleRun
  <2>3. AfterError("suspended") \in Stages
    BY <1>3
  <2>4. /\ Onward(s) /\ OnlySlot(s) /\ exec'[s].pc = AfterError("suspended")
        /\ exec' \in [Slots -> Execution \cup {Idle}]
    BY <2>3, <1>7, GotoFacts
  <2>5. MaxWake > 0
    BY <2>1, <1>1, BoundsAssumption
  <2>6. AfterError("suspended") = IF ErrorsPropagate THEN "observing" ELSE "unwinding"
    BY DEF AfterError
  <2>7. Suspends(s)
    BY <2>4, <2>5, <2>6, <1>1 DEF Suspends
  <2>. QED BY <2>1, <2>2, <2>4, <2>7 DEF Moves
<1>8. ScheduleRun(t, a, wake) => tasks'[t].state \in {"running", "sleeping", "cancelled"}
  BY <1>1, ScheduleSilent
<1>. QED BY <1>4, <1>5, <1>6, <1>7, <1>8 DEF HandlerSleep

\* What every step of an attempt but the loss of its connection does.
LEMMA AttemptMoves ==
    ASSUME ShapeInv, WorkerTypeOK, NEW s \in Slots, AttemptStep(s)
    PROVE  Moves(s)
<1>. DEFINE t == exec[s].task
            a == exec[s].attempt
            error == LockRunningAttempt(tasks[t], a, FALSE, now)
<1>1. exec[s].pc # "idle"
  BY DEF AttemptStep, FirstSupervision, LoadContext, HandlerCheckpoint, HandlerSleep,
         HandlerReturns, SuperviseExecution, CallCompleteRun, Observe, CallFailRun, Confirm,
         InHandler
<1>2. exec[s] \in Execution /\ t \in Tasks /\ a \in Attempts /\ exec[s].pc \in Stages
  BY <1>1, BusySlot
<1>3. /\ tasks[t] \in Row /\ RowShape(tasks[t]) /\ now \in Nat /\ TypeOK
  BY <1>2, BoundsAssumption DEF ShapeInv, TypeOK
<1>4. CASE FirstSupervision(s)
  <2>1. Supervise(s, TRUE, "loading") /\ exec[s].pc = "claimed" /\ "loading" \in Stages
    BY <1>4 DEF FirstSupervision, Stages
  <2>. QED BY <2>1, <1>2, SuperviseMoves DEF Owning
<1>5. CASE LoadContext(s)
  <2>1. UNCHANGED vars /\ exec[s].pc = "loading"
    BY <1>5 DEF LoadContext
  <2>2. CASE error = "ok"
    <3>1. Goto(s, "handler") /\ "handler" \in Stages
      BY <1>5, <2>2 DEF LoadContext, Stages
    <3>2. AllSilent /\ now' = now /\ [Next]_vars
      BY <2>1, SameSilent DEF vars, AllSilent
    <3>. QED BY <3>1, <3>2, <2>1, <1>2, GotoMoves DEF Owning
  <2>3. CASE error # "ok"
    <3>1. Refused(s, error)
      BY <1>5, <2>3 DEF LoadContext
    <3>. QED BY <3>1, <2>1, <2>3, <1>2, RefusedMoves
  <2>. QED BY <2>2, <2>3
<1>6. ASSUME NEW step \in Steps, NEW value \in Values, HandlerCheckpoint(s, step, value)
      PROVE  Moves(s)
  <2>1. /\ SetCheckpoint(t, a, step, value) /\ exec' = exec /\ SameFlags
        /\ exec[s].pc \in {"handler", "unwinding"}
    BY <1>6 DEF HandlerCheckpoint, workerVars, SameFlags, InHandler
  <2>2. AllSilent /\ Next /\ now' = now
    BY <2>1, <1>2, CheckpointSilent DEF Next, SetCheckpoint
  <2>3. Onward(s) /\ OnlySlot(s) /\ exec' \in [Slots -> Execution \cup {Idle}]
    BY <2>1, <1>2 DEF Onward, OnlySlot, WorkerTypeOK
  <2>4. Advances(s)
    BY <2>1, <2>2, <2>3 DEF Advances
  <2>5. SilentBut(t, a)
    BY <2>2 DEF AllSilent, SilentBut
  <2>. QED BY <2>2, <2>3, <2>4, <2>5, <1>2 DEF Moves
<1>7. ASSUME NEW wake \in 0 .. MaxWake, HandlerSleep(s, wake)
      PROVE  Moves(s)
  BY <1>2, <1>7, SleepMoves
<1>8. ASSUME NEW pc \in {"failing", "completing", "observing"}, HandlerReturns(s, pc)
      PROVE  Moves(s)
  <2>1. /\ Goto(s, pc) /\ pc \in Stages /\ exec[s].pc \in {"handler", "unwinding"}
        /\ UNCHANGED vars
    BY <1>8 DEF HandlerReturns, Stages, InHandler
  <2>2. AllSilent /\ now' = now /\ [Next]_vars
    BY <2>1, SameSilent DEF vars, AllSilent
  <2>. QED BY <2>1, <2>2, <1>2, <1>8, GotoMoves DEF Owning
<1>9. CASE SuperviseExecution(s)
  <2>1. Supervise(s, TRUE, exec[s].pc) /\ exec[s].pc \in {"handler", "unwinding"}
    BY <1>9 DEF SuperviseExecution, InHandler
  <2>2. exec[s].pc \in Owning => exec[s].pc \in Owning \cup {"unwinding"}
    OBVIOUS
  <2>. QED BY <2>1, <2>2, <1>2, SuperviseMoves
<1>10. CASE CallCompleteRun(s)
  <2>1. CASE CompleteRun(t, a) /\ Finish(s)
    <3>1. SilentBut(t, a) /\ tasks'[t].runs[a].state \in {"completed", "cancelled"}
      BY <2>1, <1>2, CompleteSilent
    <3>2. Next /\ now' = now
      BY <2>1, <1>2 DEF Next, CompleteRun
    <3>3. ~Held(tasks'[t].runs[a], now)
      BY <3>1 DEF Held
    <3>. QED BY <3>1, <3>2, <3>3, <2>1, <1>2, FreedMoves DEF Terminal
  <2>2. CASE error # "ok" /\ Refused(s, error) /\ UNCHANGED vars
    BY <2>2, <1>2, RefusedMoves
  <2>. QED BY <1>10, <2>1, <2>2 DEF CallCompleteRun
<1>11. CASE Observe(s)
  <2>1. Supervise(s, FALSE, "failing") /\ exec[s].pc = "observing" /\ "failing" \in Stages
    BY <1>11 DEF Observe, Stages
  <2>. QED BY <2>1, <1>2, SuperviseMoves DEF Owning
<1>12. CASE CallFailRun(s)
  <2>1. CASE FailRun(t, a) /\ Goto(s, "confirming")
    <3>1. SilentBut(t, a) /\ tasks'[t].runs[a].state \in {"failed", "cancelled"}
      BY <2>1, <1>2, FailRunSilent
    <3>2. Next /\ now' = now
      BY <2>1, <1>2 DEF Next, FailRun
    <3>3. "confirming" \in Stages
      BY DEF Stages
    <3>4. /\ Onward(s) /\ OnlySlot(s) /\ exec'[s].pc = "confirming"
          /\ exec' \in [Slots -> Execution \cup {Idle}]
      BY <2>1, <3>3, <1>2, GotoFacts
    <3>5. Fails(s)
      BY <3>1, <3>4 DEF Fails
    <3>. QED BY <3>1, <3>2, <3>4, <3>5, <1>2 DEF Moves, Terminal
  <2>2. CASE error # "ok" /\ Refused(s, error) /\ UNCHANGED vars
    BY <2>2, <1>2, RefusedMoves
  <2>. QED BY <1>12, <2>1, <2>2 DEF CallFailRun
<1>13. CASE Confirm(s)
  <2>1. /\ exec[s].pc = "confirming" /\ tasks' = tasks /\ now' = now /\ [Next]_vars
        /\ IF Supervision(tasks[t], a, now) \in SuperviseErrors THEN Die(s) ELSE Finish(s)
    BY <1>13 DEF Confirm, vars
  <2>2. Dies(s) \/ Finish(s)
    BY <2>1, <1>2, <1>3, SupervisionKnows DEF Dies
  <2>3. SilentBut(t, a) /\ AllSilent
    BY <2>1, SameSilent DEF SilentBut, AllSilent
  <2>. QED BY <2>1, <2>2, <2>3, <1>2, FreedMoves
<1>. QED
  BY <1>4, <1>5, <1>6, <1>7, <1>8, <1>9, <1>10, <1>11, <1>12, <1>13 DEF AttemptStep

-----------------------------------------------------------------------------
(* Claims, and every step of the system.                                   *)

\* A worker with a free slot asks for at least one run and for no more than the
\* claim allows.
LEMMA FreeSlotsCounted ==
    ASSUME NEW w \in Workers, FreeSlots(w) # {}
    PROVE  Cardinality(FreeSlots(w)) \in 1 .. BatchLimit
<1>. DEFINE I == 1 .. Concurrency
            f == [i \in I |-> <<w, i>>]
            S == { f[i] : i \in I }
<1>1. Concurrency \in Nat /\ BatchLimit \in Nat /\ Concurrency <= BatchLimit
  BY ConcurrencyAssumption, BoundsAssumption
<1>2. IsFiniteSet(I) /\ Cardinality(I) = Concurrency
  BY <1>1, FS_Interval
<1>3. FreeSlots(w) \subseteq S
  BY DEF FreeSlots, SlotsOf, Slots
<1>4. IsFiniteSet(S) /\ Cardinality(S) <= Cardinality(I)
  <2>1. f \in Surjection(I, S)
    BY DEF Surjection
  <2>. QED BY <2>1, <1>2, FS_Surjection
<1>5. IsFiniteSet(FreeSlots(w)) /\ Cardinality(FreeSlots(w)) <= Cardinality(S)
  BY <1>3, <1>4, FS_Subset
<1>6. Cardinality(FreeSlots(w)) \in Nat /\ Cardinality(FreeSlots(w)) # 0 /\ Cardinality(S) \in Nat
  BY <1>4, <1>5, FS_EmptySet, FS_CardinalityType
<1>. QED BY <1>1, <1>2, <1>4, <1>5, <1>6

\* A claim leaves a run alone that is running before and after it.
LEMMA ClaimKeeps ==
    ASSUME NEW r \in Row, NEW c, NEW at \in Nat, NEW b \in Attempts, RowShape(r),
           ClaimRow(r, c, at), r.runs[b].state = "running", c.runs[b].state = "running"
    PROVE  c.runs[b] = r.runs[b]
<1>1. Owned(r, b) /\ r.runs[b] \in RunType
  BY RunningOwned DEF Row
<1>2. ~ClaimStep(r, c, at)
  BY <1>1 DEF ClaimStep, Claimable, Owned
<1>3. ~CancelStep(r, c, at)
  <2>. SUFFICES ASSUME CancelStep(r, c, at) PROVE FALSE
    OBVIOUS
  <2>1. c.runs[b] = Release(r.runs[b], "cancelled")
    BY <1>1, CancelledFields DEF CancelStep, Owned, Active
  <2>. QED BY <2>1, <1>1, ReleaseFields
<1>4. ASSUME NEW a \in Attempts, NEW mid \in Row, FailStep(r, mid, a, at)
      PROVE  mid.runs[b].state = "failed"
  BY <1>1, <1>4, FailSilent DEF FailStep, Owned
<1>5. ASSUME NEW a \in Attempts, FailStep(r, c, a, at)
      PROVE  FALSE
  BY <1>1, <1>5, FailSilent DEF FailStep, Owned
<1>6. ASSUME NEW a \in Attempts, ReclaimStep(r, c, a, at)
      PROVE  FALSE
  <2>1. PICK mid \in Row : FailStep(r, mid, a, at) /\ RowShape(mid) /\ ClaimStep(mid, c, at)
    BY <1>6 DEF ReclaimStep
  <2>2. PICK w \in Workers : c = Claimed(mid, w, at)
    BY <2>1 DEF ClaimStep
  <2>3. Live(mid) /\ mid.last \in Attempts /\ mid.runs[mid.last].state # "failed"
    BY <2>1 DEF ClaimStep, Claimable, Live, Row, Current
  <2>4. \A d \in Attempts \ {mid.last} : c.runs[d] = mid.runs[d]
    BY <2>1, <2>2, <2>3, ClaimedFields
  <2>5. mid.runs[b].state = "failed"
    BY <2>1, <1>4
  <2>. QED BY <2>3, <2>4, <2>5
<1>. QED BY <1>2, <1>3, <1>5, <1>6 DEF ClaimRow

\* The runs a claim returns are the ones that begin with it, and they are the
\* claiming worker's.
LEMMA GrantedFacts ==
    ASSUME ShapeInv, NEW w \in Workers, NEW quantity \in 1 .. BatchLimit,
           ClaimTasks(w, Names, quantity), NEW t \in Tasks, NEW b \in Attempts
    PROVE  /\ tasks[t].runs[b].state # "running" /\ tasks'[t].runs[b].state = "running"
                => t \in Granted /\ b = tasks'[t].last
           /\ t \in Granted /\ b = tasks'[t].last
                => /\ tasks'[t].runs[b].state = "running" /\ ~Begun(tasks[t].runs[b])
                   /\ tasks'[t].state = "running" /\ tasks[t].state # "deleted"
<1>. DEFINE r == tasks[t]
            c == tasks'[t]
<1>1. r \in Row /\ RowShape(r) /\ now \in Nat
  BY BoundsAssumption DEF ShapeInv, TypeOK
<1>2. ClaimRow(r, c, now)
  BY NamesInhabited, ClaimTasksSteps
<1>3. r.runs[b].state # "running" /\ c.runs[b].state = "running"
        => /\ b = c.last /\ ~Begun(r.runs[b]) /\ c.state = "running" /\ r.state # "deleted"
  BY ClaimEffect
<1>4. t \in Granted <=> c.runs[c.last].state = "running" /\ c.runs[c.last] # r.runs[c.last]
  BY DEF Granted, Current
<1>5. r.runs[b].state = "running" /\ c.runs[b].state = "running" => c.runs[b] = r.runs[b]
  BY <1>1, <1>2, ClaimKeeps
<1>. HIDE DEF r, c
<1>6. r.runs[b].state # "running" /\ c.runs[b].state = "running" => t \in Granted /\ b = c.last
  BY <1>3, <1>4
<1>7. t \in Granted /\ b = c.last => r.runs[b].state # "running" /\ c.runs[b].state = "running"
  BY <1>4, <1>5
<1>. QED BY <1>3, <1>6, <1>7 DEF r, c

\* The slot holds a run that the claim brought.
Newly(u, t) ==
    /\ t \in Granted
    /\ exec[u] = Idle
    /\ exec'[u] = [pc |-> "claimed", task |-> t, attempt |-> tasks'[t].last]

\* A poll puts every run it was given into a free slot of its worker, each into
\* one of its own, and leaves the other slots alone.
LEMMA PollFacts ==
    ASSUME ShapeInv, TypeOK', WorkerTypeOK, NEW w \in Workers, Poll(w)
    PROVE  /\ SameFlags /\ exec' \in [Slots -> Execution \cup {Idle}]
           /\ \A u \in Slots : exec'[u] = exec[u] \/ (u \in SlotsOf(w) /\ \E t \in Tasks : Newly(u, t))
           /\ \A t \in Granted : \E u \in SlotsOf(w) : Newly(u, t)
           /\ \A u, v \in Slots, t \in Tasks : Newly(u, t) /\ Newly(v, t) => u = v
<1>. DEFINE New(t) == [pc |-> "claimed", task |-> t, attempt |-> tasks'[t].last]
<1>1. PICK place \in Placements(Granted, FreeSlots(w)) :
         exec' = [s \in Slots |->
                    IF \E t \in Granted : place[t] = s
                    THEN New(CHOOSE t \in Granted : place[t] = s)
                    ELSE exec[s]]
  BY DEF Poll
<1>2. /\ place \in [Granted -> FreeSlots(w)]
      /\ \A t, u \in Granted : place[t] = place[u] => t = u
  BY DEF Placements
<1>3. /\ Granted \subseteq Tasks /\ FreeSlots(w) \subseteq SlotsOf(w) /\ SlotsOf(w) \subseteq Slots
      /\ \A u \in FreeSlots(w) : exec[u] = Idle
  BY DEF Granted, FreeSlots, SlotsOf
<1>4. \A t \in Granted : New(t) \in Execution /\ New(t).task = t /\ New(t) # Idle
  <2>1. \A t \in Granted : tasks'[t].last \in Attempts
    BY <1>3 DEF TypeOK, Row
  <2>. QED BY <2>1, <1>3 DEF Execution, Stages, Idle
<1>5. ASSUME NEW t \in Granted
      PROVE  /\ place[t] \in Slots /\ place[t] \in SlotsOf(w) /\ exec[place[t]] = Idle
             /\ exec'[place[t]] = New(t)
  <2>1. place[t] \in Slots /\ place[t] \in SlotsOf(w) /\ exec[place[t]] = Idle
    BY <1>2, <1>3
  <2>2. (CHOOSE d \in Granted : place[d] = place[t]) = t
    BY <1>2
  <2>. HIDE DEF New
  <2>. QED BY <2>1, <2>2, <1>1
<1>6. ASSUME NEW u \in Slots, ~\E t \in Granted : place[t] = u
      PROVE  exec'[u] = exec[u]
  BY <1>1, <1>6
<1>. HIDE DEF New
<1>7. \A u \in Slots : \/ exec'[u] = exec[u]
                       \/ u \in SlotsOf(w) /\ \E t \in Granted : exec[u] = Idle /\ exec'[u] = New(t)
  BY <1>5, <1>6
<1>8. exec' \in [Slots -> Execution \cup {Idle}]
  <2>1. \A u \in Slots : exec'[u] \in Execution \cup {Idle}
    BY <1>4, <1>7 DEF WorkerTypeOK
  <2>2. DOMAIN exec' = Slots /\ exec' = [u \in DOMAIN exec' |-> exec'[u]]
    BY <1>1
  <2>. QED BY <2>1, <2>2
<1>9. \A t \in Granted : \E u \in SlotsOf(w) : exec[u] = Idle /\ exec'[u] = New(t)
  BY <1>5
<1>10. ASSUME NEW u \in Slots, NEW t \in Granted, exec[u] = Idle, exec'[u] = New(t)
       PROVE  u = place[t]
  <2>1. CASE \E d \in Granted : place[d] = u
    <3>1. PICK d \in Granted : place[d] = u
      BY <2>1
    <3>2. New(d) = New(t)
      BY <3>1, <1>5, <1>10
    <3>. QED BY <3>1, <3>2, <1>4
  <2>2. CASE ~\E d \in Granted : place[d] = u
    BY <2>2, <1>4, <1>6, <1>10
  <2>. QED BY <2>1, <2>2
<1>11. \A u \in Slots, t \in Tasks : Newly(u, t) <=> t \in Granted /\ exec[u] = Idle /\ exec'[u] = New(t)
  BY DEF Newly, New
<1>12. SameFlags
  BY DEF Poll, SameFlags
<1>13. \A u, v \in Slots, t \in Tasks : Newly(u, t) /\ Newly(v, t) => u = v
  BY <1>10, <1>11
<1>14. \A u \in Slots : exec'[u] = exec[u] \/ (u \in SlotsOf(w) /\ \E t \in Tasks : Newly(u, t))
  BY <1>3, <1>7, <1>11
<1>15. \A t \in Granted : \E u \in SlotsOf(w) : Newly(u, t)
  BY <1>3, <1>9, <1>11
<1>. QED BY <1>8, <1>12, <1>13, <1>14, <1>15

\* Every step of the system is a step of the queue and keeps the types.
LEMMA WorkerTypeStep ==
    ASSUME ShapeInv, WorkerTypeOK, [WorkerNext]_allVars
    PROVE  [Next]_vars /\ WorkerTypeOK'
<1>. DEFINE Flags == /\ mode' \in [Workers -> {"polling", "draining", "stopped"}]
                     /\ fatal' \in [Workers -> BOOLEAN]
                     /\ faulty' \in [Workers -> BOOLEAN]
            Execs == exec' \in [Slots -> Execution \cup {Idle}]
<1>1. /\ exec \in [Slots -> Execution \cup {Idle}]
      /\ mode \in [Workers -> {"polling", "draining", "stopped"}]
      /\ fatal \in [Workers -> BOOLEAN] /\ faulty \in [Workers -> BOOLEAN]
  BY DEF WorkerTypeOK
<1>2. SameFlags => Flags
  BY <1>1 DEF SameFlags
<1>3. ASSUME NEW w \in Workers, Poll(w) \/ PollLost(w)
      PROVE  Next
  <2>1. ClaimTasks(w, Names, Cardinality(FreeSlots(w))) /\ FreeSlots(w) # {}
    BY <1>3 DEF Poll, PollLost
  <2>2. Cardinality(FreeSlots(w)) \in 1 .. BatchLimit
    BY <2>1, FreeSlotsCounted
  <2>. QED BY <2>1, <2>2, NamesInhabited DEF Next
<1>4. ASSUME NEW w \in Workers, Poll(w)
      PROVE  Next /\ Execs /\ Flags
  <2>1. Next
    BY <1>3, <1>4
  <2>2. TypeOK'
    BY <2>1, TypeStep DEF ShapeInv
  <2>. QED BY <2>1, <2>2, <1>2, <1>4, PollFacts
<1>5. ASSUME NEW w \in Workers, PollLost(w)
      PROVE  Next /\ Execs /\ Flags
  BY <1>1, <1>3, <1>5 DEF PollLost
<1>6. ASSUME NEW w \in Workers, Shutdown(w) \/ Stop(w)
      PROVE  [Next]_vars /\ Execs /\ Flags
  BY <1>1, <1>6 DEF Shutdown, Stop
<1>7. ASSUME NEW w \in Workers, Crash(w)
      PROVE  [Next]_vars /\ Execs /\ Flags
  BY <1>1, <1>7 DEF Crash
<1>8. ASSUME NEW s \in Slots, AttemptStep(s)
      PROVE  [Next]_vars /\ Execs /\ Flags
  <2>1. Moves(s)
    BY <1>8, AttemptMoves
  <2>2. CASE Dies(s)
    BY <2>1, <2>2, <1>1 DEF Dies, Die, Moves
  <2>3. CASE ~Dies(s)
    <3>1. SameFlags
      BY <2>1, <2>3 DEF Moves, Advances, Suspends, Fails, Ends, Onward
    <3>. QED BY <3>1, <2>1, <1>2 DEF Moves
  <2>. QED BY <2>2, <2>3
<1>9. ASSUME NEW s \in Slots, ConnectionLost(s)
      PROVE  [Next]_vars /\ Execs /\ Flags
  BY <1>1, <1>9 DEF ConnectionLost
<1>10. ASSUME Environment
       PROVE  [Next]_vars /\ Execs /\ Flags
  <2>1. Next \/ UNCHANGED vars
    BY <1>10 DEF Environment, Next
  <2>. QED BY <2>1, <1>1, <1>10 DEF Environment, workerVars
<1>11. ASSUME UNCHANGED allVars
       PROVE  [Next]_vars /\ Execs /\ Flags
  BY <1>1, <1>11 DEF allVars, vars
<1>12. [Next]_vars /\ Execs /\ Flags
  BY <1>4, <1>5, <1>6, <1>7, <1>8, <1>9, <1>10, <1>11 DEF WorkerNext, ExecuteTask
<1>13. TypeOK'
  BY <1>12, TypeStep DEF ShapeInv
<1>. QED BY <1>12, <1>13 DEF WorkerTypeOK

\* The rows and the types under workers.
WorkerBase == BareInv /\ WorkerTypeOK

\* They are kept by every step.
LEMMA WorkerBaseStep ==
    ASSUME WorkerBase, [WorkerNext]_allVars
    PROVE  WorkerBase' /\ [Next]_vars
<1>1. [Next]_vars /\ WorkerTypeOK'
  BY WorkerTypeStep DEF WorkerBase, BareInv
<1>. QED BY <1>1, BareStep DEF WorkerBase

\* They hold when no worker has started.
LEMMA WorkerBaseInit ==
    ASSUME WorkerInit
    PROVE  WorkerBase
<1>1. BareInv /\ TypeOK
  BY BareInit DEF WorkerInit, BareInv, ShapeInv
<1>. QED BY <1>1 DEF WorkerBase, WorkerTypeOK, WorkerInit

-----------------------------------------------------------------------------
(* DrainReleasesLeases.                                                    *)

\* The slot executes the attempt and has not failed it yet.
Covers(x, t, a) == x.pc \notin {"idle", "confirming"} /\ x.task = t /\ x.attempt = a

\* A worker that met no fault executes every run it holds a lease on.
Covered ==
    \A w \in Workers, t \in Tasks, a \in Attempts :
        /\ ~faulty[w] /\ ~fatal[w]
        /\ tasks[t].runs[a].claimed_by = w /\ tasks[t].runs[a].claim_expires_at > now
        => \E s \in SlotsOf(w) : Covers(exec[s], t, a)

\* A worker that stopped executes nothing.
Quiesced == \A w \in Workers : mode[w] = "stopped" => \A s \in SlotsOf(w) : exec[s] = Idle

DrainInv == WorkerBase /\ Covered /\ Quiesced

\* A lease that holds after a step is a new claim, or it held before the step for
\* the same worker.
LEMMA HeldBefore ==
    ASSUME BareInv, [Next]_vars, now' \in Nat, now' >= now, NEW t \in Tasks, NEW a \in Attempts,
           tasks[t].runs[a].state = "running", tasks'[t].runs[a].state = "running",
           tasks'[t].runs[a].claim_expires_at > now'
    PROVE  /\ tasks[t].runs[a].claimed_by = tasks'[t].runs[a].claimed_by
           /\ tasks[t].runs[a].claim_expires_at > now
<1>1. /\ now \in Nat /\ tasks[t] \in Row /\ RowShape(tasks[t]) /\ RowBare(tasks[t])
      /\ tasks[t].runs[a].claim_expires_at \in Int
  BY BoundsAssumption DEF BareInv, ShapeInv, TypeOK, Row, RunType, OrNull, Null
<1>2. RowNext(tasks[t], tasks'[t], now)
  BY RowSteps DEF BareInv
<1>3. RowFenced(tasks[t], tasks'[t], now)
  BY <1>1, <1>2, RowFencedStep
<1>. QED BY <1>1, <1>3 DEF RowFenced

\* Time does not run backwards.
LEMMA ClockForward ==
    ASSUME TypeOK, [Next]_vars
    PROVE  now \in Nat /\ now' \in Nat /\ now' >= now
<1>1. now \in Nat
  BY BoundsAssumption DEF TypeOK
<1>2. now' = now \/ now' = now + 1
  BY DEF Next, vars, SpawnTask, CompleteRun, ScheduleRun, FailRun, SuperviseRun, SetCheckpoint,
         CancelTask, RetryTask, ClaimTasks, CleanupTasks, Tick
<1>. QED BY <1>1, <1>2

\* A worker that stopped has no attempt that could start again.
LEMMA QuiescedStep ==
    ASSUME WorkerBase, Quiesced, [WorkerNext]_allVars
    PROVE  Quiesced'
<1>. SUFFICES ASSUME NEW w \in Workers, mode'[w] = "stopped", NEW u \in SlotsOf(w)
              PROVE  exec'[u] = Idle
  BY DEF Quiesced, SlotsOf
<1>1. /\ u \in Slots /\ u[1] = w /\ ShapeInv /\ WorkerTypeOK /\ TypeOK'
      /\ mode[w] = "stopped" => exec[u] = Idle
      /\ mode \in [Workers -> {"polling", "draining", "stopped"}]
  BY WorkerBaseStep DEF SlotsOf, WorkerBase, BareInv, ShapeInv, Quiesced, WorkerTypeOK
<1>2. ASSUME NEW v \in Workers, Poll(v)
      PROVE  exec'[u] = Idle
  <2>1. mode' = mode /\ mode[v] = "polling"
    BY <1>2 DEF Poll
  <2>2. u \notin SlotsOf(v)
    BY <2>1, <1>1 DEF SlotsOf
  <2>3. exec'[u] = exec[u]
    BY <2>2, <1>1, <1>2, PollFacts
  <2>. QED BY <2>1, <2>3, <1>1
<1>3. ASSUME NEW v \in Workers, PollLost(v) \/ Shutdown(v)
      PROVE  exec'[u] = Idle
  BY <1>1, <1>3 DEF PollLost, Shutdown
<1>4. ASSUME NEW v \in Workers, Stop(v)
      PROVE  exec'[u] = Idle
  BY <1>1, <1>4 DEF Stop, FreeSlots
<1>5. ASSUME NEW v \in Workers, Crash(v)
      PROVE  exec'[u] = Idle
  BY <1>1, <1>5 DEF Crash
<1>6. ASSUME NEW s \in Slots, AttemptStep(s)
      PROVE  exec'[u] = Idle
  <2>1. Moves(s)
    BY <1>1, <1>6, AttemptMoves
  <2>2. mode[w] = "stopped"
    <3>1. CASE Dies(s)
      BY <3>1, <1>1 DEF Dies, Die
    <3>2. CASE ~Dies(s)
      BY <3>2, <2>1 DEF Moves, Advances, Suspends, Fails, Ends, Onward, SameFlags
    <3>. QED BY <3>1, <3>2
  <2>3. exec[u] = Idle /\ exec[s] # Idle
    BY <2>1, <2>2, <1>1, StageBusy DEF Moves, Execution
  <2>. QED BY <2>1, <2>3, <1>1 DEF Moves, OnlySlot
<1>7. ASSUME NEW s \in Slots, ConnectionLost(s)
      PROVE  exec'[u] = Idle
  BY <1>1, <1>7 DEF ConnectionLost, WorkerTypeOK
<1>8. CASE Environment \/ UNCHANGED allVars
  BY <1>1, <1>8 DEF Environment, workerVars, allVars
<1>. QED BY <1>2, <1>3, <1>4, <1>5, <1>6, <1>7, <1>8 DEF WorkerNext, ExecuteTask

\* A run that is running only after a step of an attempt does not exist.
LEMMA MovesBeginNothing ==
    ASSUME NEW s \in Slots, Moves(s), NEW t \in Tasks, NEW a \in Attempts,
           tasks'[t].runs[a].state = "running"
    PROVE  tasks[t].runs[a].state = "running"
BY DEF Moves, SilentBut, AllSilent, Silent, Terminal

\* Every lease stays covered.
LEMMA CoveredStep ==
    ASSUME DrainInv, [WorkerNext]_allVars
    PROVE  Covered'
<1>. SUFFICES ASSUME NEW w \in Workers, NEW t \in Tasks, NEW a \in Attempts,
                     ~faulty'[w], ~fatal'[w], tasks'[t].runs[a].claimed_by = w,
                     tasks'[t].runs[a].claim_expires_at > now'
              PROVE  \E s \in SlotsOf(w) : Covers(exec'[s], t, a)
  BY DEF Covered, SlotsOf
<1>. DEFINE run == tasks[t].runs[a]
            run2 == tasks'[t].runs[a]
<1>1. /\ BareInv /\ ShapeInv /\ WorkerTypeOK /\ [Next]_vars /\ ShapeInv' /\ TypeOK /\ TypeOK'
  BY WorkerBaseStep DEF DrainInv, WorkerBase, BareInv, ShapeInv
<1>2. now \in Nat /\ now' \in Nat /\ now' >= now
  BY <1>1, ClockForward
<1>3. run2.state = "running"
  BY <1>1, ValuesAssumption DEF ShapeInv, RowShape, Leased
<1>4. ASSUME run.state = "running", ~faulty[w], ~fatal[w]
      PROVE  \E s \in SlotsOf(w) : Covers(exec[s], t, a)
  <2>1. run.claimed_by = w /\ run.claim_expires_at > now
    BY <1>1, <1>2, <1>3, <1>4, HeldBefore
  <2>. QED BY <2>1, <1>4 DEF DrainInv, Covered
<1>5. ASSUME run.state = "running", ~faulty[w], ~fatal[w], \A s \in SlotsOf(w) : exec[s] # Idle => exec'[s] = exec[s]
      PROVE  \E s \in SlotsOf(w) : Covers(exec'[s], t, a)
  <2>1. PICK s \in SlotsOf(w) : Covers(exec[s], t, a)
    BY <1>4, <1>5
  <2>2. exec[s] # Idle
    BY <2>1 DEF Covers, Idle
  <2>. QED BY <2>1, <2>2, <1>5
<1>6. ASSUME NEW v \in Workers, Poll(v) \/ PollLost(v), run.state # "running"
      PROVE  v = w /\ t \in Granted /\ a = tasks'[t].last
  <2>1. /\ ClaimTasks(v, Names, Cardinality(FreeSlots(v)))
        /\ Cardinality(FreeSlots(v)) \in 1 .. BatchLimit
    BY <1>6, FreeSlotsCounted DEF Poll, PollLost
  <2>2. run2.claimed_by = v
    BY <2>1, <1>1, <1>3, <1>6, ClaimEffect
  <2>. QED BY <2>1, <2>2, <1>1, <1>3, <1>6, GrantedFacts
<1>7. ASSUME NEW v \in Workers, Poll(v)
      PROVE  \E s \in SlotsOf(w) : Covers(exec'[s], t, a)
  <2>1. /\ SameFlags
        /\ \A u \in Slots : exec'[u] = exec[u] \/ (u \in SlotsOf(v) /\ \E d \in Tasks : Newly(u, d))
        /\ \A d \in Granted : \E u \in SlotsOf(v) : Newly(u, d)
    BY <1>1, <1>7, PollFacts
  <2>2. CASE run.state # "running"
    <3>1. PICK u \in SlotsOf(w) : Newly(u, t)
      BY <2>1, <2>2, <1>6, <1>7
    <3>. QED BY <3>1, <2>2, <1>6, <1>7 DEF Newly, Covers
  <2>3. CASE run.state = "running"
    <3>1. \A s \in SlotsOf(w) : exec[s] # Idle => exec'[s] = exec[s]
      BY <2>1 DEF Newly, SlotsOf
    <3>. QED BY <3>1, <2>1, <2>3, <1>5 DEF SameFlags
  <2>. QED BY <2>2, <2>3
<1>8. ASSUME NEW v \in Workers, PollLost(v)
      PROVE  \E s \in SlotsOf(w) : Covers(exec'[s], t, a)
  <2>1. /\ exec' = exec /\ fatal' = fatal /\ faulty' = [faulty EXCEPT ![v] = TRUE]
        /\ faulty \in [Workers -> BOOLEAN]
    BY <1>1, <1>8 DEF PollLost, WorkerTypeOK
  <2>2. v # w /\ ~faulty[w] /\ ~fatal[w]
    BY <2>1
  <2>3. run.state = "running"
    BY <2>2, <1>6, <1>8
  <2>. QED BY <2>1, <2>2, <2>3, <1>5
<1>9. ASSUME NEW v \in Workers, Shutdown(v) \/ Stop(v)
      PROVE  \E s \in SlotsOf(w) : Covers(exec'[s], t, a)
  <2>1. exec' = exec /\ fatal' = fatal /\ faulty' = faulty /\ tasks' = tasks
    BY <1>9 DEF Shutdown, Stop, vars
  <2>. QED BY <2>1, <1>3, <1>5
<1>10. ASSUME NEW v \in Workers, Crash(v)
       PROVE  \E s \in SlotsOf(w) : Covers(exec'[s], t, a)
  <2>1. /\ fatal' = fatal /\ faulty' = [faulty EXCEPT ![v] = TRUE] /\ tasks' = tasks
        /\ faulty \in [Workers -> BOOLEAN]
    BY <1>1, <1>10 DEF Crash, vars, WorkerTypeOK
  <2>2. v # w /\ ~faulty[w] /\ ~fatal[w]
    BY <2>1
  <2>3. \A s \in SlotsOf(w) : exec'[s] = exec[s]
    BY <2>2, <1>10 DEF Crash, SlotsOf
  <2>. QED BY <2>1, <2>2, <2>3, <1>3, <1>5
<1>11. ASSUME NEW s \in Slots, AttemptStep(s)
       PROVE  \E u \in SlotsOf(w) : Covers(exec'[u], t, a)
  <2>1. Moves(s)
    BY <1>1, <1>11, AttemptMoves
  <2>2. run.state = "running"
    BY <2>1, <1>3, MovesBeginNothing
  <2>3. ~faulty[w] /\ ~fatal[w]
    <3>1. CASE Dies(s)
      BY <3>1, <1>1 DEF Dies, Die, WorkerTypeOK
    <3>2. CASE ~Dies(s)
      BY <3>2, <2>1 DEF Moves, Advances, Suspends, Fails, Ends, Onward, SameFlags
    <3>. QED BY <3>1, <3>2
  <2>4. PICK u \in SlotsOf(w) : Covers(exec[u], t, a)
    BY <2>2, <2>3, <1>4
  <2>5. CASE u # s
    <3>1. exec'[u] = exec[u]
      BY <2>1, <2>5 DEF Moves, OnlySlot, SlotsOf
    <3>. QED BY <3>1, <2>4
  <2>6. CASE u = s
    <3>1. exec[s].task = t /\ exec[s].attempt = a /\ exec[s].pc # "confirming" /\ s[1] = w
      BY <2>4, <2>6 DEF Covers, SlotsOf
    <3>2. Held(run2, now)
      BY <2>1, <1>3 DEF Held, Moves
    <3>3. ~Dies(s)
      BY <3>1, <1>1 DEF Dies, Die, WorkerTypeOK
    <3>4. ~Ends(s) /\ ~Fails(s)
      BY <3>1, <3>2, <1>3 DEF Ends, Fails
    <3>5. Onward(s) /\ exec'[s].pc # "confirming"
      BY <2>1, <3>3, <3>4 DEF Moves, Advances, Suspends
    <3>6. exec'[s].pc # "idle"
      BY <3>5, StageBusy DEF Onward, Execution
    <3>. QED BY <3>1, <3>5, <3>6, <2>6 DEF Onward, Covers
  <2>. QED BY <2>5, <2>6
<1>12. ASSUME NEW s \in Slots, ConnectionLost(s)
       PROVE  \E u \in SlotsOf(w) : Covers(exec'[u], t, a)
  <2>1. /\ fatal' = fatal /\ faulty' = [faulty EXCEPT ![s[1]] = TRUE] /\ tasks' = tasks
        /\ faulty \in [Workers -> BOOLEAN] /\ exec' = [exec EXCEPT ![s] = Idle]
        /\ exec \in [Slots -> Execution \cup {Idle}]
    BY <1>1, <1>12 DEF ConnectionLost, vars, WorkerTypeOK
  <2>2. s[1] # w /\ ~faulty[w] /\ ~fatal[w]
    BY <2>1
  <2>3. \A u \in SlotsOf(w) : exec'[u] = exec[u]
    BY <2>1, <2>2 DEF SlotsOf
  <2>. QED BY <2>1, <2>2, <2>3, <1>3, <1>5
<1>13. ASSUME Environment
       PROVE  \E s \in SlotsOf(w) : Covers(exec'[s], t, a)
  <2>1. run.state = "running"
    BY <1>1, <1>3, <1>13, EnvironmentSilent DEF AllSilent, Silent
  <2>2. exec' = exec /\ fatal' = fatal /\ faulty' = faulty
    BY <1>13 DEF Environment, workerVars
  <2>. QED BY <2>1, <2>2, <1>5
<1>14. ASSUME UNCHANGED allVars
       PROVE  \E s \in SlotsOf(w) : Covers(exec'[s], t, a)
  BY <1>3, <1>5, <1>14 DEF allVars
<1>. QED
  BY <1>7, <1>8, <1>9, <1>10, <1>11, <1>12, <1>13, <1>14 DEF WorkerNext, ExecuteTask

\* A worker that shut down without a crash, a lost connection or a fatal error
\* leaves no run under a lease that others would have to wait for, whatever its
\* handlers, the other workers and the clients did.
THEOREM DrainReleasesLeasesHolds == WorkerSpec => []DrainReleasesLeases
<1>1. WorkerInit => DrainInv
  <2>. SUFFICES ASSUME WorkerInit PROVE DrainInv
    OBVIOUS
  <2>1. \A t \in Tasks, a \in Attempts : tasks[t].runs[a].claimed_by = NoWorker
    BY DEF WorkerInit, Init, NoTask, NoRun
  <2>2. Covered
    BY <2>1, ValuesAssumption DEF Covered
  <2>3. Quiesced
    BY DEF Quiesced, WorkerInit, SlotsOf
  <2>. QED BY <2>2, <2>3, WorkerBaseInit DEF DrainInv
<1>2. DrainInv /\ [WorkerNext]_allVars => DrainInv'
  BY WorkerBaseStep, QuiescedStep, CoveredStep DEF DrainInv
<1>3. DrainInv => DrainReleasesLeases
  <2>. SUFFICES ASSUME DrainInv, NEW w \in Workers, NEW t \in Tasks, NEW a \in Attempts,
                       mode[w] = "stopped", ~faulty[w], ~fatal[w],
                       tasks[t].runs[a].claimed_by = w, tasks[t].runs[a].claim_expires_at > now
                PROVE  FALSE
    BY DEF DrainReleasesLeases
  <2>1. PICK s \in SlotsOf(w) : Covers(exec[s], t, a)
    BY DEF DrainInv, Covered
  <2>2. exec[s] = Idle
    BY DEF DrainInv, Quiesced
  <2>. QED BY <2>1, <2>2 DEF Covers, Idle
<1>. QED BY <1>1, <1>2, <1>3, PTL DEF WorkerSpec

-----------------------------------------------------------------------------
(* Nobody else executes an attempt: slots in the stages of S hold different *)
(* runs, and runs that have begun.                                         *)

\* The run has begun, or went with its task.
Known(t, a) == tasks[t].state = "deleted" \/ Begun(tasks[t].runs[a])

SlotsKnown(S) == \A s \in Slots : exec[s].pc \in S => Known(exec[s].task, exec[s].attempt)

Distinct(S) ==
    \A s, u \in Slots :
        /\ s # u /\ exec[s].pc \in S /\ exec[u].pc \in S
        /\ exec[s].task = exec[u].task
        => exec[s].attempt # exec[u].attempt

\* Nobody enters S but by a claim, and whoever suspends a run leaves S with it.
Within(S, s) ==
    /\ exec'[s].pc \in S => exec[s].pc \in S
    /\ Suspends(s) => exec[s].pc \in S /\ exec'[s].pc \notin S

\* What is deleted stays deleted, and what has begun stays so unless its own
\* worker suspends it.
LEMMA KnownStays ==
    ASSUME BareInv, [Next]_vars, NEW t \in Tasks, NEW a \in Attempts, Known(t, a),
           Calm(tasks[t], tasks'[t], a) \/ tasks'[t].runs[a].state \in Terminal
    PROVE  Known(t, a)'
<1>1. now \in Nat /\ tasks[t] \in Row
  BY BoundsAssumption DEF BareInv, ShapeInv, TypeOK
<1>2. RowFinal(tasks[t], tasks'[t])
  BY <1>1, RowSteps, RowFinalStep DEF BareInv
<1>3. tasks[t].state = "deleted" => tasks'[t].state = "deleted"
  BY <1>2 DEF RowFinal, Frozen
<1>. QED BY <1>3 DEF Known, Calm, Begun, Taken, Terminal

\* Slots that keep their attempts, and no others, keep the two facts.
LEMMA WatchedSame ==
    ASSUME NEW S, S \subseteq Stages, Distinct(S), SlotsKnown(S), BareInv, WorkerTypeOK, [Next]_vars,
           \A u \in Slots : exec'[u] = exec[u] \/ exec'[u] = Idle,
           \A t \in Tasks, a \in Attempts : Calm(tasks[t], tasks'[t], a)
    PROVE  Distinct(S)' /\ SlotsKnown(S)'
<1>1. \A u \in Slots : exec'[u].pc \in S => exec'[u] = exec[u] /\ exec[u].pc \in S
  BY StageBusy
<1>2. Distinct(S)'
  BY <1>1 DEF Distinct
<1>3. ASSUME NEW u \in Slots, exec'[u].pc \in S
      PROVE  Known(exec[u].task, exec[u].attempt)'
  <2>1. exec'[u] = exec[u] /\ exec[u].pc \in S /\ exec[u].pc # "idle"
    BY <1>1, <1>3, StageBusy
  <2>2. exec[u].task \in Tasks /\ exec[u].attempt \in Attempts /\ Known(exec[u].task, exec[u].attempt)
    BY <2>1, BusySlot DEF SlotsKnown
  <2>3. Calm(tasks[exec[u].task], tasks'[exec[u].task], exec[u].attempt)
    BY <2>2
  <2>. HIDE DEF Known
  <2>. QED BY <2>1, <2>2, <2>3, KnownStays DEF Known
<1>. QED BY <1>1, <1>2, <1>3 DEF SlotsKnown, Known

\* A step of an attempt keeps them too, if it stays within the stages watched.
LEMMA WatchedMoves ==
    ASSUME NEW S, S \subseteq Stages, Distinct(S), SlotsKnown(S), BareInv, WorkerTypeOK, [Next]_vars,
           NEW s \in Slots, Moves(s), Within(S, s)
    PROVE  Distinct(S)' /\ SlotsKnown(S)'
<1>1. ASSUME NEW u \in Slots, exec'[u].pc \in S
      PROVE  /\ exec[u].pc \in S
             /\ exec'[u].task = exec[u].task /\ exec'[u].attempt = exec[u].attempt
  <2>1. CASE u # s
    BY <2>1, <1>1 DEF Moves, OnlySlot
  <2>2. CASE u = s
    <3>1. exec'[s] # Idle
      BY <2>2, <1>1, StageBusy
    <3>2. Onward(s)
      BY <3>1 DEF Moves, Advances, Suspends, Fails, Ends, Dies, Die, WorkerTypeOK
    <3>. QED BY <3>2, <2>2, <1>1 DEF Onward, Within
  <2>. QED BY <2>1, <2>2
<1>2. Distinct(S)'
  BY <1>1 DEF Distinct
<1>3. ASSUME NEW u \in Slots, exec'[u].pc \in S
      PROVE  \/ tasks'[exec[u].task].state = "deleted"
             \/ Begun(tasks'[exec[u].task].runs[exec[u].attempt])
  <2>1. exec[u].pc \in S /\ exec[u].pc # "idle"
    BY <1>1, <1>3, StageBusy
  <2>2. PICK t \in Tasks, a \in Attempts : t = exec[u].task /\ a = exec[u].attempt /\ Known(t, a)
    BY <2>1, BusySlot DEF SlotsKnown
  <2>3. Calm(tasks[t], tasks'[t], a) \/ tasks'[t].runs[a].state \in Terminal
    <3>1. CASE t # exec[s].task \/ a # exec[s].attempt
      BY <3>1, <2>2 DEF Moves, SilentBut, Silent
    <3>2. CASE t = exec[s].task /\ a = exec[s].attempt
      <4>1. ~Suspends(s)
        BY <3>2, <2>1, <2>2, <1>3 DEF Within, Distinct
      <4>. QED BY <4>1, <3>2, <2>2 DEF Moves, AllSilent, Silent
    <3>. QED BY <3>1, <3>2
  <2>4. Known(t, a)'
    BY <2>2, <2>3, KnownStays
  <2>. QED BY <2>2, <2>4 DEF Known
<1>4. SlotsKnown(S)'
  BY <1>1, <1>3 DEF SlotsKnown, Known
<1>. QED BY <1>2, <1>4

\* A poll brings runs that nobody holds.
LEMMA WatchedPoll ==
    ASSUME NEW S, S \subseteq Stages, Distinct(S), SlotsKnown(S), BareInv, WorkerTypeOK, [Next]_vars,
           TypeOK', NEW w \in Workers, Poll(w)
    PROVE  Distinct(S)' /\ SlotsKnown(S)'
<1>1. ShapeInv
  BY DEF BareInv
<1>2. /\ \A u \in Slots : exec'[u] = exec[u] \/ \E t \in Tasks : Newly(u, t)
      /\ \A u, v \in Slots, t \in Tasks : Newly(u, t) /\ Newly(v, t) => u = v
  BY <1>1, PollFacts
<1>3. /\ ClaimTasks(w, Names, Cardinality(FreeSlots(w)))
      /\ Cardinality(FreeSlots(w)) \in 1 .. BatchLimit
  BY FreeSlotsCounted DEF Poll
<1>4. ASSUME NEW u \in Slots, NEW t \in Tasks, Newly(u, t)
      PROVE  /\ exec'[u].task = t /\ exec'[u].attempt = tasks'[t].last
             /\ tasks'[t].last \in Attempts
             /\ tasks'[t].runs[tasks'[t].last].state = "running"
             /\ ~Known(t, tasks'[t].last)
  <2>1. t \in Granted /\ exec'[u].task = t /\ exec'[u].attempt = tasks'[t].last
    BY <1>4 DEF Newly
  <2>2. tasks'[t].last \in Attempts
    <3>1. tasks'[t] \in Row
      BY DEF TypeOK
    <3>2. t \in Granted => Current(tasks'[t]).state = "running"
      BY DEF Granted
    <3>. QED BY <3>1, <2>1, <3>2 DEF Row
  <2>. QED BY <2>1, <2>2, <1>1, <1>3, GrantedFacts DEF Known
<1>5. ASSUME NEW u \in Slots, exec'[u] = exec[u], exec'[u].pc \in S
      PROVE  /\ exec[u].task \in Tasks /\ exec[u].attempt \in Attempts
             /\ Known(exec[u].task, exec[u].attempt)
             /\ \/ tasks'[exec[u].task].state = "deleted"
                \/ Begun(tasks'[exec[u].task].runs[exec[u].attempt])
  <2>1. exec[u].pc \in S /\ exec[u].pc # "idle"
    BY <1>5, StageBusy
  <2>2. PICK t \in Tasks, a \in Attempts : t = exec[u].task /\ a = exec[u].attempt /\ Known(t, a)
    BY <2>1, BusySlot DEF SlotsKnown
  <2>3. Calm(tasks[t], tasks'[t], a)
    BY <1>1, <1>3, ClaimEffect
  <2>4. Known(t, a)'
    BY <2>2, <2>3, KnownStays
  <2>. QED BY <2>2, <2>4 DEF Known
<1>6. Distinct(S)'
  <2>. SUFFICES ASSUME NEW u \in Slots, NEW v \in Slots, u # v, exec'[u].pc \in S, exec'[v].pc \in S,
                       exec'[u].task = exec'[v].task, exec'[u].attempt = exec'[v].attempt
                PROVE  FALSE
    BY DEF Distinct
  <2>. HIDE DEF Known
  <2>1. CASE exec'[u] = exec[u] /\ exec'[v] = exec[v]
    BY <2>1 DEF Distinct
  <2>2. CASE exec'[u] = exec[u] /\ \E t \in Tasks : Newly(v, t)
    BY <2>2, <1>4, <1>5
  <2>3. CASE exec'[v] = exec[v] /\ \E t \in Tasks : Newly(u, t)
    BY <2>3, <1>4, <1>5
  <2>4. CASE (\E t \in Tasks : Newly(u, t)) /\ (\E t \in Tasks : Newly(v, t))
    BY <2>4, <1>2, <1>4
  <2>. QED BY <2>1, <2>2, <2>3, <2>4, <1>2
<1>7. SlotsKnown(S)'
  <2>. SUFFICES ASSUME NEW u \in Slots, exec'[u].pc \in S
                PROVE  \/ tasks'[exec'[u].task].state = "deleted"
                       \/ Begun(tasks'[exec'[u].task].runs[exec'[u].attempt])
    BY DEF SlotsKnown, Known
  <2>1. CASE exec'[u] = exec[u]
    BY <2>1, <1>5
  <2>2. CASE \E t \in Tasks : Newly(u, t)
    BY <2>2, <1>4 DEF Begun
  <2>. QED BY <2>1, <2>2, <1>2
<1>. QED BY <1>6, <1>7

\* So every step keeps them.
LEMMA WatchedStep ==
    ASSUME NEW S, S \subseteq Stages, Distinct(S), SlotsKnown(S), WorkerBase, [WorkerNext]_allVars,
           \A s \in Slots : Moves(s) => Within(S, s)
    PROVE  Distinct(S)' /\ SlotsKnown(S)'
<1>1. BareInv /\ ShapeInv /\ WorkerTypeOK /\ [Next]_vars /\ TypeOK'
  BY WorkerBaseStep DEF WorkerBase, BareInv, ShapeInv
<1>2. ASSUME NEW w \in Workers, Poll(w)
      PROVE  Distinct(S)' /\ SlotsKnown(S)'
  BY <1>1, <1>2, WatchedPoll
<1>3. ASSUME NEW s \in Slots, AttemptStep(s)
      PROVE  Distinct(S)' /\ SlotsKnown(S)'
  BY <1>1, <1>3, AttemptMoves, WatchedMoves
<1>4. ASSUME \A u \in Slots : exec'[u] = exec[u] \/ exec'[u] = Idle,
             \A t \in Tasks, a \in Attempts : Calm(tasks[t], tasks'[t], a)
      PROVE  Distinct(S)' /\ SlotsKnown(S)'
  BY <1>1, <1>4, WatchedSame
<1>5. tasks' = tasks => \A t \in Tasks, a \in Attempts : Calm(tasks[t], tasks'[t], a)
  BY SameSilent DEF Silent
<1>6. ASSUME NEW w \in Workers, PollLost(w)
      PROVE  Distinct(S)' /\ SlotsKnown(S)'
  <2>1. exec' = exec /\ \E q : ClaimTasks(w, Names, q)
    BY <1>6 DEF PollLost
  <2>. QED BY <2>1, <1>1, <1>4, ClaimEffect
<1>7. ASSUME NEW w \in Workers, Shutdown(w) \/ Stop(w) \/ Crash(w)
      PROVE  Distinct(S)' /\ SlotsKnown(S)'
  <2>1. tasks' = tasks /\ \A u \in Slots : exec'[u] = exec[u] \/ exec'[u] = Idle
    BY <1>7 DEF Shutdown, Stop, Crash, vars
  <2>. QED BY <2>1, <1>4, <1>5
<1>8. ASSUME NEW s \in Slots, ConnectionLost(s)
      PROVE  Distinct(S)' /\ SlotsKnown(S)'
  <2>1. tasks' = tasks /\ \A u \in Slots : exec'[u] = exec[u] \/ exec'[u] = Idle
    BY <1>1, <1>8 DEF ConnectionLost, vars, WorkerTypeOK
  <2>. QED BY <2>1, <1>4, <1>5
<1>9. CASE Environment
  <2>1. exec' = exec /\ AllSilent
    BY <1>1, <1>9, EnvironmentSilent DEF Environment, workerVars
  <2>. QED BY <2>1, <1>4 DEF AllSilent, Silent
<1>10. CASE UNCHANGED allVars
  BY <1>10, <1>4, <1>5 DEF allVars
<1>. QED BY <1>2, <1>3, <1>6, <1>7, <1>8, <1>9, <1>10 DEF WorkerNext, ExecuteTask

-----------------------------------------------------------------------------
(* OneLiveExecution.                                                       *)

\* No handler runs on after an error of its context.
Straight == \A s \in Slots : exec[s].pc # "unwinding"

LiveInv == WorkerBase /\ Distinct(Owning) /\ SlotsKnown(Owning) /\ Straight

\* Handlers that pass errors on never start to unwind.
LEMMA StraightStep ==
    ASSUME ErrorsPropagate, WorkerBase, Straight, [WorkerNext]_allVars
    PROVE  Straight'
<1>1. ShapeInv /\ WorkerTypeOK /\ TypeOK'
  BY WorkerBaseStep DEF WorkerBase, BareInv, ShapeInv
<1>. SUFFICES ASSUME NEW u \in Slots PROVE exec'[u].pc # "unwinding"
  BY DEF Straight
<1>2. exec[u].pc # "unwinding" /\ Idle.pc # "unwinding"
  BY DEF Straight, Idle
<1>3. ASSUME NEW w \in Workers, Poll(w)
      PROVE  exec'[u].pc # "unwinding"
  <2>1. exec'[u] = exec[u] \/ \E t \in Tasks : Newly(u, t)
    BY <1>1, <1>3, PollFacts
  <2>2. ASSUME NEW t \in Tasks, Newly(u, t)
        PROVE  exec'[u].pc = "claimed"
    BY <2>2 DEF Newly
  <2>. QED BY <2>1, <2>2, <1>2
<1>4. ASSUME NEW w \in Workers, PollLost(w) \/ Shutdown(w) \/ Stop(w) \/ Crash(w)
      PROVE  exec'[u].pc # "unwinding"
  <2>1. exec'[u] = exec[u] \/ exec'[u] = Idle
    BY <1>4 DEF PollLost, Shutdown, Stop, Crash
  <2>. QED BY <2>1, <1>2
<1>5. ASSUME NEW s \in Slots, AttemptStep(s)
      PROVE  exec'[u].pc # "unwinding"
  <2>1. Moves(s)
    BY <1>1, <1>5, AttemptMoves
  <2>2. CASE u # s
    BY <2>1, <2>2, <1>2 DEF Moves, OnlySlot
  <2>3. CASE u = s
    <3>1. Dies(s) => exec'[s] = Idle
      BY <1>1 DEF Dies, Die, WorkerTypeOK
    <3>. QED BY <3>1, <2>1, <2>3, <1>2 DEF Moves, Advances, Suspends, Fails, Ends
  <2>. QED BY <2>2, <2>3
<1>6. ASSUME NEW s \in Slots, ConnectionLost(s)
      PROVE  exec'[u].pc # "unwinding"
  <2>1. exec'[u] = exec[u] \/ exec'[u] = Idle
    BY <1>1, <1>6 DEF ConnectionLost, WorkerTypeOK
  <2>. QED BY <2>1, <1>2
<1>7. CASE Environment \/ UNCHANGED allVars
  BY <1>2, <1>7 DEF Environment, workerVars, allVars
<1>. QED BY <1>3, <1>4, <1>5, <1>6, <1>7 DEF WorkerNext, ExecuteTask

\* Such a handler gives its run up in the step that suspends it.
LEMMA OwningWithin ==
    ASSUME ErrorsPropagate, WorkerTypeOK, Straight, NEW s \in Slots, Moves(s)
    PROVE  Within(Owning, s)
<1>1. exec[s].pc # "unwinding" /\ Idle.pc \notin Owning
  BY DEF Straight, Idle, Owning
<1>2. Suspends(s) => exec[s].pc \in Owning /\ exec'[s].pc \notin Owning
  BY <1>1 DEF Suspends, InHandler, Owning
<1>3. Dies(s) => exec'[s] = Idle
  BY DEF Dies, Die, WorkerTypeOK
<1>4. exec'[s].pc \in Owning => exec[s].pc \in Owning
  <2>1. Fails(s) => exec'[s].pc \notin Owning
    BY DEF Fails, Owning
  <2>. QED BY <2>1, <1>1, <1>2, <1>3 DEF Moves, Advances, Ends
<1>. QED BY <1>2, <1>4 DEF Within

\* When handlers pass the errors of TaskContext on, as with `?`, no two slots of
\* whatever workers ever execute handlers that could both commit to one run: a
\* sleeping run that is claimed again left its slot first.
THEOREM OneLiveExecutionHolds ==
    ASSUME ErrorsPropagate
    PROVE  WorkerSpec => []OneLiveExecution
<1>1. WorkerInit => LiveInv
  <2>. SUFFICES ASSUME WorkerInit PROVE LiveInv
    OBVIOUS
  <2>1. \A s \in Slots : exec[s].pc = "idle"
    BY DEF WorkerInit, Idle
  <2>. QED
    BY <2>1, WorkerBaseInit DEF LiveInv, Straight, Distinct, SlotsKnown, Owning
<1>2. LiveInv /\ [WorkerNext]_allVars => LiveInv'
  <2>. SUFFICES ASSUME LiveInv, [WorkerNext]_allVars PROVE LiveInv'
    OBVIOUS
  <2>1. WorkerBase' /\ Straight'
    BY WorkerBaseStep, StraightStep DEF LiveInv
  <2>2. \A s \in Slots : Moves(s) => Within(Owning, s)
    BY OwningWithin DEF LiveInv, WorkerBase
  <2>3. Owning \subseteq Stages
    BY DEF Owning, Stages
  <2>4. Distinct(Owning)' /\ SlotsKnown(Owning)'
    BY <2>2, <2>3, WatchedStep DEF LiveInv
  <2>. QED BY <2>1, <2>4 DEF LiveInv
<1>3. LiveInv => OneLiveExecution
  BY DEF LiveInv, OneLiveExecution, WorkerBase, Distinct, Owning
<1>. QED BY <1>1, <1>2, <1>3, PTL DEF WorkerSpec

-----------------------------------------------------------------------------
(* OwnerUndisturbed and NoFatalError.  Handlers that never suspend their    *)
(* run cannot suspend it under a later claim.                              *)

\* Nothing happened to a run that its worker in stage pc has no answer for.
Sound(r, a, pc) ==
    \/ r.state = "deleted"
    \/ r.runs[a].state = "running"
    \/ Taken(r.runs[a])
    \/ pc = "confirming" /\ r.runs[a].state = "failed"

Undisturbed ==
    \A s \in Slots :
        exec[s].pc \in Stages => Sound(tasks[exec[s].task], exec[s].attempt, exec[s].pc)

\* A worker loop ended only after retention removed a task.
Survives == NoFatalError \/ \E t \in Tasks : tasks[t].state = "deleted"

OwnerInv ==
    WorkerBase /\ Distinct(Stages) /\ SlotsKnown(Stages) /\ Undisturbed /\ Survives

\* A step that is calm about a run leaves it sound.
LEMMA SoundStays ==
    ASSUME BareInv, [Next]_vars, NEW t \in Tasks, NEW a \in Attempts, NEW pc,
           Sound(tasks[t], a, pc), Calm(tasks[t], tasks'[t], a)
    PROVE  Sound(tasks'[t], a, pc)
<1>1. now \in Nat /\ tasks[t] \in Row
  BY BoundsAssumption DEF BareInv, ShapeInv, TypeOK
<1>2. RowFinal(tasks[t], tasks'[t])
  BY <1>1, RowSteps, RowFinalStep DEF BareInv
<1>3. tasks[t].state = "deleted" => tasks'[t].state = "deleted"
  BY <1>2 DEF RowFinal, Frozen
<1>. QED BY <1>3 DEF Sound, Calm, Begun, Taken

\* What a step of an attempt does to the run of a slot, its own or another's.
LEMMA MovesSound ==
    ASSUME MaxWake = 0, BareInv, WorkerTypeOK, Distinct(Stages), Undisturbed, [Next]_vars,
           NEW s \in Slots, Moves(s), NEW u \in Slots, exec'[u].pc \in Stages
    PROVE  Sound(tasks'[exec'[u].task], exec'[u].attempt, exec'[u].pc)
<1>1. ~Suspends(s)
  BY DEF Suspends
<1>2. CASE u # s
  <2>1. exec'[u] = exec[u] /\ exec[u].pc \in Stages /\ exec[s] \in Execution /\ exec[s].pc \in Stages
    BY <1>2 DEF Moves, OnlySlot, Execution
  <2>2. PICK t \in Tasks, a \in Attempts : t = exec[u].task /\ a = exec[u].attempt
    BY <2>1, StageBusy, BusySlot
  <2>3. t # exec[s].task \/ a # exec[s].attempt
    BY <2>1, <2>2, <1>2 DEF Distinct
  <2>4. Calm(tasks[t], tasks'[t], a)
    BY <2>3 DEF Moves, SilentBut, Silent
  <2>5. Sound(tasks[t], a, exec[u].pc)
    BY <2>1, <2>2 DEF Undisturbed
  <2>6. Sound(tasks'[t], a, exec[u].pc)
    BY <2>4, <2>5, SoundStays
  <2>. QED BY <2>1, <2>2, <2>6
<1>3. CASE u = s
  <2>1. exec[s] \in Execution /\ exec[s].pc \in Stages
    BY DEF Moves, Execution
  <2>2. PICK t \in Tasks, a \in Attempts : t = exec[s].task /\ a = exec[s].attempt
    BY <2>1 DEF Execution
  <2>3. exec'[s] # Idle
    BY <1>3, StageBusy
  <2>4. CASE Advances(s)
    <3>1. /\ exec'[s].task = t /\ exec'[s].attempt = a
          /\ exec[s].pc # "confirming" /\ exec'[s].pc # "confirming"
      BY <2>2, <2>4 DEF Advances, Onward
    <3>2. Calm(tasks[t], tasks'[t], a)
      BY <2>4 DEF Advances, AllSilent, Silent
    <3>3. Sound(tasks[t], a, exec[s].pc)
      BY <2>1, <2>2 DEF Undisturbed
    <3>4. Sound(tasks[t], a, exec'[s].pc)
      BY <3>1, <3>3 DEF Sound
    <3>5. Sound(tasks'[t], a, exec'[s].pc)
      BY <3>2, <3>4, SoundStays
    <3>. QED BY <3>1, <3>5, <1>3
  <2>5. CASE Fails(s)
    BY <2>2, <2>5, <1>3 DEF Fails, Onward, Sound, Taken
  <2>6. ~Ends(s) /\ ~Dies(s)
    BY <2>3 DEF Ends, Dies, Die, WorkerTypeOK
  <2>. QED BY <2>4, <2>5, <2>6, <1>1 DEF Moves
<1>. QED BY <1>2, <1>3

\* Every step leaves the runs in the slots sound.
LEMMA UndisturbedStep ==
    ASSUME MaxWake = 0, WorkerBase, Distinct(Stages), Undisturbed, [WorkerNext]_allVars
    PROVE  Undisturbed'
<1>1. BareInv /\ ShapeInv /\ WorkerTypeOK /\ [Next]_vars /\ TypeOK'
  BY WorkerBaseStep DEF WorkerBase, BareInv, ShapeInv
<1>. SUFFICES ASSUME NEW u \in Slots, exec'[u].pc \in Stages
              PROVE  Sound(tasks'[exec'[u].task], exec'[u].attempt, exec'[u].pc)
  BY DEF Undisturbed, Sound
<1>2. ASSUME exec'[u] = exec[u] \/ exec'[u] = Idle,
             \A t \in Tasks, a \in Attempts : Calm(tasks[t], tasks'[t], a)
      PROVE  Sound(tasks'[exec'[u].task], exec'[u].attempt, exec'[u].pc)
  <2>1. exec'[u] = exec[u] /\ exec[u].pc \in Stages
    BY <1>2, StageBusy
  <2>2. PICK t \in Tasks, a \in Attempts : t = exec[u].task /\ a = exec[u].attempt
    BY <2>1, <1>1, StageBusy, BusySlot
  <2>3. Sound(tasks[t], a, exec[u].pc)
    BY <2>1, <2>2 DEF Undisturbed
  <2>4. Sound(tasks'[t], a, exec[u].pc)
    BY <2>3, <1>1, <1>2, SoundStays
  <2>. QED BY <2>1, <2>2, <2>4
<1>3. tasks' = tasks => \A t \in Tasks, a \in Attempts : Calm(tasks[t], tasks'[t], a)
  BY SameSilent DEF Silent
<1>4. ASSUME NEW w \in Workers, Poll(w)
      PROVE  Sound(tasks'[exec'[u].task], exec'[u].attempt, exec'[u].pc)
  <2>1. exec'[u] = exec[u] \/ \E t \in Tasks : Newly(u, t)
    BY <1>1, <1>4, PollFacts
  <2>2. ASSUME NEW t \in Tasks, Newly(u, t)
        PROVE  Sound(tasks'[exec'[u].task], exec'[u].attempt, exec'[u].pc)
    <3>1. exec'[u].task = t /\ exec'[u].attempt = tasks'[t].last /\ t \in Granted
      BY <2>2 DEF Newly
    <3>. QED BY <3>1 DEF Granted, Current, Sound
  <2>3. ClaimTasks(w, Names, Cardinality(FreeSlots(w)))
    BY <1>4 DEF Poll
  <2>4. \A t \in Tasks, a \in Attempts : Calm(tasks[t], tasks'[t], a)
    BY <2>3, <1>1, ClaimEffect
  <2>. QED BY <2>1, <2>2, <2>4, <1>2
<1>5. ASSUME NEW w \in Workers, PollLost(w)
      PROVE  Sound(tasks'[exec'[u].task], exec'[u].attempt, exec'[u].pc)
  <2>1. exec' = exec /\ \E q : ClaimTasks(w, Names, q)
    BY <1>5 DEF PollLost
  <2>. QED BY <2>1, <1>1, <1>2, ClaimEffect
<1>6. ASSUME NEW w \in Workers, Shutdown(w) \/ Stop(w) \/ Crash(w)
      PROVE  Sound(tasks'[exec'[u].task], exec'[u].attempt, exec'[u].pc)
  <2>1. tasks' = tasks /\ (exec'[u] = exec[u] \/ exec'[u] = Idle)
    BY <1>6 DEF Shutdown, Stop, Crash, vars
  <2>. QED BY <2>1, <1>2, <1>3
<1>7. ASSUME NEW s \in Slots, AttemptStep(s)
      PROVE  Sound(tasks'[exec'[u].task], exec'[u].attempt, exec'[u].pc)
  BY <1>1, <1>7, AttemptMoves, MovesSound
<1>8. ASSUME NEW s \in Slots, ConnectionLost(s)
      PROVE  Sound(tasks'[exec'[u].task], exec'[u].attempt, exec'[u].pc)
  <2>1. tasks' = tasks /\ (exec'[u] = exec[u] \/ exec'[u] = Idle)
    BY <1>1, <1>8 DEF ConnectionLost, vars, WorkerTypeOK
  <2>. QED BY <2>1, <1>2, <1>3
<1>9. CASE Environment
  <2>1. exec' = exec /\ AllSilent
    BY <1>1, <1>9, EnvironmentSilent DEF Environment, workerVars
  <2>. QED BY <2>1, <1>2 DEF AllSilent, Silent
<1>10. CASE UNCHANGED allVars
  BY <1>10, <1>2, <1>3 DEF allVars
<1>. QED BY <1>4, <1>5, <1>6, <1>7, <1>8, <1>9, <1>10 DEF WorkerNext, ExecuteTask

\* Only a run that went with its task ends a worker loop.
LEMMA SurvivesStep ==
    ASSUME WorkerBase, Undisturbed, Survives, [WorkerNext]_allVars
    PROVE  Survives'
<1>1. BareInv /\ ShapeInv /\ WorkerTypeOK /\ [Next]_vars /\ now \in Nat /\ TypeOK
  BY WorkerBaseStep, BoundsAssumption DEF WorkerBase, BareInv, ShapeInv, TypeOK
<1>2. ASSUME NEW t \in Tasks, tasks[t].state = "deleted"
      PROVE  tasks'[t].state = "deleted"
  <2>1. tasks[t] \in Row
    BY <1>1 DEF TypeOK
  <2>2. RowFinal(tasks[t], tasks'[t])
    BY <2>1, <1>1, RowSteps, RowFinalStep
  <2>. QED BY <2>2, <1>2 DEF RowFinal, Frozen
<1>3. CASE \E t \in Tasks : tasks[t].state = "deleted"
  BY <1>2, <1>3 DEF Survives
<1>4. CASE NoFatalError /\ fatal' = fatal
  BY <1>4 DEF Survives, NoFatalError
<1>5. ASSUME NEW s \in Slots, AttemptStep(s)
      PROVE  Survives'
  <2>1. Moves(s)
    BY <1>1, <1>5, AttemptMoves
  <2>2. CASE Dies(s)
    <3>1. exec[s].pc \in Stages /\ exec[s].task \in Tasks
      BY <2>1 DEF Moves, Execution
    <3>2. Sound(tasks[exec[s].task], exec[s].attempt, exec[s].pc)
      BY <3>1 DEF Undisturbed
    <3>3. tasks[exec[s].task].state = "deleted"
      BY <2>2, <3>2 DEF Dies, Sound, Taken
    <3>. QED BY <3>1, <3>3, <1>3
  <2>3. CASE ~Dies(s)
    <3>1. fatal' = fatal
      BY <2>1, <2>3 DEF Moves, Advances, Suspends, Fails, Ends, Onward, SameFlags
    <3>. QED BY <3>1, <1>3, <1>4 DEF Survives
  <2>. QED BY <2>2, <2>3
<1>6. ASSUME NEW w \in Workers, Poll(w) \/ PollLost(w) \/ Shutdown(w) \/ Stop(w) \/ Crash(w)
      PROVE  fatal' = fatal
  BY <1>6 DEF Poll, PollLost, Shutdown, Stop, Crash
<1>7. ASSUME NEW s \in Slots, ConnectionLost(s)
      PROVE  fatal' = fatal
  BY <1>7 DEF ConnectionLost
<1>8. Environment \/ UNCHANGED allVars => fatal' = fatal
  BY DEF Environment, workerVars, allVars
<1>. QED BY <1>3, <1>4, <1>5, <1>6, <1>7, <1>8 DEF WorkerNext, ExecuteTask, Survives

\* The invariant of workers whose handlers do not sleep.
LEMMA OwnerInductive ==
    ASSUME MaxWake = 0
    PROVE  WorkerSpec => []OwnerInv
<1>1. WorkerInit => OwnerInv
  <2>. SUFFICES ASSUME WorkerInit PROVE OwnerInv
    OBVIOUS
  <2>1. \A s \in Slots : exec[s].pc = "idle"
    BY DEF WorkerInit, Idle
  <2>2. NoFatalError
    BY DEF NoFatalError, WorkerInit
  <2>. QED
    BY <2>1, <2>2, WorkerBaseInit DEF OwnerInv, Distinct, SlotsKnown, Undisturbed, Survives, Stages
<1>2. OwnerInv /\ [WorkerNext]_allVars => OwnerInv'
  <2>. SUFFICES ASSUME OwnerInv, [WorkerNext]_allVars PROVE OwnerInv'
    OBVIOUS
  <2>1. \A s \in Slots : Moves(s) => Within(Stages, s)
    BY DEF Moves, Within, Suspends, Execution
  <2>2. Distinct(Stages)' /\ SlotsKnown(Stages)'
    BY <2>1, WatchedStep DEF OwnerInv
  <2>3. WorkerBase' /\ Undisturbed' /\ Survives'
    BY WorkerBaseStep, UndisturbedStep, SurvivesStep DEF OwnerInv
  <2>. QED BY <2>2, <2>3 DEF OwnerInv
<1>. QED BY <1>1, <1>2, PTL DEF WorkerSpec

\* Where no handler sleeps, nobody but its worker ends or suspends the run of an
\* attempt that is going on, unless the run was cancelled, its lease ran out or
\* its task was removed: claims, reapers and late calls of workers that lost the
\* run included, whatever handlers do with errors.
THEOREM OwnerUndisturbedHolds ==
    ASSUME MaxWake = 0
    PROVE  WorkerSpec => []OwnerUndisturbed
<1>1. OwnerInv => OwnerUndisturbed
  <2>. SUFFICES ASSUME OwnerInv, NEW s \in Slots, exec[s].pc \in {"claimed", "loading", "handler"}
                PROVE  LET run == tasks[exec[s].task].runs[exec[s].attempt]
                       IN  \/ run.state \in {"running", "cancelled", "absent"}
                           \/ run.state = "failed" /\ run.reason = "lease_expired"
    BY DEF OwnerUndisturbed
  <2>1. exec[s].pc \in Stages /\ exec[s].pc # "confirming" /\ exec[s].pc # "idle"
    BY DEF Stages
  <2>2. exec[s].task \in Tasks /\ exec[s].attempt \in Attempts
    BY <2>1, BusySlot DEF OwnerInv, WorkerBase
  <2>3. RowShape(tasks[exec[s].task])
    BY <2>2 DEF OwnerInv, WorkerBase, BareInv, ShapeInv
  <2>4. tasks[exec[s].task].state = "deleted"
          => tasks[exec[s].task].runs[exec[s].attempt].state = "absent"
    BY <2>2, <2>3 DEF RowShape, Live, NoRun
  <2>5. Sound(tasks[exec[s].task], exec[s].attempt, exec[s].pc)
    BY <2>1 DEF OwnerInv, Undisturbed
  <2>. QED BY <2>1, <2>4, <2>5 DEF Sound, Taken
<1>. QED BY <1>1, OwnerInductive, PTL

-----------------------------------------------------------------------------
(* Retention.                                                              *)

\* A task is removed only when its outcome is older than the retention time.
LEMMA DeletedByAge ==
    ASSUME NEW r \in Row, NEW c, NEW at \in Nat, RowShape(r), RowNext(r, c, at),
           r.state # "deleted", c.state = "deleted"
    PROVE  at >= Ttl
<1>1. ASSUME NEW m \in Row, RowShape(m), ClaimStep(m, c, at)
      PROVE  FALSE
  <2>1. PICK w \in Workers : c = Claimed(m, w, at)
    BY <1>1 DEF ClaimStep
  <2>2. Live(m)
    BY <1>1 DEF ClaimStep, Claimable, Live
  <2>. QED BY <2>1, <2>2, <1>1, ClaimedFields
<1>2. ~CancelStep(r, c, at)
  BY CancelledFields DEF CancelStep
<1>3. ~RetryStep(r, c, at)
  <2>. SUFFICES ASSUME RetryStep(r, c, at) PROVE FALSE
    OBVIOUS
  <2>1. PICK read \in 0 .. at : c = Retried(r, read)
    BY DEF RetryStep
  <2>2. r.attempts < MaxAttempt /\ read \in Nat
    BY DEF RetryStep
  <2>. QED BY <2>1, <2>2, RetriedFields
<1>4. ~SpawnStep(r, c, at)
  BY SpawnedFields DEF SpawnStep
<1>5. ASSUME NEW a \in Attempts, OwnerStep(r, c, a, at)
      PROVE  FALSE
  <2>1. Owned(r, a) /\ ~CancellationDue(r, at) /\ r.state = "running"
    BY <1>5 DEF OwnerStep, Owned
  <2>2. c # Completed(r, a, at)
    BY <2>1, CompletedFields
  <2>3. ~\E wake \in Nat : ~CancellationDue(r, wake) /\ wake > at /\ c = Scheduled(r, a, wake, at)
    BY <2>1, ScheduledFields
  <2>4. ~FirstWrite(r, c)
    BY CheckpointedFields DEF FirstWrite
  <2>5. Renewed(r, a, at).state = r.state
    BY RenewedFields
  <2>. QED BY <1>5, <2>2, <2>3, <2>4, <2>5 DEF OwnerStep
<1>6. ASSUME NEW a \in Attempts, FailStep(r, c, a, at)
      PROVE  FALSE
  <2>1. PICK reason \in {"error", "lease_expired"} : c = Failed(r, a, reason, at)
    BY <1>6 DEF FailStep
  <2>2. Owned(r, a) /\ ~CancellationDue(r, at)
    BY <1>6 DEF FailStep
  <2>. QED BY <2>1, <2>2, FailedFields
<1>7. TerminalAt(r) # Null /\ TerminalAt(r) <= at - Ttl
  BY <1>1, <1>2, <1>3, <1>4, <1>5, <1>6 DEF RowNext, ClaimRow, ReclaimStep
<1>8. TerminalAt(r) \in OrNull(Nat)
  <2>1. /\ r.cancelled_at \in OrNull(Nat)
        /\ r.state \in {"completed", "failed"} => Current(r).ended_at \in OrNull(Nat)
    <3>1. Live(r) => r.last \in Attempts
      BY DEF Row
    <3>. QED BY <3>1 DEF Row, RunType, Current, Live
  <2>. QED BY <2>1 DEF TerminalAt, OrNull
<1>. QED BY <1>7, <1>8, PolicyAssumption DEF OrNull

\* Every task is still there while the retention time has not passed.
Retained == now <= MaxTime /\ \A t \in Tasks : tasks[t].state # "deleted"

\* Where no handler sleeps, no answer of the database to an attempt ends the loop
\* of its worker until a task is old enough to be removed, whatever the handler,
\* other workers and clients did; the horizon MaxTime is any time before that.
THEOREM NoFatalErrorHolds ==
    ASSUME MaxWake = 0, MaxTime < Ttl
    PROVE  WorkerSpec => []NoFatalError
<1>1. WorkerInit => Retained
  BY BoundsAssumption DEF WorkerInit, Init, Retained, NoTask
<1>2. OwnerInv /\ Retained /\ [WorkerNext]_allVars => Retained'
  <2>. SUFFICES ASSUME OwnerInv, Retained, [WorkerNext]_allVars PROVE Retained'
    OBVIOUS
  <2>1. BareInv /\ ShapeInv /\ [Next]_vars /\ TypeOK /\ TypeOK'
    BY WorkerBaseStep DEF OwnerInv, WorkerBase, BareInv, ShapeInv
  <2>2. now \in Nat /\ now' <= MaxTime
    BY <2>1, BoundsAssumption DEF TypeOK
  <2>3. ASSUME NEW t \in Tasks, tasks'[t].state = "deleted"
        PROVE  FALSE
    <3>1. tasks[t] \in Row /\ RowShape(tasks[t]) /\ tasks[t].state # "deleted"
      BY <2>1 DEF TypeOK, ShapeInv, Retained
    <3>2. RowNext(tasks[t], tasks'[t], now)
      BY <2>1, RowSteps
    <3>3. now >= Ttl
      BY <3>1, <3>2, <2>2, <2>3, DeletedByAge
    <3>. QED BY <3>3, <2>2, BoundsAssumption, PolicyAssumption DEF Retained
  <2>. QED BY <2>2, <2>3 DEF Retained
<1>3. OwnerInv /\ Retained => NoFatalError
  BY DEF OwnerInv, Survives, Retained
<1>. QED BY <1>1, <1>2, <1>3, OwnerInductive, PTL DEF WorkerSpec

\* For every retention time: where no handler sleeps, a worker loop ends with a
\* fatal error only after retention removed a task.
THEOREM FatalOnlyAfterRetention ==
    ASSUME MaxWake = 0
    PROVE  WorkerSpec => [](NoFatalError \/ \E t \in Tasks : tasks[t].state = "deleted")
<1>1. OwnerInv => NoFatalError \/ \E t \in Tasks : tasks[t].state = "deleted"
  BY DEF OwnerInv, Survives
<1>. QED BY <1>1, OwnerInductive, PTL

-----------------------------------------------------------------------------
(* The counters.                                                           *)

\* The slots of a worker that hold an attempt.
Busy(w) == { s \in SlotsOf(w) : exec[s] # Idle }

\* What EveryClaimCounted says of one worker with n attempts in flight.
Tallied(m, n) ==
    m["claimed_runs"] < MaxCount =>
        /\ m["executions"] = m["completed"] + m["failed"] + m["lease_lost"]
                               + m["cancelled"] + m["suspended"] + m["unhandled"]
        /\ m["claimed_runs"] = m["executions"] + n

CountersOK == metrics \in [Workers -> [Counters -> 0 .. MaxCount]]

\* A worker has finitely many slots.
LEMMA SlotsFinite ==
    ASSUME NEW w \in Workers
    PROVE  IsFiniteSet(SlotsOf(w))
<1>. DEFINE I == 1 .. Concurrency
            f == [i \in I |-> <<w, i>>]
            S == { f[i] : i \in I }
<1>1. Concurrency \in Nat
  BY ConcurrencyAssumption, BoundsAssumption
<1>2. IsFiniteSet(I)
  BY <1>1, FS_Interval
<1>3. SlotsOf(w) \subseteq S
  BY DEF SlotsOf, Slots
<1>4. IsFiniteSet(S) /\ Cardinality(S) <= Cardinality(I)
  <2>1. f \in Surjection(I, S)
    BY DEF Surjection
  <2>. QED BY <2>1, <1>2, FS_Surjection
<1>. QED BY <1>3, <1>4, FS_Subset

\* A saturating counter stays within its width, counts a value that fits and
\* never shrinks.
LEMMA IncrementFacts ==
    ASSUME NEW x \in 0 .. MaxCount, NEW n \in Nat
    PROVE  /\ Increment(x, n) \in 0 .. MaxCount
           /\ Increment(x, n) >= x
           /\ Increment(x, n) < MaxCount => Increment(x, n) = x + n
           /\ x + n <= MaxCount => Increment(x, n) = x + n
<1>1. MaxCount \in Nat /\ x \in Nat /\ x <= MaxCount
  BY MaxCountAssumption
<1>2. CASE x + n <= MaxCount
  BY <1>1, <1>2 DEF Increment
<1>3. CASE ~(x + n <= MaxCount)
  BY <1>1, <1>3 DEF Increment
<1>. QED BY <1>2, <1>3

\* An attempt that ends adds one to the executions and one to its outcome.
LEMMA RecordFacts ==
    ASSUME CountersOK, NEW w \in Workers, NEW o \in Outcomes, Record(w, o)
    PROVE  /\ CountersOK'
           /\ \A v \in Workers : v # w => metrics'[v] = metrics[v]
           /\ metrics'[w]["executions"] = Increment(metrics[w]["executions"], 1)
           /\ metrics'[w][o] = Increment(metrics[w][o], 1)
           /\ \A c \in Counters : c \notin {"executions", o} => metrics'[w][c] = metrics[w][c]
<1>. DEFINE m == metrics[w]
            x == Increment(m["executions"], 1)
            y == Increment(m[o], 1)
            c2 == [m EXCEPT !["executions"] = x, ![o] = y]
<1>1. m \in [Counters -> 0 .. MaxCount] /\ o \in Counters /\ "executions" \in Counters /\ o # "executions"
  BY DEF CountersOK, Outcomes, ExecutionOutcomes, Counters
<1>2. x \in 0 .. MaxCount /\ y \in 0 .. MaxCount
  BY <1>1, IncrementFacts
<1>3. metrics' = [metrics EXCEPT ![w] = c2]
  <2>1. Added(m, o) = c2
    <3>1. o # "executions"
      BY <1>1
    <3>. QED BY <1>1, <3>1 DEF Added
  <2>2. CASE o \in ExecutionOutcomes
    <3>1. Finished(Start(w), o).finished /\ Finished(Start(w), o).counters = Added(m, o)
      BY DEF Finished, Start
    <3>. QED BY <2>1, <2>2, <3>1 DEF Record, Dropped
  <2>3. CASE o \notin ExecutionOutcomes
    <3>1. o = "unhandled" /\ ~Start(w).finished /\ Start(w).counters = m
      BY <2>3 DEF Outcomes, Start
    <3>. QED BY <2>1, <2>3, <3>1 DEF Record, Dropped
  <2>. QED BY <2>2, <2>3
<1>4. /\ c2 \in [Counters -> 0 .. MaxCount] /\ c2["executions"] = x /\ c2[o] = y
      /\ \A c \in Counters : c \notin {"executions", o} => c2[c] = m[c]
  <2>. HIDE DEF x, y, m
  <2>. QED BY <1>1, <1>2
<1>. HIDE DEF c2
<1>. QED BY <1>3, <1>4 DEF CountersOK

\* Counting leaves the other counters and the other workers alone.
LEMMA CountFacts ==
    ASSUME CountersOK, NEW w \in Workers, NEW o \in Counters, NEW n \in Nat, Count(w, o, n)
    PROVE  /\ CountersOK'
           /\ \A v \in Workers : v # w => metrics'[v] = metrics[v]
           /\ metrics'[w][o] = Increment(metrics[w][o], n)
           /\ \A c \in Counters : c # o => metrics'[w][c] = metrics[w][c]
<1>. DEFINE m == metrics[w]
            y == Increment(m[o], n)
            c1 == [m EXCEPT ![o] = y]
<1>1. m \in [Counters -> 0 .. MaxCount]
  BY DEF CountersOK
<1>2. y \in 0 .. MaxCount
  BY <1>1, IncrementFacts
<1>3. metrics' = [metrics EXCEPT ![w] = c1]
  BY DEF Count, CountersOK
<1>4. c1 \in [Counters -> 0 .. MaxCount] /\ c1[o] = y /\ \A c \in Counters : c # o => c1[c] = m[c]
  <2>. HIDE DEF y, m
  <2>. QED BY <1>1, <1>2
<1>. HIDE DEF c1
<1>. QED BY <1>3, <1>4 DEF CountersOK

\* The tally survives an attempt that ends.
LEMMA TalliedRecord ==
    ASSUME NEW m \in [Counters -> 0 .. MaxCount], NEW c \in [Counters -> 0 .. MaxCount],
           NEW o \in Outcomes, NEW n \in Nat, Tallied(m, n + 1),
           c["executions"] = Increment(m["executions"], 1),
           c[o] = Increment(m[o], 1),
           \A d \in Counters : d \notin {"executions", o} => c[d] = m[d]
    PROVE  Tallied(c, n)
<1>. DEFINE Sum(f) == f["completed"] + f["failed"] + f["lease_lost"]
                        + f["cancelled"] + f["suspended"] + f["unhandled"]
<1>1. MaxCount \in Nat
  BY MaxCountAssumption
<1>2. \A d \in Counters : m[d] \in 0 .. MaxCount /\ c[d] \in 0 .. MaxCount
  OBVIOUS
<1>3. /\ Outcomes = {"completed", "failed", "lease_lost", "cancelled", "suspended", "unhandled"}
      /\ Counters = {"claimed_runs", "claim_errors", "executions",
                     "completed", "failed", "lease_lost", "cancelled", "suspended", "unhandled"}
  BY DEF Outcomes, ExecutionOutcomes, Counters
<1>. SUFFICES ASSUME c["claimed_runs"] < MaxCount
              PROVE  c["executions"] = Sum(c) /\ c["claimed_runs"] = c["executions"] + n
  BY DEF Tallied
<1>4. c["claimed_runs"] = m["claimed_runs"]
  BY <1>3
<1>5. m["executions"] = Sum(m) /\ m["claimed_runs"] = m["executions"] + (n + 1)
  BY <1>4 DEF Tallied
<1>6. m["executions"] + 1 <= MaxCount
  BY <1>1, <1>2, <1>3, <1>4, <1>5
<1>7. c["executions"] = m["executions"] + 1
  BY <1>2, <1>3, <1>6, IncrementFacts
<1>8. m[o] <= m["executions"]
  BY <1>2, <1>3, <1>5
<1>9. c[o] = m[o] + 1
  <2>1. o \in Counters /\ "executions" \in Counters
    BY <1>3
  <2>2. m[o] \in 0 .. MaxCount /\ m[o] + 1 <= MaxCount
    BY <2>1, <1>1, <1>2, <1>6, <1>8
  <2>. QED BY <2>2, IncrementFacts
<1>10. Sum(c) = Sum(m) + 1
  <2>1. \A d \in Outcomes : d # o => c[d] = m[d]
    BY <1>3
  <2>2. \A d \in Outcomes : m[d] \in Int /\ c[d] \in Int
    BY <1>2, <1>3
  <2>3. CASE o = "completed"
    BY <2>1, <2>2, <2>3, <1>3, <1>9
  <2>4. CASE o = "failed"
    BY <2>1, <2>2, <2>4, <1>3, <1>9
  <2>5. CASE o = "lease_lost"
    BY <2>1, <2>2, <2>5, <1>3, <1>9
  <2>6. CASE o = "cancelled"
    BY <2>1, <2>2, <2>6, <1>3, <1>9
  <2>7. CASE o = "suspended"
    BY <2>1, <2>2, <2>7, <1>3, <1>9
  <2>8. CASE o = "unhandled"
    BY <2>1, <2>2, <2>8, <1>3, <1>9
  <2>. QED BY <2>3, <2>4, <2>5, <2>6, <2>7, <2>8, <1>3
<1>. QED BY <1>2, <1>3, <1>4, <1>5, <1>7, <1>10

\* The attempts in flight are finitely many.
LEMMA BusyFinite ==
    ASSUME NEW w \in Workers, NEW S, S \subseteq SlotsOf(w)
    PROVE  IsFiniteSet(S) /\ Cardinality(S) \in Nat
BY SlotsFinite, FS_Subset, FS_CardinalityType

\* A step that changes one busy slot takes it from its worker or leaves the
\* worker's attempts as they are.
LEMMA BusyFreed ==
    ASSUME NEW s \in Slots, exec[s] # Idle, OnlySlot(s)
    PROVE  /\ s[1] \in Workers
           /\ \A v \in Workers : v # s[1] => Busy(v)' = Busy(v)
           /\ exec'[s] # Idle => Busy(s[1])' = Busy(s[1])
           /\ exec'[s] = Idle =>
                /\ Cardinality(Busy(s[1]))' \in Nat
                /\ Cardinality(Busy(s[1])) = Cardinality(Busy(s[1]))' + 1
<1>. DEFINE w == s[1]
            B == Busy(w)
            C == { u \in SlotsOf(w) : exec'[u] # Idle }
<1>1. w \in Workers /\ s \in SlotsOf(w) /\ s \in B
  BY DEF Slots, SlotsOf, Busy
<1>2. C = Busy(w)'
  BY DEF Busy, SlotsOf, Slots
<1>3. \A v \in Workers : v # w => Busy(v)' = Busy(v)
  <2>. SUFFICES ASSUME NEW v \in Workers, v # w
                PROVE  Busy(v)' = Busy(v)
    OBVIOUS
  <2>1. \A u \in SlotsOf(v) : u \in Slots /\ u # s
    BY DEF SlotsOf
  <2>. QED BY <2>1 DEF OnlySlot, Busy, SlotsOf, Slots
<1>4. exec'[s] # Idle => C = B
  BY DEF OnlySlot, Busy, SlotsOf
<1>5. ASSUME exec'[s] = Idle
      PROVE  Cardinality(C) \in Nat /\ Cardinality(B) = Cardinality(C) + 1
  <2>1. C = B \ {s}
    BY <1>5 DEF OnlySlot, Busy, SlotsOf
  <2>2. IsFiniteSet(B) /\ Cardinality(B) \in Nat /\ Cardinality(C) \in Nat
    BY <1>1, BusyFinite DEF Busy
  <2>3. s \in B
    BY <1>1
  <2>. HIDE DEF B, C
  <2>4. Cardinality(B \ {s}) = Cardinality(B) - 1
    BY <2>2, <2>3, FS_RemoveElement
  <2>. QED BY <2>1, <2>2, <2>4
<1>. HIDE DEF B, C
<1>. QED BY <1>1, <1>2, <1>3, <1>4, <1>5 DEF B

\* A poll adds one attempt in flight for every run it was given.
LEMMA BusyPolled ==
    ASSUME WorkerBase, TypeOK', NEW w \in Workers, Poll(w)
    PROVE  /\ Cardinality(Granted) \in Nat
           /\ Cardinality(Busy(w))' = Cardinality(Busy(w)) + Cardinality(Granted)
           /\ \A v \in Workers : v # w => Busy(v)' = Busy(v)
<1>. DEFINE P == { u \in SlotsOf(w) : \E t \in Tasks : Newly(u, t) }
            B == Busy(w)
            C == { u \in SlotsOf(w) : exec'[u] # Idle }
            f == [u \in P |-> exec'[u].task]
<1>1. /\ \A u \in Slots : exec'[u] = exec[u] \/ (u \in SlotsOf(w) /\ \E t \in Tasks : Newly(u, t))
      /\ \A t \in Granted : \E u \in SlotsOf(w) : Newly(u, t)
      /\ \A u, v \in Slots, t \in Tasks : Newly(u, t) /\ Newly(v, t) => u = v
  BY PollFacts DEF WorkerBase, BareInv
<1>2. \A u, t : Newly(u, t) => t \in Granted /\ exec[u] = Idle /\ exec'[u] # Idle /\ exec'[u].task = t
  BY DEF Newly, Idle
<1>3. \A u \in SlotsOf(w) : u \in Slots /\ u[1] = w
  BY DEF SlotsOf
<1>4. Granted \subseteq Tasks
  BY DEF Granted
<1>5. f \in Bijection(P, Granted)
  <2>1. f \in [P -> Granted]
    BY <1>2
  <2>2. \A u, v \in P : f[u] = f[v] => u = v
    BY <1>1, <1>2, <1>3
  <2>3. \A t \in Granted : \E u \in P : f[u] = t
    BY <1>1, <1>2, <1>4
  <2>. HIDE DEF f, P
  <2>4. f \in Injection(P, Granted)
    BY <2>1, <2>2 DEF Injection, IsInjective
  <2>5. f \in Surjection(P, Granted)
    BY <2>1, <2>3 DEF Surjection
  <2>. QED BY <2>4, <2>5 DEF Bijection
<1>6. C = B \cup P /\ B \cap P = {}
  BY <1>1, <1>2, <1>3 DEF Busy
<1>7. IsFiniteSet(P) /\ Cardinality(P) \in Nat /\ IsFiniteSet(B) /\ Cardinality(B) \in Nat
  <2>1. P \subseteq SlotsOf(w) /\ B \subseteq SlotsOf(w)
    BY DEF Busy
  <2>. QED BY <2>1, BusyFinite
<1>8. \A v \in Workers : v # w => Busy(v)' = Busy(v)
  <2>. SUFFICES ASSUME NEW v \in Workers, v # w
                PROVE  Busy(v)' = Busy(v)
    OBVIOUS
  <2>1. \A u \in SlotsOf(v) : u \in Slots /\ u[1] = v
    BY DEF SlotsOf
  <2>2. \A u \in SlotsOf(v) : exec'[u] = exec[u]
    BY <2>1, <1>1, <1>3
  <2>. QED BY <2>2 DEF Busy, SlotsOf, Slots
<1>9. C = Busy(w)'
  BY DEF Busy, SlotsOf, Slots
<1>. HIDE DEF P, B, C, f
<1>10. Cardinality(Granted) = Cardinality(P)
  <2>1. ExistsBijection(P, Granted)
    BY <1>5 DEF ExistsBijection
  <2>. QED BY <2>1, <1>7, FS_Bijection
<1>11. Cardinality(C) = Cardinality(B) + Cardinality(P)
  <2>1. Cardinality(B \cap P) = 0
    BY <1>6, FS_EmptySet
  <2>2. Cardinality(B \cup P) = Cardinality(B) + Cardinality(P) - Cardinality(B \cap P)
    BY <1>7, FS_Union
  <2>. QED BY <2>1, <2>2, <1>6, <1>7
<1>12. Cardinality(Busy(w))' = Cardinality(C)
  BY <1>9
<1>. QED BY <1>7, <1>8, <1>10, <1>11, <1>12 DEF B

\* Every attempt ends with an outcome that has a counter.
LEMMA OutcomeKnown ==
    ASSUME NEW s
    PROVE  Outcome(s) \in Outcomes
<1>1. \A e : CompletionOutcome(s, e) \in Outcomes
  BY DEF CompletionOutcome, Outcomes, ExecutionOutcomes
<1>2. \A e : FailureOutcome(e) \in Outcomes
  BY DEF FailureOutcome, Outcomes, ExecutionOutcomes
<1>3. \A e : ConfirmedOutcome(e) \in Outcomes
  BY DEF ConfirmedOutcome, Outcomes, ExecutionOutcomes
<1>4. \A e : SupervisedOutcome(e) \in Outcomes
  BY DEF SupervisedOutcome, Outcomes
<1>5. "lease_lost" \in Outcomes /\ "unhandled" \in Outcomes
  BY DEF Outcomes, ExecutionOutcomes
<1>. QED BY <1>1, <1>2, <1>3, <1>4, <1>5 DEF Outcome

\* The steps of the counted system are steps of the workers.
LEMMA MetricsStep ==
    ASSUME [MetricsNext]_metricsVars
    PROVE  [WorkerNext]_allVars
BY DEF MetricsNext, WorkerNext, ExecuteTask, metricsVars, allVars

\* EveryClaimCounted with the counters' width and the rows and types under it.
MetricsInv ==
    /\ WorkerBase /\ CountersOK
    /\ \A w \in Workers : Tallied(metrics[w], Cardinality(Busy(w)))

\* It is EveryClaimCounted that the invariant states of every worker.
LEMMA TalliedMeansCounted ==
    EveryClaimCounted <=> \A w \in Workers : Tallied(metrics[w], Cardinality(Busy(w)))
<1>1. \A w \in Workers : SlotsOf(w) \ FreeSlots(w) = Busy(w)
  BY DEF FreeSlots, Busy
<1>. QED BY <1>1 DEF EveryClaimCounted, Counted, Tallied

\* It holds when no worker has polled.
LEMMA MetricsInvInit ==
    ASSUME MetricsInit
    PROVE  MetricsInv
<1>1. WorkerBase
  BY WorkerBaseInit DEF MetricsInit
<1>2. NewMetrics \in [Counters -> 0 .. MaxCount]
  BY MaxCountAssumption DEF NewMetrics
<1>3. ASSUME NEW w \in Workers
      PROVE  Tallied(metrics[w], Cardinality(Busy(w)))
  <2>1. metrics[w] = NewMetrics
    BY DEF MetricsInit
  <2>2. Busy(w) = {}
    BY DEF MetricsInit, WorkerInit, Busy, SlotsOf
  <2>3. Cardinality(Busy(w)) = 0
    BY <2>2, FS_EmptySet
  <2>. QED BY <2>1, <2>3 DEF Tallied, NewMetrics, Counters, Outcomes, ExecutionOutcomes
<1>. QED BY <1>1, <1>2, <1>3 DEF MetricsInv, MetricsInit, CountersOK

\* A worker that neither polls nor ends an attempt keeps its tally.
LEMMA TalliedSame ==
    ASSUME MetricsInv, NEW v \in Workers, metrics'[v] = metrics[v], Busy(v)' = Busy(v)
    PROVE  Tallied(metrics[v], Cardinality(Busy(v)))'
<1>1. Tallied(metrics[v], Cardinality(Busy(v)))
  BY DEF MetricsInv
<1>2. Cardinality(Busy(v))' = Cardinality(Busy(v))
  OBVIOUS
<1>. QED BY <1>1, <1>2 DEF Tallied

\* The end of an attempt keeps the tally.
LEMMA TalliedEnd ==
    ASSUME MetricsInv, NEW s \in Slots, exec[s] # Idle, OnlySlot(s), exec'[s] = Idle,
           NEW o \in Outcomes, Record(s[1], o)
    PROVE  CountersOK' /\ \A v \in Workers : Tallied(metrics[v], Cardinality(Busy(v)))'
<1>. DEFINE w == s[1]
<1>1. /\ w \in Workers
      /\ \A v \in Workers : v # w => Busy(v)' = Busy(v)
      /\ Cardinality(Busy(w))' \in Nat
      /\ Cardinality(Busy(w)) = Cardinality(Busy(w))' + 1
  BY BusyFreed
<1>2. CountersOK
  BY DEF MetricsInv
<1>3. /\ CountersOK'
      /\ \A v \in Workers : v # w => metrics'[v] = metrics[v]
      /\ metrics'[w]["executions"] = Increment(metrics[w]["executions"], 1)
      /\ metrics'[w][o] = Increment(metrics[w][o], 1)
      /\ \A c \in Counters : c \notin {"executions", o} => metrics'[w][c] = metrics[w][c]
  BY <1>1, <1>2, RecordFacts
<1>. HIDE DEF w
<1>4. Tallied(metrics[w], Cardinality(Busy(w)))'
  <2>1. metrics[w] \in [Counters -> 0 .. MaxCount] /\ metrics'[w] \in [Counters -> 0 .. MaxCount]
    BY <1>1, <1>2, <1>3 DEF CountersOK
  <2>2. Tallied(metrics[w], Cardinality(Busy(w))' + 1)
    BY <1>1 DEF MetricsInv
  <2>3. Tallied(metrics'[w], Cardinality(Busy(w))')
    BY <2>1, <2>2, <1>1, <1>3, TalliedRecord
  <2>. QED BY <2>3 DEF Tallied
<1>5. \A v \in Workers : v # w => Tallied(metrics[v], Cardinality(Busy(v)))'
  BY <1>1, <1>3, TalliedSame
<1>. QED BY <1>3, <1>4, <1>5

\* A poll keeps the tally.
LEMMA TalliedPoll ==
    ASSUME MetricsInv, TypeOK', NEW w \in Workers, Poll(w),
           Count(w, "claimed_runs", Cardinality(Granted))
    PROVE  CountersOK' /\ \A v \in Workers : Tallied(metrics[v], Cardinality(Busy(v)))'
<1>1. /\ Cardinality(Granted) \in Nat
      /\ Cardinality(Busy(w))' = Cardinality(Busy(w)) + Cardinality(Granted)
      /\ \A v \in Workers : v # w => Busy(v)' = Busy(v)
  BY BusyPolled DEF MetricsInv
<1>2. CountersOK /\ "claimed_runs" \in Counters
  BY DEF MetricsInv, Counters
<1>3. /\ CountersOK'
      /\ \A v \in Workers : v # w => metrics'[v] = metrics[v]
      /\ metrics'[w]["claimed_runs"] = Increment(metrics[w]["claimed_runs"], Cardinality(Granted))
      /\ \A c \in Counters : c # "claimed_runs" => metrics'[w][c] = metrics[w][c]
  BY <1>1, <1>2, CountFacts
<1>4. Cardinality(Busy(w)) \in Nat
  BY BusyFinite DEF Busy
<1>5. ASSUME metrics'[w]["claimed_runs"] < MaxCount
      PROVE  /\ metrics[w]["claimed_runs"] < MaxCount
             /\ metrics'[w]["claimed_runs"] = metrics[w]["claimed_runs"] + Cardinality(Granted)
  <2>1. metrics[w]["claimed_runs"] \in 0 .. MaxCount
    BY <1>2 DEF CountersOK
  <2>2. metrics'[w]["claimed_runs"] = metrics[w]["claimed_runs"] + Cardinality(Granted)
    BY <2>1, <1>1, <1>3, <1>5, IncrementFacts
  <2>. QED BY <2>1, <2>2, <1>1, <1>5, MaxCountAssumption
<1>6. Tallied(metrics[w], Cardinality(Busy(w)))'
  <2>1. Tallied(metrics[w], Cardinality(Busy(w)))
    BY DEF MetricsInv
  <2>2. \A c \in Outcomes \cup {"executions"} : metrics'[w][c] = metrics[w][c] /\ metrics[w][c] \in Nat
    BY <1>2, <1>3, MaxCountAssumption DEF Counters, Outcomes, ExecutionOutcomes, CountersOK
  <2>3. Outcomes \cup {"executions"} =
          {"executions", "completed", "failed", "lease_lost", "cancelled", "suspended", "unhandled"}
    BY DEF Outcomes, ExecutionOutcomes
  <2>. SUFFICES ASSUME metrics'[w]["claimed_runs"] < MaxCount
                PROVE  /\ metrics'[w]["executions"] =
                              metrics'[w]["completed"] + metrics'[w]["failed"] + metrics'[w]["lease_lost"]
                                + metrics'[w]["cancelled"] + metrics'[w]["suspended"] + metrics'[w]["unhandled"]
                       /\ metrics'[w]["claimed_runs"] = metrics'[w]["executions"] + Cardinality(Busy(w))'
    BY DEF Tallied
  <2>4. metrics'[w]["executions"] =
            metrics'[w]["completed"] + metrics'[w]["failed"] + metrics'[w]["lease_lost"]
              + metrics'[w]["cancelled"] + metrics'[w]["suspended"] + metrics'[w]["unhandled"]
    BY <2>1, <2>2, <2>3, <1>5 DEF Tallied
  <2>5. metrics[w]["claimed_runs"] = metrics[w]["executions"] + Cardinality(Busy(w))
    BY <2>1, <1>5 DEF Tallied
  <2>. QED BY <2>2, <2>3, <2>4, <2>5, <1>1, <1>4, <1>5
<1>7. \A v \in Workers : v # w => Tallied(metrics[v], Cardinality(Busy(v)))'
  BY <1>1, <1>3, TalliedSame
<1>. QED BY <1>3, <1>6, <1>7

\* Every step keeps the invariant of the counters.
LEMMA MetricsInvStep ==
    ASSUME MetricsInv, [MetricsNext]_metricsVars
    PROVE  MetricsInv'
<1>. DEFINE Goal == CountersOK' /\ \A v \in Workers : Tallied(metrics[v], Cardinality(Busy(v)))'
<1>1. WorkerBase' /\ TypeOK'
  BY MetricsStep, WorkerBaseStep DEF MetricsInv, WorkerBase, WorkerTypeOK
<1>2. CountersOK /\ WorkerBase /\ ShapeInv /\ WorkerTypeOK
  BY DEF MetricsInv, WorkerBase, BareInv
<1>3. exec' = exec => \A v \in Workers : Busy(v)' = Busy(v)
  BY DEF Busy, SlotsOf, Slots
<1>4. ASSUME exec' = exec, metrics' = metrics
      PROVE  Goal
  BY <1>2, <1>3, <1>4, TalliedSame DEF CountersOK
<1>5. ASSUME NEW w \in Workers, Poll(w), Count(w, "claimed_runs", Cardinality(Granted))
      PROVE  Goal
  BY <1>1, <1>5, TalliedPoll
<1>6. ASSUME NEW w \in Workers, PollLost(w), Count(w, "claim_errors", 1)
      PROVE  Goal
  <2>1. \A v \in Workers : Busy(v)' = Busy(v)
    BY <1>3, <1>6 DEF PollLost
  <2>2. "claim_errors" \in Counters
    BY DEF Counters
  <2>3. /\ CountersOK'
        /\ \A v \in Workers : v # w => metrics'[v] = metrics[v]
        /\ \A c \in Counters : c # "claim_errors" => metrics'[w][c] = metrics[w][c]
    BY <2>2, <1>2, <1>6, CountFacts
  <2>4. Tallied(metrics[w], Cardinality(Busy(w)))'
    <3>1. Tallied(metrics[w], Cardinality(Busy(w))) /\ Cardinality(Busy(w))' = Cardinality(Busy(w))
      BY <2>1 DEF MetricsInv
    <3>2. \A c \in {"claimed_runs", "executions", "completed", "failed", "lease_lost",
                    "cancelled", "suspended", "unhandled"} : metrics'[w][c] = metrics[w][c]
      BY <2>3 DEF Counters, Outcomes, ExecutionOutcomes
    <3>. QED BY <3>1, <3>2 DEF Tallied
  <2>5. \A v \in Workers : v # w => Tallied(metrics[v], Cardinality(Busy(v)))'
    BY <2>1, <2>3, TalliedSame
  <2>. QED BY <2>3, <2>4, <2>5
<1>7. ASSUME NEW w \in Workers, (Shutdown(w) \/ Stop(w)) /\ UNCHANGED metrics
      PROVE  Goal
  BY <1>4, <1>7 DEF Shutdown, Stop
<1>8. ASSUME NEW w \in Workers, Crash(w), metrics' = [metrics EXCEPT ![w] = NewMetrics]
      PROVE  Goal
  <2>1. /\ NewMetrics \in [Counters -> 0 .. MaxCount]
        /\ \A c \in {"claimed_runs", "executions", "completed", "failed", "lease_lost",
                     "cancelled", "suspended", "unhandled"} : NewMetrics[c] = 0
    BY MaxCountAssumption DEF NewMetrics, Counters, Outcomes, ExecutionOutcomes
  <2>2. CountersOK' /\ metrics'[w] = NewMetrics /\ \A v \in Workers : v # w => metrics'[v] = metrics[v]
    BY <2>1, <1>2, <1>8 DEF CountersOK
  <2>3. Busy(w)' = {}
    BY <1>8 DEF Crash, Busy, SlotsOf, Slots
  <2>4. Cardinality(Busy(w))' = 0
    BY <2>3, FS_EmptySet
  <2>5. Tallied(metrics[w], Cardinality(Busy(w)))'
    BY <2>1, <2>2, <2>4 DEF Tallied
  <2>6. \A v \in Workers : v # w => Busy(v)' = Busy(v)
    BY <1>8 DEF Crash, Busy, SlotsOf, Slots
  <2>7. \A v \in Workers : v # w => Tallied(metrics[v], Cardinality(Busy(v)))'
    BY <2>2, <2>6, TalliedSame
  <2>. QED BY <2>2, <2>5, <2>7
<1>9. ASSUME NEW s \in Slots, AttemptStep(s),
             IF exec'[s] = Idle THEN Record(s[1], Outcome(s)) ELSE UNCHANGED metrics
      PROVE  Goal
  <2>1. Moves(s)
    BY <1>2, <1>9, AttemptMoves
  <2>2. exec[s] # Idle /\ OnlySlot(s)
    BY <2>1, StageBusy DEF Moves, Execution
  <2>3. CASE exec'[s] = Idle
    BY <2>2, <2>3, <1>9, OutcomeKnown, TalliedEnd
  <2>4. CASE exec'[s] # Idle
    <3>1. \A v \in Workers : Busy(v)' = Busy(v)
      BY <2>2, <2>4, BusyFreed
    <3>2. metrics' = metrics
      BY <2>4, <1>9
    <3>. QED BY <3>1, <3>2, <1>2, TalliedSame DEF CountersOK
  <2>. QED BY <2>3, <2>4
<1>10. ASSUME NEW s \in Slots, ConnectionLost(s), Record(s[1], "unhandled")
       PROVE  Goal
  <2>1. exec[s] # Idle
    BY <1>10 DEF ConnectionLost, Idle
  <2>2. exec'[s] = Idle /\ OnlySlot(s) /\ "unhandled" \in Outcomes
    BY <1>2, <1>10 DEF ConnectionLost, WorkerTypeOK, OnlySlot, Outcomes
  <2>. QED BY <2>1, <2>2, <1>10, TalliedEnd
<1>11. ASSUME Environment, UNCHANGED metrics
       PROVE  Goal
  BY <1>4, <1>11 DEF Environment, workerVars
<1>12. ASSUME UNCHANGED metricsVars
       PROVE  Goal
  BY <1>4, <1>12 DEF metricsVars
<1>. HIDE DEF Goal
<1>13. Goal
  BY <1>5, <1>6, <1>7, <1>8, <1>9, <1>10, <1>11, <1>12 DEF MetricsNext
<1>. QED BY <1>1, <1>13 DEF MetricsInv, Goal

\* A TaskExecution guard is neither lost nor recorded twice: until the counter of
\* claimed runs saturates, every run a worker claimed is in flight in one of its
\* slots or was counted as one execution under exactly one outcome, for any
\* number of workers, slots and tasks and for every way execute_task() returns.
THEOREM EveryClaimCountedHolds == MetricsSpec => []EveryClaimCounted
<1>1. MetricsInit => MetricsInv
  BY MetricsInvInit
<1>2. MetricsInv /\ [MetricsNext]_metricsVars => MetricsInv'
  BY MetricsInvStep
<1>3. MetricsInv => EveryClaimCounted
  BY TalliedMeansCounted DEF MetricsInv
<1>. QED BY <1>1, <1>2, <1>3, PTL DEF MetricsSpec

-----------------------------------------------------------------------------
(* OutcomesAreDurable.                                                     *)

\* What OutcomesAreDurable says of the row of an attempt counted under o.
Durable(r, a, at, o) ==
    CASE o = "lease_lost" -> r.runs[a].state = "failed" \/ LeaseExpired(r, at)
      [] o = "suspended" -> r.runs[a].state = "sleeping"
      [] o = "cancelled" -> r.state = "cancelled"
      [] OTHER -> r.runs[a].state = o

\* The run fail_run() ended.
Concluded(r, a) == r.runs[a].state \in {"failed", "cancelled"} \/ r.state = "deleted"

\* An attempt that waits for persisted_execution_outcome() after fail_run() has a
\* run that failed or was cancelled, until retention removes it.
ConfirmedKept ==
    \A s \in Slots : exec[s].pc = "confirming" => Concluded(tasks[exec[s].task], exec[s].attempt)

\* Claiming a task touches its current run, which waits.
LEMMA ClaimStepKeeps ==
    ASSUME NEW r \in Row, NEW c, NEW at \in Nat, NEW b \in Attempts, RowShape(r),
           ClaimStep(r, c, at), r.runs[b].state \in Terminal
    PROVE  c.runs[b] = r.runs[b]
<1>1. PICK w \in Workers : c = Claimed(r, w, at)
  BY DEF ClaimStep
<1>2. Live(r) /\ r.last \in Attempts /\ r.runs[r.last].state \notin Terminal
  BY DEF ClaimStep, Claimable, Live, Row, Current, Terminal
<1>3. \A d \in Attempts \ {r.last} : c.runs[d] = r.runs[d]
  BY <1>1, <1>2, ClaimedFields
<1>. QED BY <1>2, <1>3

\* No step changes how a run ended.
LEMMA EndedRunStays ==
    ASSUME NEW r \in Row, NEW c, NEW at \in Nat, NEW b \in Attempts, RowShape(r),
           RowNext(r, c, at), r.runs[b].state \in Terminal
    PROVE  c.runs[b].state = r.runs[b].state \/ c.state = "deleted"
<1>1. Calm(r, c, b) => c.runs[b].state = r.runs[b].state \/ c.state = "deleted"
  BY DEF Calm, Begun, Terminal
<1>2. \A a \in Attempts : Owned(r, a) => b # a
  BY DEF Owned, Terminal
<1>3. CASE c = r
  BY <1>3
<1>4. CASE CancelStep(r, c, at)
  BY <1>1, <1>4, CancelSilent DEF Silent
<1>5. CASE ClaimStep(r, c, at)
  BY <1>5, ClaimStepKeeps
<1>6. ASSUME NEW a \in Attempts, FailStep(r, c, a, at)
      PROVE  c.runs[b].state = r.runs[b].state \/ c.state = "deleted"
  BY <1>1, <1>2, <1>6, FailSilent DEF Silent, FailStep
<1>7. ASSUME NEW a \in Attempts, ReclaimStep(r, c, a, at)
      PROVE  c.runs[b].state = r.runs[b].state
  <2>1. PICK mid \in Row : FailStep(r, mid, a, at) /\ RowShape(mid) /\ ClaimStep(mid, c, at)
    BY <1>7 DEF ReclaimStep
  <2>2. Calm(r, mid, b)
    BY <1>2, <2>1, FailSilent DEF Silent, FailStep
  <2>3. mid.state # "deleted"
    BY <2>1 DEF ClaimStep, Claimable
  <2>4. mid.runs[b].state = r.runs[b].state
    BY <2>2, <2>3 DEF Calm, Begun, Terminal
  <2>5. c.runs[b] = mid.runs[b]
    BY <2>1, <2>4, ClaimStepKeeps
  <2>. QED BY <2>4, <2>5
<1>8. CASE SpawnStep(r, c, at) \/ RetryStep(r, c, at) \/ c = NoTask("deleted")
  BY <1>1, <1>8, ClientSilent DEF Silent
<1>9. ASSUME NEW a \in Attempts, OwnerStep(r, c, a, at)
      PROVE  c.runs[b].state = r.runs[b].state \/ c.state = "deleted"
  BY <1>1, <1>2, <1>9, OwnerSilent DEF Silent, OwnerStep
<1>. QED BY <1>3, <1>4, <1>5, <1>6, <1>7, <1>8, <1>9 DEF RowNext, ClaimRow

\* What fail_run() ended stays ended, or goes with its task.
LEMMA ConcludedStays ==
    ASSUME BareInv, [Next]_vars, NEW t \in Tasks, NEW a \in Attempts, Concluded(tasks[t], a)
    PROVE  Concluded(tasks'[t], a)
<1>1. now \in Nat /\ tasks[t] \in Row /\ RowShape(tasks[t])
  BY BoundsAssumption DEF BareInv, ShapeInv, TypeOK
<1>2. RowNext(tasks[t], tasks'[t], now)
  BY RowSteps DEF BareInv
<1>3. CASE tasks[t].state = "deleted"
  <2>1. RowFinal(tasks[t], tasks'[t])
    BY <1>1, <1>2, RowFinalStep
  <2>. QED BY <2>1, <1>3 DEF RowFinal, Frozen, Concluded
<1>4. CASE tasks[t].runs[a].state \in {"failed", "cancelled"}
  BY <1>1, <1>2, <1>4, EndedRunStays DEF Concluded, Terminal
<1>. QED BY <1>3, <1>4 DEF Concluded

\* Every step keeps it.
LEMMA ConfirmedStep ==
    ASSUME WorkerBase, ConfirmedKept, [WorkerNext]_allVars
    PROVE  ConfirmedKept'
<1>1. BareInv /\ ShapeInv /\ WorkerTypeOK /\ [Next]_vars /\ TypeOK'
  BY WorkerBaseStep DEF WorkerBase, BareInv, ShapeInv
<1>. SUFFICES ASSUME NEW u \in Slots, exec'[u].pc = "confirming"
              PROVE  Concluded(tasks'[exec'[u].task], exec'[u].attempt)
  BY DEF ConfirmedKept, Concluded
<1>2. ASSUME exec'[u] = exec[u]
      PROVE  Concluded(tasks'[exec'[u].task], exec'[u].attempt)
  <2>1. exec[u].pc = "confirming"
    BY <1>2
  <2>2. PICK t \in Tasks, a \in Attempts : t = exec[u].task /\ a = exec[u].attempt
    BY <2>1, <1>1, BusySlot
  <2>3. Concluded(tasks[t], a)
    BY <2>1, <2>2 DEF ConfirmedKept
  <2>4. Concluded(tasks'[t], a)
    BY <2>3, <1>1, ConcludedStays
  <2>. QED BY <2>2, <2>4, <1>2
<1>3. exec'[u] # Idle
  BY DEF Idle
<1>4. ASSUME NEW s \in Slots, AttemptStep(s)
      PROVE  Concluded(tasks'[exec'[u].task], exec'[u].attempt)
  <2>1. Moves(s)
    BY <1>1, <1>4, AttemptMoves
  <2>2. CASE u # s
    BY <2>1, <2>2, <1>2 DEF Moves, OnlySlot
  <2>3. CASE u = s
    <3>1. ~Advances(s) /\ ~Suspends(s)
      BY <2>3 DEF Advances, Suspends
    <3>2. ~Ends(s) /\ ~Dies(s)
      BY <2>3, <1>1, <1>3 DEF Ends, Dies, Die, WorkerTypeOK
    <3>3. Fails(s)
      BY <2>1, <3>1, <3>2 DEF Moves
    <3>. QED BY <2>3, <3>3 DEF Fails, Onward, Concluded
  <2>. QED BY <2>2, <2>3
<1>5. ASSUME NEW s \in Slots, ConnectionLost(s)
      PROVE  exec'[u] = exec[u] \/ exec'[u] = Idle
  BY <1>1, <1>5 DEF ConnectionLost, WorkerTypeOK
<1>6. ASSUME NEW w \in Workers, Poll(w)
      PROVE  exec'[u] = exec[u]
  <2>1. exec'[u] = exec[u] \/ \E t \in Tasks : Newly(u, t)
    BY <1>1, <1>6, PollFacts
  <2>2. \A t \in Tasks : Newly(u, t) => exec'[u].pc = "claimed"
    BY DEF Newly
  <2>. QED BY <2>1, <2>2
<1>7. ASSUME NEW w \in Workers, PollLost(w) \/ Shutdown(w) \/ Stop(w)
      PROVE  exec'[u] = exec[u]
  BY <1>7 DEF PollLost, Shutdown, Stop
<1>8. ASSUME NEW w \in Workers, Crash(w)
      PROVE  exec'[u] = exec[u] \/ exec'[u] = Idle
  BY <1>8 DEF Crash
<1>9. Environment \/ UNCHANGED allVars => exec'[u] = exec[u]
  BY DEF Environment, workerVars, allVars
<1>. QED
  BY <1>2, <1>3, <1>4, <1>5, <1>6, <1>7, <1>8, <1>9 DEF WorkerNext, ExecuteTask

\* A cancelled run is the run of a cancelled task.
LEMMA CancelledRun ==
    ASSUME NEW r \in Row, NEW a \in Attempts, RowShape(r), r.runs[a].state = "cancelled"
    PROVE  r.state = "cancelled"
<1>1. Live(r)
  BY DEF RowShape, NoRun
<1>2. History(r) /\ Authoritative(r)
  BY <1>1 DEF RowShape
<1>3. a = r.last
  BY <1>2 DEF History, NoRun, Row, Attempts
<1>. QED BY <1>2, <1>3 DEF Authoritative, Current

\* The errors of lock_running_attempt() say what the row says.
LEMMA RefusalDurable ==
    ASSUME NEW r \in Row, NEW a \in Attempts, NEW at \in Nat, RowShape(r)
    PROVE  LET error == LockRunningAttempt(r, a, FALSE, at)
           IN  /\ error = "ST001" => Durable(r, a, at, "cancelled")
               /\ error = "ST002" => Durable(r, a, at, "failed")
               /\ error = "ST003" => Durable(r, a, at, "lease_lost")
<1>. DEFINE error == LockRunningAttempt(r, a, FALSE, at)
            run == r.runs[a]
<1>1. run.state \in {"absent", "pending", "sleeping", "running", "completed", "failed", "cancelled"}
  BY DEF Row, RunType, Active, Terminal
<1>2. error = "ST001" => r.state = "cancelled"
  <2>1. error = "ST001" => run.state = "cancelled" \/ r.state = "cancelled"
    BY <1>1 DEF LockRunningAttempt
  <2>. QED BY <2>1, CancelledRun
<1>3. error = "ST002" => run.state = "failed"
  BY <1>1 DEF LockRunningAttempt
<1>4. error = "ST003" => LeaseExpired(r, at)
  <2>1. error = "ST003" => run.state = "running" /\ r.last = a /\ run.claim_expires_at <= at
    BY <1>1 DEF LockRunningAttempt
  <2>. QED BY <2>1 DEF LeaseExpired, Current
<1>. HIDE DEF error
<1>5. /\ error = "ST001" => Durable(r, a, at, "cancelled")
      /\ error = "ST002" => Durable(r, a, at, "failed")
      /\ error = "ST003" => Durable(r, a, at, "lease_lost")
  BY <1>2, <1>3, <1>4 DEF Durable
<1>. QED BY <1>5 DEF error

\* An answer of supervise_run() about a run that is over says what the row says.
LEMMA SupervisionDurable ==
    ASSUME NEW r \in Row, NEW a \in Attempts, NEW at \in Nat, RowShape(r),
           r.runs[a].state # "running",
           Supervision(r, a, at) \in ExecutionOutcomes
    PROVE  Durable(r, a, at, Supervision(r, a, at))
<1>. DEFINE answer == Supervision(r, a, at)
            run == r.runs[a]
<1>1. run.state \in {"absent", "pending", "sleeping", "completed", "failed", "cancelled"}
  BY DEF Row, RunType, Active, Terminal
<1>2. CASE run.state = "absent"
  BY <1>2 DEF Supervision, ExecutionOutcomes
<1>3. CASE run.state # "absent" /\ (r.state = "cancelled" \/ run.state = "cancelled")
  <2>1. answer = "cancelled"
    BY <1>3 DEF Supervision
  <2>2. r.state = "cancelled"
    BY <1>3, CancelledRun
  <2>. HIDE DEF answer
  <2>3. Durable(r, a, at, answer)
    BY <2>1, <2>2 DEF Durable
  <2>. QED BY <2>3 DEF answer
<1>4. CASE r.state # "cancelled" /\ run.state = "failed"
  <2>1. answer \in {"lease_lost", "failed"}
    BY <1>4 DEF Supervision
  <2>. HIDE DEF answer
  <2>2. Durable(r, a, at, answer)
    BY <2>1, <1>4 DEF Durable
  <2>. QED BY <2>2 DEF answer
<1>5. CASE r.state # "cancelled" /\ run.state = "completed"
  <2>1. answer = "completed"
    BY <1>5 DEF Supervision
  <2>. HIDE DEF answer
  <2>2. Durable(r, a, at, answer)
    BY <2>1, <1>5 DEF Durable
  <2>. QED BY <2>2 DEF answer
<1>6. CASE r.state # "cancelled" /\ run.state = "sleeping"
  <2>1. answer = "suspended"
    BY <1>6 DEF Supervision
  <2>. HIDE DEF answer
  <2>2. Durable(r, a, at, answer)
    BY <2>1, <1>6 DEF Durable
  <2>. QED BY <2>2 DEF answer
<1>7. CASE r.state # "cancelled" /\ run.state = "pending"
  BY <1>7 DEF Supervision, ExecutionOutcomes
<1>. QED BY <1>1, <1>2, <1>3, <1>4, <1>5, <1>6, <1>7

\* A round of supervision that ends the attempt.
LEMMA SuperviseDurable ==
    ASSUME ShapeInv, WorkerTypeOK, NEW s \in Slots, exec[s] \in Execution, NEW pc,
           NEW renew \in BOOLEAN, Supervise(s, renew, pc),
           Supervision(tasks[exec[s].task], exec[s].attempt, now) \in ExecutionOutcomes
    PROVE  Durable(tasks'[exec[s].task], exec[s].attempt, now,
                   Supervision(tasks[exec[s].task], exec[s].attempt, now))
<1>. DEFINE t == exec[s].task
            a == exec[s].attempt
            r == tasks[t]
            c == tasks'[t]
            answer == Supervision(r, a, now)
<1>1. /\ t \in Tasks /\ a \in Attempts /\ r \in Row /\ RowShape(r) /\ now \in Nat /\ TypeOK
  BY BoundsAssumption DEF ShapeInv, TypeOK, Execution
<1>2. IF Owned(r, a) THEN SuperviseRun(t, a, renew) ELSE UNCHANGED vars
  BY DEF Supervise, Owned
<1>3. CASE ~Owned(r, a)
  <2>1. tasks' = tasks /\ r.runs[a].state # "running"
    BY <1>1, <1>2, <1>3, RunningOwned DEF vars
  <2>2. Durable(r, a, now, answer)
    BY <2>1, <1>1, SupervisionDurable
  <2>. QED BY <2>1, <2>2
<1>4. CASE Owned(r, a)
  <2>1. c = Supervised(r, a, renew, now)
    BY <1>1, <1>2, <1>4 DEF SuperviseRun, Update, TypeOK
  <2>2. answer = IF CancellationDue(r, now) THEN "cancelled"
                 ELSE IF ~LeaseExpired(r, now) THEN "running"
                 ELSE IF Reaped(r, now).state = "cancelled" THEN "cancelled"
                 ELSE "lease_lost"
    BY <1>4 DEF Supervision, Owned
  <2>3. CASE CancellationDue(r, now)
    <3>1. c = Cancelled(r, now) /\ answer = "cancelled"
      BY <2>1, <2>2, <2>3 DEF Supervised
    <3>2. c.state = "cancelled"
      BY <3>1, <1>1, <1>4, CancelledFields DEF Owned, Active
    <3>. HIDE DEF answer, c
    <3>3. Durable(c, a, now, answer)
      BY <3>1, <3>2 DEF Durable
    <3>. QED BY <3>3 DEF answer, c
  <2>4. CASE ~CancellationDue(r, now)
    <3>1. LeaseExpired(r, now)
      BY <2>2, <2>4 DEF ExecutionOutcomes
    <3>2. c = Reaped(r, now) /\ answer = IF c.state = "cancelled" THEN "cancelled" ELSE "lease_lost"
      BY <3>1, <2>1, <2>2, <2>4 DEF Supervised
    <3>3. FailStep(r, c, a, now)
      BY <3>1, <3>2, <2>4, <1>1, <1>4, ReapedStep DEF Owned
    <3>4. c.runs[a].state = "failed"
      BY <3>3, <1>1, FailSilent
    <3>. HIDE DEF answer, c
    <3>5. Durable(c, a, now, answer)
      BY <3>2, <3>4 DEF Durable
    <3>. QED BY <3>5 DEF answer, c
  <2>. QED BY <2>3, <2>4
<1>. QED BY <1>3, <1>4

\* complete_run() that was let through.
LEMMA CompletionDurable ==
    ASSUME ShapeInv, NEW t \in Tasks, NEW a \in Attempts, CompleteRun(t, a)
    PROVE  Durable(tasks'[t], a, now,
                   IF tasks'[t].state = "completed" THEN "completed" ELSE "cancelled")
<1>. DEFINE r == tasks[t]
            c == tasks'[t]
<1>1. r \in Row /\ RowShape(r) /\ now \in Nat /\ TypeOK /\ c = Completed(r, a, now)
  BY BoundsAssumption DEF ShapeInv, TypeOK, CompleteRun, Update
<1>2. Owned(r, a)
  BY <1>1, FencedUnexpired DEF CompleteRun
<1>3. CASE CancellationDue(r, now)
  <2>1. c.state = "cancelled"
    BY <1>1, <1>2, <1>3, CancelledFields DEF Completed, Owned, Active
  <2>. HIDE DEF c
  <2>2. Durable(c, a, now, IF c.state = "completed" THEN "completed" ELSE "cancelled")
    BY <2>1 DEF Durable
  <2>. QED BY <2>2 DEF c
<1>4. CASE ~CancellationDue(r, now)
  <2>1. c.state = "completed" /\ c.runs[a].state = "completed"
    BY <1>1, <1>2, <1>4, CompletedFields
  <2>. HIDE DEF c
  <2>2. Durable(c, a, now, IF c.state = "completed" THEN "completed" ELSE "cancelled")
    BY <2>1 DEF Durable
  <2>. QED BY <2>2 DEF c
<1>. QED BY <1>3, <1>4

\* An attempt that goes on does not free its slot.
LEMMA GotoBusy ==
    ASSUME WorkerTypeOK, NEW s \in Slots, exec[s] \in Execution, NEW pc, Goto(s, pc)
    PROVE  exec'[s] # Idle
<1>. DEFINE x == [exec[s] EXCEPT !.pc = pc]
<1>1. exec' = [exec EXCEPT ![s] = x] /\ exec \in [Slots -> Execution \cup {Idle}]
  BY DEF Goto, WorkerTypeOK
<1>2. "task" \in DOMAIN x
  BY DEF Execution
<1>3. "task" \notin DOMAIN Idle
  BY DEF Idle
<1>. HIDE DEF x
<1>. QED BY <1>1, <1>2, <1>3

\* The outcome that ends an attempt is in the rows when it is counted.
LEMMA AttemptDurable ==
    ASSUME WorkerBase, ConfirmedKept, NEW s \in Slots, AttemptStep(s), exec'[s] = Idle,
           Outcome(s) \in ExecutionOutcomes
    PROVE  Durable(tasks'[exec[s].task], exec[s].attempt, now, Outcome(s))
<1>. DEFINE t == exec[s].task
            a == exec[s].attempt
            r == tasks[t]
            answer == Supervision(r, a, now)
            error == LockRunningAttempt(r, a, FALSE, now)
            Goal == Durable(tasks'[t], a, now, Outcome(s))
<1>1. ShapeInv /\ WorkerTypeOK
  BY DEF WorkerBase, BareInv
<1>2. Moves(s) /\ exec[s] \in Execution
  BY <1>1, AttemptMoves DEF Moves
<1>3. /\ t \in Tasks /\ a \in Attempts /\ r \in Row /\ RowShape(r) /\ now \in Nat
  BY <1>1, <1>2, BoundsAssumption DEF ShapeInv, TypeOK, Execution
<1>4. \A pc : ~Goto(s, pc)
  BY <1>1, <1>2, GotoBusy
<1>5. /\ error = "ST001" => Durable(r, a, now, "cancelled")
      /\ error = "ST002" => Durable(r, a, now, "failed")
      /\ error = "ST003" => Durable(r, a, now, "lease_lost")
  BY <1>3, RefusalDurable
<1>6. ASSUME NEW renew \in BOOLEAN, NEW pc, Supervise(s, renew, pc),
             exec[s].pc \in {"claimed", "handler", "unwinding", "observing"}
      PROVE  Goal
  <2>1. Outcome(s) = SupervisedOutcome(answer)
    BY <1>6 DEF Outcome
  <2>2. Outcome(s) = answer /\ answer \in ExecutionOutcomes
    BY <2>1 DEF SupervisedOutcome, ExecutionOutcomes
  <2>3. Durable(tasks'[t], a, now, answer)
    BY <2>2, <1>1, <1>2, <1>6, SuperviseDurable
  <2>. QED BY <2>2, <2>3
<1>7. CASE LoadContext(s)
  <2>1. tasks' = tasks /\ exec[s].pc = "loading"
    BY <1>7 DEF LoadContext, vars
  <2>2. Outcome(s) = IF error = "ST003" THEN "lease_lost" ELSE "unhandled"
    BY <2>1 DEF Outcome
  <2>3. error = "ST003" /\ Outcome(s) = "lease_lost"
    BY <2>2 DEF ExecutionOutcomes
  <2>. QED BY <2>1, <2>3, <1>5
<1>8. CASE CallCompleteRun(s)
  <2>1. Outcome(s) = CompletionOutcome(s, error) /\ exec[s].pc = "completing"
    BY <1>8 DEF CallCompleteRun, Outcome
  <2>2. CASE error = "ok"
    <3>1. CompleteRun(t, a)
      BY <2>2, <1>8 DEF CallCompleteRun
    <3>2. Outcome(s) = IF tasks'[t].state = "completed" THEN "completed" ELSE "cancelled"
      BY <2>1, <2>2 DEF CompletionOutcome
    <3>. QED BY <3>1, <3>2, <1>1, <1>3, CompletionDurable
  <2>3. CASE error # "ok"
    <3>1. tasks' = tasks
      BY <2>3, <1>8 DEF CallCompleteRun, vars
    <3>2. \/ error = "ST001" /\ Outcome(s) = "cancelled"
          \/ error = "ST003" /\ Outcome(s) = "lease_lost"
      <4>. HIDE DEF error
      <4>. QED BY <2>1, <2>3 DEF CompletionOutcome, ExecutionOutcomes
    <3>. QED BY <3>1, <3>2, <1>5
  <2>. QED BY <2>2, <2>3
<1>9. CASE CallFailRun(s)
  <2>1. Outcome(s) = FailureOutcome(error) /\ exec[s].pc = "failing"
    BY <1>9 DEF CallFailRun, Outcome
  <2>2. tasks' = tasks
    BY <1>4, <1>9 DEF CallFailRun, vars
  <2>3. \/ error = "ST001" /\ Outcome(s) = "cancelled"
        \/ error = "ST002" /\ Outcome(s) = "failed"
        \/ error = "ST003" /\ Outcome(s) = "lease_lost"
    <3>. HIDE DEF error
    <3>. QED BY <2>1 DEF FailureOutcome, ExecutionOutcomes
  <2>. QED BY <2>2, <2>3, <1>5
<1>10. CASE Confirm(s)
  <2>1. tasks' = tasks /\ exec[s].pc = "confirming"
    BY <1>10 DEF Confirm, vars
  <2>2. Outcome(s) = ConfirmedOutcome(answer)
    BY <2>1 DEF Outcome
  <2>3. answer \notin SuperviseErrors /\ Outcome(s) = IF answer = "cancelled" THEN "cancelled" ELSE "failed"
    <3>. HIDE DEF answer
    <3>. QED BY <2>2 DEF ConfirmedOutcome, ExecutionOutcomes, SuperviseErrors
  <2>4. Concluded(r, a)
    BY <2>1 DEF ConfirmedKept
  <2>5. r.state # "deleted"
    <3>1. r.state = "deleted" => r.runs[a].state = "absent"
      BY <1>3 DEF RowShape, Live, NoRun
    <3>2. r.runs[a].state = "absent" => answer = "not_found"
      BY DEF Supervision
    <3>. QED BY <3>1, <3>2, <2>3 DEF SuperviseErrors
  <2>6. r.runs[a].state \in {"failed", "cancelled"}
    BY <2>4, <2>5 DEF Concluded
  <2>7. CASE r.state = "cancelled" \/ r.runs[a].state = "cancelled"
    <3>1. answer = "cancelled" /\ r.state = "cancelled"
      BY <2>6, <2>7, <1>3, CancelledRun DEF Supervision
    <3>. QED BY <3>1, <2>1, <2>3 DEF Durable
  <2>8. CASE r.state # "cancelled" /\ r.runs[a].state = "failed"
    <3>1. answer # "cancelled"
      BY <2>8 DEF Supervision
    <3>. QED BY <3>1, <2>1, <2>3, <2>8 DEF Durable
  <2>. QED BY <2>6, <2>7, <2>8
<1>11. CASE FirstSupervision(s)
  BY <1>6, <1>11 DEF FirstSupervision
<1>12. CASE SuperviseExecution(s)
  BY <1>6, <1>12 DEF SuperviseExecution, InHandler
<1>13. CASE Observe(s)
  BY <1>6, <1>13 DEF Observe
<1>14. ASSUME NEW step \in Steps, NEW value \in Values, HandlerCheckpoint(s, step, value)
       PROVE  FALSE
  <2>1. exec' = exec
    BY <1>14 DEF HandlerCheckpoint, workerVars
  <2>2. exec[s].pc \in Stages /\ exec[s].pc = "idle"
    BY <2>1, <1>2 DEF Execution, Idle
  <2>. QED BY <2>2, StageBusy
<1>15. ASSUME NEW wake \in 0 .. MaxWake, HandlerSleep(s, wake)
       PROVE  FALSE
  BY <1>4, <1>15 DEF HandlerSleep
<1>16. ASSUME NEW pc, HandlerReturns(s, pc)
       PROVE  FALSE
  BY <1>4, <1>16 DEF HandlerReturns
<1>17. \/ LoadContext(s) \/ CallCompleteRun(s) \/ CallFailRun(s) \/ Confirm(s)
       \/ FirstSupervision(s) \/ SuperviseExecution(s) \/ Observe(s)
  BY <1>14, <1>15, <1>16 DEF AttemptStep
<1>. QED BY <1>7, <1>8, <1>9, <1>10, <1>11, <1>12, <1>13, <1>17

\* Every step that counts an outcome counts what the rows say.
LEMMA DurableStep ==
    ASSUME MetricsInv, ConfirmedKept, [MetricsNext]_metricsVars,
           NEW s \in Slots, NEW o \in ExecutionOutcomes,
           exec[s] # Idle, exec'[s] = Idle, metrics'[s[1]][o] > metrics[s[1]][o]
    PROVE  Durable(tasks'[exec[s].task], exec[s].attempt, now, o)
<1>. DEFINE w == s[1]
<1>1. WorkerBase /\ CountersOK /\ ShapeInv /\ WorkerTypeOK
  BY DEF MetricsInv, WorkerBase, BareInv
<1>2. TypeOK'
  BY MetricsStep, WorkerBaseStep DEF MetricsInv, WorkerBase, WorkerTypeOK
<1>3. /\ w \in Workers /\ o \in Counters /\ o \in Outcomes /\ o # "executions" /\ o # "unhandled"
      /\ o # "claimed_runs" /\ o # "claim_errors"
  BY DEF Slots, Counters, Outcomes, ExecutionOutcomes
<1>4. metrics[w][o] \in 0 .. MaxCount /\ metrics[w][o] \in Nat
  BY <1>1, <1>3, MaxCountAssumption DEF CountersOK
<1>5. metrics'[w] # metrics[w] /\ metrics'[w][o] # metrics[w][o] /\ metrics'[w][o] # 0
  BY <1>4
<1>. HIDE DEF w
<1>6. exec' # exec /\ metrics' # metrics
  BY <1>5
<1>7. ASSUME NEW v \in Workers, Poll(v)
      PROVE  FALSE
  <2>1. exec'[s] = exec[s] \/ \E t \in Tasks : Newly(s, t)
    BY <1>1, <1>2, <1>7, PollFacts
  <2>. QED BY <2>1 DEF Newly
<1>8. ASSUME NEW v \in Workers, Crash(v), metrics' = [metrics EXCEPT ![v] = NewMetrics]
      PROVE  FALSE
  <2>1. metrics'[w] = metrics[w] \/ metrics'[w] = NewMetrics
    BY <1>1, <1>3, <1>8 DEF CountersOK
  <2>. QED BY <2>1, <1>3, <1>5 DEF NewMetrics
<1>9. ASSUME NEW u \in Slots, ConnectionLost(u), Record(u[1], "unhandled")
      PROVE  FALSE
  <2>1. u[1] \in Workers /\ "unhandled" \in Outcomes
    BY DEF Slots, Outcomes
  <2>2. /\ \A v \in Workers : v # u[1] => metrics'[v] = metrics[v]
        /\ \A c \in Counters : c \notin {"executions", "unhandled"} => metrics'[u[1]][c] = metrics[u[1]][c]
    BY <2>1, <1>1, <1>9, RecordFacts
  <2>. QED BY <2>2, <1>3, <1>5
<1>10. ASSUME NEW u \in Slots, AttemptStep(u),
              IF exec'[u] = Idle THEN Record(u[1], Outcome(u)) ELSE UNCHANGED metrics
       PROVE  Durable(tasks'[exec[s].task], exec[s].attempt, now, o)
  <2>1. u = s
    BY <1>1, <1>10, AttemptMoves DEF Moves, OnlySlot
  <2>2. AttemptStep(s) /\ Record(w, Outcome(s)) /\ Outcome(s) \in Outcomes
    BY <2>1, <1>10, OutcomeKnown DEF w
  <2>3. \A c \in Counters : c \notin {"executions", Outcome(s)} => metrics'[w][c] = metrics[w][c]
    BY <2>2, <1>1, <1>3, RecordFacts
  <2>4. o = Outcome(s)
    BY <2>3, <1>3, <1>5
  <2>. QED BY <2>2, <2>4, <1>1, AttemptDurable
<1>11. \/ \E u \in Slots :
            \/ AttemptStep(u) /\ IF exec'[u] = Idle THEN Record(u[1], Outcome(u)) ELSE UNCHANGED metrics
            \/ ConnectionLost(u) /\ Record(u[1], "unhandled")
       \/ \E v \in Workers : Crash(v) /\ metrics' = [metrics EXCEPT ![v] = NewMetrics]
       \/ \E v \in Workers : Poll(v)
  <2>1. ~UNCHANGED metricsVars /\ ~UNCHANGED metrics
    BY <1>6 DEF metricsVars
  <2>2. \A v \in Workers : ~PollLost(v)
    BY <1>6 DEF PollLost
  <2>. QED BY <2>1, <2>2 DEF MetricsNext
<1>. QED BY <1>7, <1>8, <1>9, <1>10, <1>11

\* No counter of src/metrics.rs names an end the database does not know, however
\* the calls of workers, clients, maintenance and the clock interleave: when an
\* execution is counted, its run or its task is in the state the counter names.
THEOREM OutcomesAreDurableHolds == MetricsSpec => OutcomesAreDurable
<1>. DEFINE Counting ==
       \A s \in Slots : \A o \in ExecutionOutcomes :
         exec[s] # Idle /\ exec'[s] = Idle /\ metrics'[s[1]][o] > metrics[s[1]][o]
         => LET run == tasks'[exec[s].task].runs[exec[s].attempt]
            IN  CASE o = "lease_lost" -> run.state = "failed" \/ LeaseExpired(tasks'[exec[s].task], now)
                  [] o = "suspended" -> run.state = "sleeping"
                  [] o = "cancelled" -> tasks'[exec[s].task].state = "cancelled"
                  [] OTHER -> run.state = o
            Inv == MetricsInv /\ ConfirmedKept
<1>1. MetricsInit => Inv
  <2>1. MetricsInit => ConfirmedKept
    BY DEF MetricsInit, WorkerInit, ConfirmedKept, Idle
  <2>. QED BY <2>1, MetricsInvInit
<1>2. Inv /\ [MetricsNext]_metricsVars => Inv'
  <2>1. Inv /\ [MetricsNext]_metricsVars => ConfirmedKept'
    BY MetricsStep, ConfirmedStep DEF MetricsInv
  <2>. QED BY <2>1, MetricsInvStep
<1>3. Inv /\ [MetricsNext]_metricsVars => Counting
  BY DurableStep DEF Durable
<1>. HIDE DEF Inv
<1>4. Inv /\ [MetricsNext]_metricsVars => [Counting]_metricsVars
  BY <1>3
<1>. QED
  BY <1>1, <1>2, <1>4, PTL DEF MetricsSpec, OutcomesAreDurable

\* Counting only observes: the workers of StedaMetrics are workers of
\* StedaWorker, so that every theorem of WorkerSpec holds of MetricsSpec.
THEOREM CountingObserves == MetricsSpec => WorkerSpec
<1>1. MetricsInit => WorkerInit
  BY DEF MetricsInit
<1>2. [MetricsNext]_metricsVars => [WorkerNext]_allVars
  BY MetricsStep
<1>. QED BY <1>1, <1>2, PTL DEF MetricsSpec, WorkerSpec
=============================================================================
