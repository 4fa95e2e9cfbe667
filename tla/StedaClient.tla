----------------------------- MODULE StedaClient ----------------------------
(***************************************************************************)
(* Typed handles (src/task.rs, src/queue.rs): clients that submit tasks,   *)
(* alone or in a transaction of their own, observe them, and cancel or     *)
(* retry them, while workers execute them and retention deletes them.      *)
(*                                                                         *)
(* A handle is a TaskRef: a task id and the task name its types stand for. *)
(* Control is two statements, the check of the reference and the call,     *)
(* with anything between them.  A call in a caller-owned transaction holds *)
(* its row lock until the commit, so it takes effect there, at the clock   *)
(* reading it made before (ReadBefore).                                    *)
(***************************************************************************)
EXTENDS StedaQueue

CONSTANT Clients

VARIABLES
    ref,      \* [Clients -> TaskRef or NoRef]
    op,       \* [Clients -> the operation in progress]
    reply,    \* [Clients -> the last answer]
    told,     \* [Tasks -> SUBSET Terminal]: outcomes clients were told, "failed"
              \* only since the last retry() that returned Ok
    stopped   \* [Tasks -> BOOLEAN]: a cancel() returned Ok and no retry() did since

clientOnly == <<ref, op, reply, told, stopped>>
clientVars == <<tasks, now, ref, op, reply, told, stopped>>

NoRef == [held |-> FALSE]
TaskRef == [held : {TRUE}, task : Tasks, name : Names]

Resting == [pc |-> "resting"]
Submitting == [pc : {"submitting"}, task : Tasks, req : Requests, at : 0 .. MaxTime]
Operation == { [pc |-> p] : p \in {"cancel", "retry", "result"} }

Answers ==
    Active \cup Terminal
        \cup {"none", "ok", "TaskNotFound", "TaskNameMismatch", "Timeout", "Database"}

ClientInit ==
    /\ Init
    /\ ref = [c \in Clients |-> NoRef]
    /\ op = [c \in Clients |-> Resting]
    /\ reply = [c \in Clients |-> "none"]
    /\ told = [t \in Tasks |-> {}]
    /\ stopped = [t \in Tasks |-> FALSE]

\* The operation ends.
Answer(c, answer) ==
    /\ op' = [op EXCEPT ![c] = Resting]
    /\ reply' = [reply EXCEPT ![c] = answer]

Begin(c, p) ==
    /\ ref[c].held
    /\ op[c] = Resting
    /\ op' = [op EXCEPT ![c] = [pc |-> p]]

-----------------------------------------------------------------------------
(* Submission and references.                                              *)

\* Spawn::into_future(): one statement on the queue's pool.
Spawn(c, t, req) ==
    /\ op[c] = Resting
    /\ \A d \in Clients : op[d].pc = "submitting" => op[d].task # t
    /\ SpawnTask(t, req)
    /\ ref' = [ref EXCEPT ![c] = [held |-> TRUE, task |-> t, name |-> req.name]]
    /\ UNCHANGED <<op, reply, told, stopped>>

\* Spawn::submit(): the row exists for nobody else, but the handle does.
Submit(c, t, req) ==
    /\ op[c] = Resting
    /\ tasks[t].state = "absent"
    /\ \A d \in Clients : op[d].pc = "submitting" => op[d].task # t
    /\ op' = [op EXCEPT ![c] = [pc |-> "submitting", task |-> t, req |-> req, at |-> now]]
    /\ ref' = [ref EXCEPT ![c] = [held |-> TRUE, task |-> t, name |-> req.name]]
    /\ UNCHANGED <<vars, reply, told, stopped>>

Commit(c) ==
    /\ op[c].pc = "submitting"
    /\ Update(op[c].task, Spawned(op[c].req, op[c].at))
    /\ op' = [op EXCEPT ![c] = Resting]
    /\ UNCHANGED <<now, ref, reply, told, stopped>>

\* The caller rolls its transaction back: nothing of the submission remains.
Rollback(c) ==
    /\ op[c].pc = "submitting"
    /\ op' = [op EXCEPT ![c] = Resting]
    /\ UNCHANGED <<vars, ref, reply, told, stopped>>

\* Queue::task(), or Steda::task() with a TaskRef another process serialized:
\* nothing compares the name with the row before the handle is used.
Attach(c, t, name) ==
    /\ op[c] = Resting
    /\ ref' = [ref EXCEPT ![c] = [held |-> TRUE, task |-> t, name |-> name]]
    /\ UNCHANGED <<vars, op, reply, told, stopped>>

-----------------------------------------------------------------------------
(* fetch_task_result_snapshot(): what the row says to a typed reference.   *)

\* Mutant: the persisted name is not compared.
SnapshotOfAny(r, name) == IF Live(r) THEN r.state ELSE "none"

Snapshot(r, name) ==
    IF ~Live(r) THEN "none"
    ELSE IF r.req.name # name THEN "TaskNameMismatch"
    ELSE r.state

SeenBy(c) == Snapshot(tasks[ref[c].task], ref[c].name)

Tell(c, answer) ==
    told' = [told EXCEPT ![ref[c].task] = @ \cup ({answer} \cap Terminal)]

\* ensure_task_ref(): None is TaskNotFound.
Ensured(c) == SeenBy(c) \in Active \cup Terminal

RefError(c) == IF SeenBy(c) = "none" THEN "TaskNotFound" ELSE SeenBy(c)

\* TaskHandle::snapshot()
TakeSnapshot(c) ==
    /\ ref[c].held /\ op[c] = Resting
    /\ Answer(c, SeenBy(c))
    /\ Tell(c, SeenBy(c))
    /\ UNCHANGED <<vars, ref, stopped>>

\* TaskHandle::result() and result_with_timeout(): one poll of the loop.  A row
\* that is not terminal is polled again, or the timeout has passed.
AwaitResult(c) ==
    /\ Begin(c, "result")
    /\ UNCHANGED <<vars, ref, reply, told, stopped>>

ResultTold(c) ==
    /\ op[c].pc = "result"
    /\ SeenBy(c) \notin Active
    /\ Answer(c, RefError(c))
    /\ Tell(c, SeenBy(c))
    /\ UNCHANGED <<vars, ref, stopped>>

ResultTimesOut(c) ==
    /\ op[c].pc = "result"
    /\ SeenBy(c) \in Active
    /\ Answer(c, "Timeout")
    /\ UNCHANGED <<vars, ref, told, stopped>>

-----------------------------------------------------------------------------
(* TaskHandle::cancel(), cancel_in(), retry() and retry_in().              *)

\* The first statement: the reference still names a retained task.
EnsureTaskRef(c, p) ==
    /\ ref[c].held /\ op[c] = Resting
    /\ \/ Ensured(c) /\ Begin(c, p) /\ UNCHANGED reply
       \/ ~Ensured(c) /\ Answer(c, RefError(c))
    /\ UNCHANGED <<vars, ref, told, stopped>>

\* The second one.  Its errors have no SQLSTATE of steda's: Error::Database.
Cancel(c, at) ==
    LET t == ref[c].task
    IN  /\ op[c].pc = "cancel"
        /\ \/ /\ CancelTask(t, at)
              /\ Answer(c, "ok")
              /\ stopped' = [stopped EXCEPT ![t] = TRUE]
           \/ /\ ~Live(tasks[t])
              /\ Answer(c, "Database")
              /\ UNCHANGED <<vars, stopped>>
        /\ UNCHANGED <<ref, told>>

Retry(c, at) ==
    LET t == ref[c].task
        accepted == tasks[t].state = "failed" /\ ~CancellationDue(tasks[t], at)
    IN  /\ op[c].pc = "retry"
        /\ \/ /\ RetryTask(t, at)
              /\ Answer(c, "ok")
              /\ told' = [told EXCEPT ![t] = @ \ {"failed"}]
              /\ stopped' = [stopped EXCEPT ![t] = FALSE]
           \/ /\ ~accepted
              /\ Answer(c, "Database")
              /\ UNCHANGED <<vars, told, stopped>>
        /\ UNCHANGED ref

\* The caller's transaction of cancel_in() or retry_in() is rolled back, or the
\* connection is lost before the statement arrives.
GiveUp(c) ==
    /\ op[c].pc \in {"cancel", "retry", "result"}
    /\ op' = [op EXCEPT ![c] = Resting]
    /\ UNCHANGED <<vars, ref, reply, told, stopped>>

Call(c) ==
    \/ \E t \in Tasks, req \in Requests : Spawn(c, t, req) \/ Submit(c, t, req)
    \/ Commit(c) \/ Rollback(c)
    \/ \E t \in Tasks, name \in Names : Attach(c, t, name)
    \/ TakeSnapshot(c)
    \/ AwaitResult(c) \/ ResultTold(c) \/ ResultTimesOut(c)
    \/ \E p \in {"cancel", "retry"} : EnsureTaskRef(c, p)
    \/ ref[c].held /\ \E at \in ReadBefore(ref[c].task) : Cancel(c, at) \/ Retry(c, at)
    \/ GiveUp(c)

-----------------------------------------------------------------------------
\* Workers of any age, maintenance and time.
Execution ==
    /\ \/ \E w \in Workers : ClaimTasks(w, Names, 1)
       \/ \E t \in Tasks, a \in Attempts :
            CompleteRun(t, a) \/ FailRun(t, a) \/ SuperviseRun(t, a, TRUE)
              \/ \E wake \in 1 .. MaxWake : ScheduleRun(t, a, wake)
       \/ CleanupTasks
       \/ Tick
    /\ UNCHANGED clientOnly

ClientNext == Execution \/ \E c \in Clients : Call(c)

ClientSpec == ClientInit /\ [][ClientNext]_clientVars

-----------------------------------------------------------------------------
(* Properties.                                                             *)

\* References, operations and answers have their shapes.
ClientTypeOK ==
    /\ TypeOK
    /\ ref \in [Clients -> TaskRef \cup {NoRef}]
    /\ op \in [Clients -> {Resting} \cup Submitting \cup Operation]
    /\ reply \in [Clients -> Answers]
    /\ told \in [Tasks -> SUBSET Terminal]
    /\ stopped \in [Tasks -> BOOLEAN]

\* An outcome a client was told is the task's outcome until retention deletes it,
\* whichever handle, poll or snapshot asked: "completed" and "cancelled" for good,
\* and "failed" until a client's retry() is accepted.  No late attempt, deadline,
\* reap or second cancel turns an outcome that was handed out into another one.
OutcomesAgree ==
    /\ ClientTypeOK
    /\ \A t \in Tasks : \A o \in told[t] : tasks[t].state \in {o, "deleted"}

\* Once cancel() returned Ok no attempt of the task can start, run or wait any
\* more, whatever its worker goes on to do, until a client retries it.
CancelIsDurable ==
    \A t \in Tasks : stopped[t] => tasks[t].state \in Terminal \cup {"deleted"}

\* Through a handle of one task definition nobody cancels or retries a task of
\* another one, although the check and the call are two transactions.
OnlyOwnTasksControlled ==
    [][\A c \in Clients :
        (op[c].pc \in {"cancel", "retry"} /\ op'[c] = Resting /\ reply'[c] = "ok"
             /\ tasks' # tasks)
            => tasks[ref[c].task].req.name = ref[c].name
      ]_clientVars
=============================================================================
