----------------------------- MODULE StedaWorker ----------------------------
(***************************************************************************)
(* Worker processes over the queue: run_worker_loop() (src/worker.rs) and  *)
(* execute_task() (src/executor.rs).  Every await of a database call is a  *)
(* step of its own, so calls of different workers, and of one attempt's    *)
(* handler and supervisor, interleave freely with each other, with clients *)
(* and with the clock.                                                     *)
(***************************************************************************)
EXTENDS StedaQueue

CONSTANTS
    Concurrency,      \* execution slots of one worker
    ErrorsPropagate   \* handlers pass the errors of TaskContext on unchanged

\* A claim asks for at most as many runs as there are slots.
ASSUME ConcurrencyAssumption == Concurrency \in 1 .. BatchLimit

ASSUME HandlerAssumption == ErrorsPropagate \in BOOLEAN

VARIABLES
    exec,    \* [Slots -> execution]: the JoinSet of each worker
    mode,    \* [Workers -> {"polling", "draining", "stopped"}]
    fatal,   \* [Workers -> BOOLEAN]: terminal_error of the loop is set
    faulty   \* [Workers -> BOOLEAN]: a crash or a lost connection hit the worker

workerVars == <<exec, mode, fatal, faulty>>
allVars == <<tasks, now, exec, mode, fatal, faulty>>

Slots == Workers \X (1 .. Concurrency)
SlotsOf(w) == { s \in Slots : s[1] = w }

Idle == [pc |-> "idle"]

\* Where an attempt stands in execute_task():
\*   claimed     before the first supervise_run()
\*   loading     before TaskContext::new() read the checkpoints
\*   handler     the handler runs beside supervise_execution()
\*   unwinding   the handler runs on after a call of TaskContext was refused,
\*               or suspended or cancelled its run
\*   completing  the handler returned a value: before complete_run()
\*   observing   it returned a control error: before persisted_execution_outcome()
\*   failing     before fail_run()
\*   confirming  fail_run() succeeded: before persisted_execution_outcome()
Stages ==
    {"claimed", "loading", "handler", "unwinding",
     "completing", "observing", "failing", "confirming"}

InHandler == {"handler", "unwinding"}

Execution == [pc : Stages, task : Tasks, attempt : Attempts]

FreeSlots(w) == { s \in SlotsOf(w) : exec[s] = Idle }

\* Mutant: ST002 is not mapped.
ControlErrorsWithoutFailed == {"ST001", "ST003"}

\* SQLSTATEs map_sqlx_error() turns into Cancelled, FailedRun and LeaseLost,
\* which the loop treats as the end of the attempt; any other error that is
\* not transient ends the worker.
ControlErrors == {"ST001", "ST002", "ST003"}

WorkerInit ==
    /\ Init
    /\ exec = [s \in Slots |-> Idle]
    /\ mode = [w \in Workers |-> "polling"]
    /\ fatal = [w \in Workers |-> FALSE]
    /\ faulty = [w \in Workers |-> FALSE]

-----------------------------------------------------------------------------
(* How a slot goes on after a database call.                               *)

Goto(s, pc) ==
    /\ exec' = [exec EXCEPT ![s].pc = pc]
    /\ UNCHANGED <<mode, fatal, faulty>>

\* The attempt is over, with Ok or with an error the loop ignores.
Finish(s) ==
    /\ exec' = [exec EXCEPT ![s] = Idle]
    /\ UNCHANGED <<mode, fatal, faulty>>

\* The attempt ends with an error terminal_join_error() hands to the loop,
\* which stops claiming and drains.  A claim in flight at that moment counts
\* as made before it.
Die(s) ==
    /\ exec' = [exec EXCEPT ![s] = Idle]
    /\ fatal' = [fatal EXCEPT ![s[1]] = TRUE]
    /\ mode' = [mode EXCEPT ![s[1]] = "draining"]
    /\ UNCHANGED faulty

\* An attempt-scoped call that lock_running_attempt() refused.
Refused(s, error) == IF error \in ControlErrors THEN Finish(s) ELSE Die(s)

\* supervise_run(): its answer decides, the rows may change with it.
SuperviseErrors == {"not_found", "unsupported", "not_authoritative"}

Supervise(s, renew, whileRunning) ==
    LET t == exec[s].task
        a == exec[s].attempt
        answer == Supervision(tasks[t], a, now)
    IN  /\ IF tasks[t].state = "running" /\ tasks[t].last = a /\ tasks[t].runs[a].state = "running"
           THEN SuperviseRun(t, a, renew)
           ELSE UNCHANGED vars
        /\ IF answer \in SuperviseErrors THEN Die(s)
           ELSE IF answer = "running" THEN Goto(s, whileRunning)
           ELSE Finish(s)

-----------------------------------------------------------------------------
(* The polling loop.                                                       *)

\* The runs a claim that takes the rows from tasks to tasks' returns.
Granted ==
    { t \in Tasks : /\ Current(tasks'[t]).state = "running"
                    /\ Current(tasks'[t]) # tasks[t].runs[tasks'[t].last] }

Placements(S, free) ==
    { f \in [S -> free] : \A t, u \in S : f[t] = f[u] => t = u }

\* A committed claim whose rows reach the worker.  The query and its answer are
\* one step: the loop looks at the shutdown future only before it sends a claim
\* and after the runs it returned were started, so a shutdown in between is one
\* right after.  An error that is not transient, which ends the loop, has no cause
\* here: it takes a queue that was dropped (StedaRegistry).
Poll(w) ==
    /\ mode[w] = "polling"
    /\ FreeSlots(w) # {}
    /\ ClaimTasks(w, Names, Cardinality(FreeSlots(w)))
    /\ \E place \in Placements(Granted, FreeSlots(w)) :
         exec' = [s \in Slots |->
                    IF \E t \in Granted : place[t] = s
                    THEN LET t == CHOOSE t \in Granted : place[t] = s
                         IN  [pc |-> "claimed", task |-> t, attempt |-> tasks'[t].last]
                    ELSE exec[s]]
    /\ UNCHANGED <<mode, fatal, faulty>>

\* The connection breaks after the claim committed: the loop sees a transient
\* error and polls again, and nobody executes the claimed runs.
PollLost(w) ==
    /\ mode[w] = "polling"
    /\ FreeSlots(w) # {}
    /\ ClaimTasks(w, Names, Cardinality(FreeSlots(w)))
    /\ faulty' = [faulty EXCEPT ![w] = TRUE]
    /\ UNCHANGED <<exec, mode, fatal>>

\* The shutdown future resolves; a claim already sent is awaited first.
Shutdown(w) ==
    /\ mode[w] = "polling"
    /\ mode' = [mode EXCEPT ![w] = "draining"]
    /\ UNCHANGED <<vars, exec, fatal, faulty>>

\* Mutant: the loop returns without draining.
StopAtOnce(w) ==
    /\ mode[w] = "draining"
    /\ mode' = [mode EXCEPT ![w] = "stopped"]
    /\ UNCHANGED <<vars, exec, fatal, faulty>>

\* The last in-flight attempt was joined.
Stop(w) ==
    /\ mode[w] = "draining"
    /\ FreeSlots(w) = SlotsOf(w)
    /\ mode' = [mode EXCEPT ![w] = "stopped"]
    /\ UNCHANGED <<vars, exec, fatal, faulty>>

\* The process disappears.
Crash(w) ==
    /\ mode[w] # "stopped"
    /\ mode' = [mode EXCEPT ![w] = "stopped"]
    /\ exec' = [s \in Slots |-> IF s[1] = w THEN Idle ELSE exec[s]]
    /\ faulty' = [faulty EXCEPT ![w] = TRUE]
    /\ UNCHANGED <<vars, fatal>>

-----------------------------------------------------------------------------
(* execute_task().                                                         *)

\* The authoritative observation before the handler is invoked.
FirstSupervision(s) ==
    /\ exec[s].pc = "claimed"
    /\ Supervise(s, TRUE, "loading")

\* TaskContext::new(): get_task_checkpoint_states() only reads.
LoadContext(s) ==
    /\ exec[s].pc = "loading"
    /\ LET error == LockRunningAttempt(tasks[exec[s].task], exec[s].attempt, FALSE, now)
       IN  IF error = "ok" THEN Goto(s, "handler") ELSE Refused(s, error)
    /\ UNCHANGED vars

\* TaskContext::persist_checkpoint() by the handler.
HandlerCheckpoint(s, step, value) ==
    /\ exec[s].pc \in InHandler
    /\ SetCheckpoint(exec[s].task, exec[s].attempt, step, value)
    /\ UNCHANGED workerVars

\* What a handler does with an error of TaskContext.
AfterError(error) ==
    IF ~ErrorsPropagate THEN "unwinding"
    ELSE IF error \in ControlErrors \cup {"suspended"} THEN "observing"
    ELSE "failing"

\* TaskContext::schedule_run() by the handler.
HandlerSleep(s, wake) ==
    LET t == exec[s].task
        a == exec[s].attempt
        error == LockRunningAttempt(tasks[t], a, FALSE, now)
    IN  /\ exec[s].pc \in InHandler
        /\ \/ /\ error = "ok"
              /\ ScheduleRun(t, a, wake)
              /\ Goto(s, CASE tasks'[t].state = "running" -> exec[s].pc
                           [] tasks'[t].state = "sleeping" -> AfterError("suspended")
                           [] tasks'[t].state = "cancelled" -> AfterError("ST001"))
           \/ /\ error # "ok"
              /\ Goto(s, AfterError(error))
              /\ UNCHANGED vars

\* The handler ends: with a value, with an error or a panic, or with one of
\* the public control errors, which need not stand for a transition.
HandlerReturns(s, pc) ==
    /\ exec[s].pc \in InHandler
    /\ Goto(s, pc)
    /\ UNCHANGED vars

\* One round of supervise_execution(); leaving it drops the handler.
SuperviseExecution(s) ==
    /\ exec[s].pc \in InHandler
    /\ Supervise(s, TRUE, exec[s].pc)

CallCompleteRun(s) ==
    LET error == LockRunningAttempt(tasks[exec[s].task], exec[s].attempt, FALSE, now)
    IN  /\ exec[s].pc = "completing"
        /\ \/ error = "ok" /\ CompleteRun(exec[s].task, exec[s].attempt) /\ Finish(s)
           \/ error # "ok" /\ Refused(s, error) /\ UNCHANGED vars

\* persisted_execution_outcome() after a control error: a run that is still
\* running is failed.
Observe(s) ==
    /\ exec[s].pc = "observing"
    /\ Supervise(s, FALSE, "failing")

CallFailRun(s) ==
    LET error == LockRunningAttempt(tasks[exec[s].task], exec[s].attempt, FALSE, now)
    IN  /\ exec[s].pc = "failing"
        /\ \/ error = "ok" /\ FailRun(exec[s].task, exec[s].attempt) /\ Goto(s, "confirming")
           \/ error # "ok" /\ Refused(s, error) /\ UNCHANGED vars

\* finish_failure_transition(): only the metric depends on the answer.
Confirm(s) ==
    LET answer == Supervision(tasks[exec[s].task], exec[s].attempt, now)
    IN  /\ exec[s].pc = "confirming"
        /\ IF answer \in SuperviseErrors THEN Die(s) ELSE Finish(s)
        /\ UNCHANGED vars

\* A database call of the attempt fails with a transient error: the attempt
\* ends and its run keeps its lease.
ConnectionLost(s) ==
    /\ exec[s].pc # "idle"
    /\ exec' = [exec EXCEPT ![s] = Idle]
    /\ faulty' = [faulty EXCEPT ![s[1]] = TRUE]
    /\ UNCHANGED <<vars, mode, fatal>>

\* Every step of an attempt but the loss of its connection.
AttemptStep(s) ==
    \/ FirstSupervision(s)
    \/ LoadContext(s)
    \/ \E step \in Steps, value \in Values : HandlerCheckpoint(s, step, value)
    \/ \E wake \in 0 .. MaxWake : HandlerSleep(s, wake)
    \/ HandlerReturns(s, "failing") \/ HandlerReturns(s, "completing") \/ HandlerReturns(s, "observing")
    \/ SuperviseExecution(s)
    \/ CallCompleteRun(s)
    \/ Observe(s)
    \/ CallFailRun(s)
    \/ Confirm(s)

ExecuteTask(s) == AttemptStep(s) \/ ConnectionLost(s)

-----------------------------------------------------------------------------
\* Clients, maintenance and time.
Environment ==
    /\ \/ \E t \in Tasks, req \in Requests : SpawnTask(t, req)
       \/ \E t \in Tasks : \E at \in ReadBefore(t) : CancelTask(t, at) \/ RetryTask(t, at)
       \/ CleanupTasks
       \/ Tick
    /\ UNCHANGED workerVars

WorkerNext ==
    \/ \E w \in Workers : Poll(w) \/ PollLost(w) \/ Shutdown(w) \/ Stop(w) \/ Crash(w)
    \/ \E s \in Slots : ExecuteTask(s)
    \/ Environment

WorkerSpec == WorkerInit /\ [][WorkerNext]_allVars

-----------------------------------------------------------------------------
(* Properties.                                                             *)

\* Slots hold an execution or nothing, and the worker flags are flags.
WorkerTypeOK ==
    /\ TypeOK
    /\ exec \in [Slots -> Execution \cup {Idle}]
    /\ mode \in [Workers -> {"polling", "draining", "stopped"}]
    /\ fatal \in [Workers -> BOOLEAN]
    /\ faulty \in [Workers -> BOOLEAN]

\* While an attempt's handler has not ended, nobody but its own worker ends or
\* suspends its run: it is still running, or it was cancelled, or its lease ran
\* out and it was reaped.  This is the ownership that lib.rs promises: "A stale
\* worker cannot later complete, fail, checkpoint, or otherwise mutate a run it
\* no longer owns".
OwnerUndisturbed ==
    \A s \in Slots : exec[s].pc \in {"claimed", "loading", "handler"} =>
        LET run == tasks[exec[s].task].runs[exec[s].attempt]
        IN  \/ run.state \in {"running", "cancelled", "absent"}
            \/ run.state = "failed" /\ run.reason = "lease_expired"

\* Two slots never execute handlers of one task while both could still commit:
\* at most one of them holds the run that is running.
OneLiveExecution ==
    /\ WorkerTypeOK
    /\ \A s, u \in Slots :
         /\ s # u
         /\ exec[s].pc \in {"handler", "completing"}
         /\ exec[u].pc \in {"handler", "completing"}
         /\ exec[s].task = exec[u].task
         => exec[s].attempt # exec[u].attempt

\* No answer of the database that an attempt meets ends the worker loop, although
\* its lease may expire, its run be reaped, cancelled or failed by others and its
\* handler return what it likes at any point: execute_task() knows every one, and
\* errors "are handled by the executor and persisted through the normal PostgreSQL
\* state transitions" (ExecutionRequest).  It holds as long as no handler suspends
\* its run (MaxWake = 0) and retention keeps a task longer than its attempts run
\* (Ttl > MaxTime): a worker that goes on with a run id another attempt holds, or
\* whose task was deleted, is told so by an error the loop does not survive.
NoFatalError == \A w \in Workers : ~fatal[w]

\* A worker that shut down gracefully leaves no run under a live lease, so that
\* no other worker has to wait for one to expire: "Graceful shutdown does not
\* abandon already claimed work" (Worker::run_until).
DrainReleasesLeases ==
    \A w \in Workers, t \in Tasks, a \in Attempts :
        mode[w] = "stopped" /\ ~faulty[w] /\ ~fatal[w]
            => ~(tasks[t].runs[a].claimed_by = w /\ tasks[t].runs[a].claim_expires_at > now)
=============================================================================
