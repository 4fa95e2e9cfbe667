----------------------------- MODULE StedaAwait -----------------------------
(***************************************************************************)
(* Handlers that wait for tasks of other queues (TaskContext::await_task)  *)
(* on finite worker pools.  All handlers of a process are called through   *)
(* one shared execution service (src/execution.rs): a call takes the lock  *)
(* of the service, waits until its layers are ready and releases the lock  *)
(* before the handler runs.                                                *)
(*                                                                         *)
(* The queues are what StedaTask promises about their tasks; StedaQueue    *)
(* implements that (StedaRefinement).                                      *)
(***************************************************************************)
EXTENDS StedaTask, FiniteSets

CONSTANTS
    QueueOf,         \* [Tasks -> queue name]
    Slots,           \* [queue name -> execution slots of its workers]
    Target,          \* [Tasks -> Tasks \cup {NoTask}]: the task a handler may wait for
    NoTask,
    Permits,         \* calls the layers of the service admit at a time
    Timeout,         \* [Tasks -> TaskWait::timeout of its wait, or NoTimeout]
    NoTimeout,
    InitialBackoff,  \* INITIAL_RESULT_BACKOFF
    MaxBackoff       \* MAX_RESULT_BACKOFF

ASSUME AwaitAssumption ==
    /\ NoTask \notin Tasks /\ MaxAttempt \in Nat \ {0}
    /\ Target \in [Tasks -> Tasks \cup {NoTask}]
    /\ \A t \in Tasks : Slots[QueueOf[t]] \in Nat \ {0}
    /\ Permits \in Nat \ {0}
    /\ \A t \in Tasks : Timeout[t] \in Nat \/ Timeout[t] = NoTimeout
    /\ InitialBackoff \in Nat \ {0} /\ MaxBackoff \in Nat /\ InitialBackoff <= MaxBackoff

VARIABLES
    call,     \* [Tasks -> where the attempt of the task stands]
    holder,   \* the task whose call holds the lock of the service, or NoTask
    result,   \* [Tasks -> 0 .. MaxAttempt]: tasks.result, here the attempt that wrote it
    waited,   \* [Tasks -> 0 .. MaxAttempt]: the checkpoint of the wait, 0 if none
    given     \* [Tasks -> SUBSET (0 .. MaxAttempt)]: outputs await_task() returned

awaitVars == <<life, call, holder, result, waited, given>>

\* Where an attempt stands: not in this process, before the lock of the
\* service, before its layers are ready, in the handler before or after its
\* wait, in the polling loop, or before the checkpoint of what it read.
Idle == [pc |-> "idle"]
At(pc) == [pc |-> pc]
Stages == {"entering", "readying", "handler", "waited"}

Polling == [pc : {"polling"}, delay : Nat, elapsed : Nat]
Persisting == [pc : {"persisting"}, output : 0 .. MaxAttempt]

AwaitInit ==
    /\ Init
    /\ call = [t \in Tasks |-> Idle]
    /\ holder = NoTask
    /\ result = [t \in Tasks |-> 0]
    /\ waited = [t \in Tasks |-> 0]
    /\ given = [t \in Tasks |-> {}]

Goto(t, c) == call' = [call EXCEPT ![t] = c]

\* The future of the call is dropped, and with it its guard of the lock.
Leave(t) ==
    /\ Goto(t, Idle)
    /\ holder' = IF holder = t THEN NoTask ELSE holder

Moved(t, phase) == life' = [life EXCEPT ![t].phase = phase]

\* fail_run(), or the reaper: the next attempt, or the end.
Failed(l) ==
    IF l.attempt < l.budget
    THEN [l EXCEPT !.phase = "waiting", !.attempt = @ + 1]
    ELSE [l EXCEPT !.phase = "failed"]

Occupied(q) == { t \in Tasks : QueueOf[t] = q /\ call[t] # Idle }

SlotFree(q) == Cardinality(Occupied(q)) < Slots[q]

Fails(t) == life' = [life EXCEPT ![t] = Failed(@)] /\ Leave(t)

-----------------------------------------------------------------------------
(* Clients, retention and crashes.                                         *)

SubmitTask(t) ==
    /\ life[t].phase = "none"
    /\ \E budget \in 1 .. MaxAttempt :
         life' = [life EXCEPT ![t] = [phase |-> "waiting", attempt |-> 1, budget |-> budget]]
    /\ UNCHANGED <<call, holder, result, waited, given>>

CancelTask(t) ==
    /\ life[t].phase \in {"waiting", "executing"}
    /\ Moved(t, "cancelled")
    /\ UNCHANGED <<call, holder, result, waited, given>>

RetryTask(t) ==
    /\ life[t].phase = "failed"
    /\ life[t].attempt < MaxAttempt
    /\ life' = [life EXCEPT ![t] = [phase   |-> "waiting",
                                   attempt |-> @.attempt + 1,
                                   budget  |-> IF @.budget > @.attempt THEN @.budget ELSE @.attempt + 1]]
    /\ UNCHANGED <<call, holder, result, waited, given>>

CleanupTask(t) ==
    /\ life[t].phase \in Outcomes
    /\ life' = [life EXCEPT ![t] = Nothing("gone")]
    /\ UNCHANGED <<call, holder, result, waited, given>>

\* The process of the attempt disappears; its lease has to expire.
Crash(t) ==
    /\ call[t] # Idle
    /\ Leave(t)
    /\ UNCHANGED <<life, result, waited, given>>

\* Maintenance runs inside a claim, and a worker claims only with a free slot.
Reap(t) ==
    /\ life[t].phase = "executing"
    /\ call[t] = Idle
    /\ SlotFree(QueueOf[t])
    /\ life' = [life EXCEPT ![t] = Failed(@)]
    /\ UNCHANGED <<call, holder, result, waited, given>>

-----------------------------------------------------------------------------
(* Claims, the shared service and supervision.                             *)

ClaimTask(t) ==
    /\ life[t].phase = "waiting"
    /\ call[t] = Idle
    /\ SlotFree(QueueOf[t])
    /\ Moved(t, "executing")
    /\ Goto(t, At("entering"))
    /\ UNCHANGED <<holder, result, waited, given>>

LockService(t) ==
    /\ call[t] = At("entering")
    /\ holder = NoTask
    /\ holder' = t
    /\ Goto(t, At("readying"))
    /\ UNCHANGED <<life, result, waited, given>>

\* Calls that were admitted and have not ended.
Admitted == { t \in Tasks : call[t].pc \in {"handler", "polling", "persisting", "waited"} }

\* poll_ready() of the layers, then call() and drop(service).
CallService(t) ==
    /\ call[t] = At("readying")
    /\ Cardinality(Admitted) < Permits
    /\ holder' = NoTask
    /\ Goto(t, At("handler"))
    /\ UNCHANGED <<life, result, waited, given>>

\* supervise_execution() sees that the run is over and drops the handler.
Supervise(t) ==
    /\ call[t] # Idle
    /\ life[t].phase # "executing"
    /\ Leave(t)
    /\ UNCHANGED <<life, result, waited, given>>

-----------------------------------------------------------------------------
(* The handler and TaskContext::await_task_ref().                          *)

Runs(t, pc) == call[t].pc = pc /\ life[t].phase = "executing"

\* Mutant: a wait within one queue is let through.
WaitAdmitted(t) == TRUE

\* The only waits that are refused are those for a task of the own queue.
WaitAllowed(t) == QueueOf[Target[t]] # QueueOf[t]

\* The handler has a TaskRef, so the task was submitted.  A wait that an
\* earlier attempt checkpointed is not repeated.
BeginWait(t) ==
    /\ Runs(t, "handler")
    /\ Target[t] # NoTask
    /\ life[Target[t]].phase # "none"
    /\ \/ /\ ~WaitAllowed(t)
          /\ Fails(t)
          /\ UNCHANGED given
       \/ /\ WaitAllowed(t) /\ waited[t] # 0
          /\ Goto(t, At("waited"))
          /\ given' = [given EXCEPT ![t] = @ \cup {waited[t]}]
          /\ UNCHANGED <<life, holder>>
       \/ /\ WaitAllowed(t) /\ waited[t] = 0
          /\ Goto(t, [pc |-> "polling", delay |-> InitialBackoff, elapsed |-> 0])
          /\ UNCHANGED <<life, holder, given>>
    /\ UNCHANGED <<result, waited>>

TimedOut(t) == Timeout[t] # NoTimeout /\ call[t].elapsed >= Timeout[t]

Smaller(m, n) == IF m <= n THEN m ELSE n

\* The rest of the timeout bounds the delay.
Delay(t) ==
    IF Timeout[t] = NoTimeout THEN call[t].delay
    ELSE Smaller(call[t].delay, Timeout[t] - call[t].elapsed)

\* sleep(delay).  Without a timeout nobody asks how long the wait has lasted.
Slept(t) ==
    [call[t] EXCEPT !.delay = Smaller(2 * Delay(t), MaxBackoff),
                    !.elapsed = IF Timeout[t] = NoTimeout THEN 0 ELSE @ + Delay(t)]

\* Mutant: every terminal snapshot is decoded as a completed one.
PollTerminal(t) ==
    LET target == life[Target[t]].phase
    IN  /\ Runs(t, "polling")
        /\ \/ /\ target \in Outcomes
              /\ Goto(t, [pc |-> "persisting", output |-> result[Target[t]]])
              /\ UNCHANGED <<life, holder>>
           \/ target = "gone" /\ Fails(t)
        /\ UNCHANGED <<result, waited, given>>

\* One round of await_task_result_snapshot(), with decode_result(): a missing
\* target, a failed or cancelled one and a timeout are errors of the handler.
PollResult(t) ==
    LET target == life[Target[t]].phase
    IN  /\ Runs(t, "polling")
        /\ CASE target = "completed" ->
                  /\ Goto(t, [pc |-> "persisting", output |-> result[Target[t]]])
                  /\ UNCHANGED <<life, holder>>
             [] target \in {"failed", "cancelled", "gone"} -> Fails(t)
             [] target \in {"waiting", "executing"} /\ TimedOut(t) -> Fails(t)
             [] OTHER -> /\ Goto(t, Slept(t))
                         /\ UNCHANGED <<life, holder>>
        /\ UNCHANGED <<result, waited, given>>

\* The checkpoint of the wait keeps the child's output, whatever becomes of it.
PersistWait(t) ==
    /\ Runs(t, "persisting")
    /\ waited' = [waited EXCEPT ![t] = call[t].output]
    /\ given' = [given EXCEPT ![t] = @ \cup {call[t].output}]
    /\ Goto(t, At("waited"))
    /\ UNCHANGED <<life, holder, result>>

\* The handler is done with its wait, or does without.
HandlerDone(t) == Runs(t, "waited") \/ Runs(t, "handler")

HandlerReturns(t) ==
    /\ HandlerDone(t)
    /\ Moved(t, "completed")
    /\ result' = [result EXCEPT ![t] = life[t].attempt]
    /\ Leave(t)
    /\ UNCHANGED <<waited, given>>

HandlerFails(t) ==
    /\ HandlerDone(t)
    /\ Fails(t)
    /\ UNCHANGED <<result, waited, given>>

HandlerStep(t) ==
    BeginWait(t) \/ PollResult(t) \/ PersistWait(t) \/ HandlerReturns(t) \/ HandlerFails(t)

AwaitNext ==
    \E t \in Tasks :
        \/ SubmitTask(t) \/ CancelTask(t) \/ RetryTask(t) \/ CleanupTask(t) \/ Crash(t) \/ Reap(t)
        \/ ClaimTask(t) \/ LockService(t) \/ CallService(t) \/ Supervise(t)
        \/ HandlerStep(t)

\* Clients submit, workers poll and are restarted, maintenance reaps, and the
\* handlers themselves end.  Nobody has to cancel, retry or clean up.
Fairness ==
    \A t \in Tasks :
        /\ WF_awaitVars(SubmitTask(t))
        /\ WF_awaitVars(Reap(t))
        /\ WF_awaitVars(ClaimTask(t))
        /\ WF_awaitVars(LockService(t))
        /\ WF_awaitVars(CallService(t))
        /\ WF_awaitVars(Supervise(t))
        /\ WF_awaitVars(HandlerStep(t))

AwaitSpec == AwaitInit /\ [][AwaitNext]_awaitVars /\ Fairness

-----------------------------------------------------------------------------
(* Properties.                                                             *)

\* Calls have the fields of their stage.
AwaitTypeOK ==
    /\ life \in [Tasks -> Life]
    /\ call \in [Tasks -> {Idle} \cup { At(pc) : pc \in Stages } \cup Polling \cup Persisting]
    /\ holder \in Tasks \cup {NoTask}
    /\ result \in [Tasks -> 0 .. MaxAttempt]
    /\ waited \in [Tasks -> 0 .. MaxAttempt]
    /\ given \in [Tasks -> SUBSET (0 .. MaxAttempt)]

\* However often a parent is retried, and even if its child is gone, its waits
\* return one and the same output, and it is what the child completed with.  And
\* no poll of a wait with a timeout is put off beyond it, however far the backoff
\* has grown.
WaitsAgree ==
    /\ AwaitTypeOK
    /\ \A t \in Tasks : \A v \in given[t] : v = waited[t] /\ v = result[Target[t]]
    /\ \A t \in Tasks :
         call[t].pc = "polling" /\ Timeout[t] # NoTimeout => call[t].elapsed <= Timeout[t]

\* Every task ends: no set of waiting parents occupies all slots, all permits
\* or the service for ever.
EveryTaskEnds ==
    \A t \in Tasks : <>[](life[t].phase \in Outcomes \cup {"gone"})
=============================================================================
