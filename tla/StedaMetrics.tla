---------------------------- MODULE StedaMetrics ----------------------------
(***************************************************************************)
(* The counters of src/metrics.rs beside the workers that feed them: each  *)
(* worker polls through a queue handle of its own, whose QueueMetrics it   *)
(* shares with its attempts.  A TaskExecution guard counts an attempt once *)
(* when finish() names its outcome, or else when it is dropped.  Elapsed   *)
(* times are left out.                                                     *)
(***************************************************************************)
EXTENDS StedaWorker

CONSTANT MaxCount   \* u64::MAX

ASSUME MaxCountAssumption == MaxCount \in Nat \ {0}

VARIABLE metrics    \* [Workers -> [Counters -> 0 .. MaxCount]]

metricsVars == <<tasks, now, exec, mode, fatal, faulty, metrics>>

ExecutionOutcomes == {"completed", "failed", "lease_lost", "cancelled", "suspended"}

Outcomes == ExecutionOutcomes \cup {"unhandled"}

Counters == {"claimed_runs", "claim_errors", "executions"} \cup Outcomes

NewMetrics == [c \in Counters |-> 0]

\* QueueMetrics::increment(): saturating.
Increment(current, value) ==
    IF current + value <= MaxCount THEN current + value ELSE MaxCount

Count(w, counter, value) ==
    metrics' = [metrics EXCEPT ![w][counter] = Increment(@, value)]

\* What finish() and drop() both add for an attempt that ended.
Added(counters, outcome) ==
    [counters EXCEPT !["executions"] = Increment(@, 1), ![outcome] = Increment(@, 1)]

\* TaskExecution::start(): a guard over the worker's counters.
Start(w) == [counters |-> metrics[w], finished |-> FALSE]

\* Mutant: the guard is not marked, so that its drop counts the attempt again.
FinishedUnmarked(guard, outcome) ==
    [counters |-> Added(guard.counters, outcome), finished |-> FALSE]

\* TaskExecution::finish()
Finished(guard, outcome) ==
    [counters |-> Added(guard.counters, outcome), finished |-> TRUE]

\* TaskExecution::drop(), at every return of execute_task() and when it is
\* unwound or dropped: finish() consumed the guard and dropped it then.
Dropped(guard) ==
    IF guard.finished THEN guard.counters ELSE Added(guard.counters, "unhandled")

\* The life of the guard of an attempt that ends with an outcome, or with none.
Record(w, outcome) ==
    metrics' = [metrics EXCEPT ![w] =
        Dropped(IF outcome \in ExecutionOutcomes THEN Finished(Start(w), outcome) ELSE Start(w))]

MetricsInit == WorkerInit /\ metrics = [w \in Workers |-> NewMetrics]

-----------------------------------------------------------------------------
(* The outcome execute_task() names when the attempt in slot s ends.       *)

\* execution_outcome_from_supervision(); an error of supervise_run() leaves by ?.
SupervisedOutcome(answer) == IF answer \in ExecutionOutcomes THEN answer ELSE "unhandled"

\* Mutant: whatever the database answers, a returned value counts as success.
CompletionBelieved(s, error) ==
    IF error \in {"ok", "ST001"} THEN "completed"
    ELSE IF error = "ST003" THEN "lease_lost" ELSE "unhandled"

\* complete_run() answers false when the deadline cancelled the task instead.
CompletionOutcome(s, error) ==
    CASE error = "ok" -> IF tasks'[exec[s].task].state = "completed" THEN "completed" ELSE "cancelled"
      [] error = "ST001" -> "cancelled"
      [] error = "ST003" -> "lease_lost"
      [] OTHER -> "unhandled"

FailureOutcome(error) ==
    CASE error = "ST001" -> "cancelled"
      [] error = "ST002" -> "failed"
      [] error = "ST003" -> "lease_lost"
      [] OTHER -> "unhandled"

\* finish_failure_transition() after fail_run() succeeded.
ConfirmedOutcome(answer) ==
    CASE answer \in SuperviseErrors -> "unhandled"
      [] answer = "cancelled" -> "cancelled"
      [] OTHER -> "failed"

Outcome(s) ==
    LET task == tasks[exec[s].task]
        attempt == exec[s].attempt
        answer == Supervision(task, attempt, now)
        error == LockRunningAttempt(task, attempt, FALSE, now)
    IN  CASE exec[s].pc = "loading" -> IF error = "ST003" THEN "lease_lost" ELSE "unhandled"
          [] exec[s].pc = "completing" -> CompletionOutcome(s, error)
          [] exec[s].pc = "failing" -> FailureOutcome(error)
          [] exec[s].pc = "confirming" -> ConfirmedOutcome(answer)
          [] OTHER -> SupervisedOutcome(answer)

-----------------------------------------------------------------------------
MetricsNext ==
    \/ \E w \in Workers :
         \/ Poll(w) /\ Count(w, "claimed_runs", Cardinality(Granted))
         \/ PollLost(w) /\ Count(w, "claim_errors", 1)
         \/ (Shutdown(w) \/ Stop(w)) /\ UNCHANGED metrics
         \/ Crash(w) /\ metrics' = [metrics EXCEPT ![w] = NewMetrics]
    \/ \E s \in Slots :
         \/ AttemptStep(s) /\ IF exec'[s] = Idle THEN Record(s[1], Outcome(s)) ELSE UNCHANGED metrics
         \/ ConnectionLost(s) /\ Record(s[1], "unhandled")
    \/ Environment /\ UNCHANGED metrics

MetricsSpec == MetricsInit /\ [][MetricsNext]_metricsVars

-----------------------------------------------------------------------------
(* Properties.                                                             *)

\* The attempts counted under one of the outcomes.
Counted(w) ==
    metrics[w].completed + metrics[w].failed + metrics[w].lease_lost
      + metrics[w].cancelled + metrics[w].suspended + metrics[w].unhandled

\* Until a counter saturates, every claimed run is in flight or counted as one
\* execution with exactly one outcome, whichever return of execute_task() ended
\* it: a TaskExecution guard is neither lost nor recorded twice.
EveryClaimCounted ==
    \A w \in Workers : metrics[w].claimed_runs < MaxCount =>
        /\ metrics[w].executions = Counted(w)
        /\ metrics[w].claimed_runs = metrics[w].executions + Cardinality(SlotsOf(w) \ FreeSlots(w))

\* No counter names an end the database does not know: when an execution is
\* counted as completed, failed or suspended its run is in that state, when it
\* is counted as cancelled its task is, and an execution that lost its lease does
\* not own a running run.
OutcomesAreDurable ==
    [][\A s \in Slots : \A o \in ExecutionOutcomes :
         exec[s] # Idle /\ exec'[s] = Idle /\ metrics'[s[1]][o] > metrics[s[1]][o]
         => LET run == tasks'[exec[s].task].runs[exec[s].attempt]
            IN  CASE o = "lease_lost" -> run.state = "failed" \/ LeaseExpired(tasks'[exec[s].task], now)
                  [] o = "suspended" -> run.state = "sleeping"
                  [] o = "cancelled" -> tasks'[exec[s].task].state = "cancelled"
                  [] OTHER -> run.state = o]_metricsVars
=============================================================================
