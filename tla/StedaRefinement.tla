--------------------------- MODULE StedaRefinement --------------------------
(***************************************************************************)
(* The queue's rows implement the task lifecycle of StedaTask.             *)
(***************************************************************************)
EXTENDS StedaQueue

Phase(r) ==
    CASE r.state = "absent" -> "none"
      [] r.state = "deleted" -> "gone"
      [] r.state \in {"pending", "sleeping"} -> "waiting"
      [] r.state = "running" -> "executing"
      [] OTHER -> r.state

LifeOf(r) ==
    [phase   |-> Phase(r),
     attempt |-> r.attempts,
     budget  |-> IF Live(r) THEN r.max_attempts ELSE 0]

Lifecycle == INSTANCE StedaTask WITH life <- [t \in Tasks |-> LifeOf(tasks[t])]

\* Every behaviour of the rows, with stale callers, expired leases, batches and
\* deadlines, is a behaviour of the abstract task: one outcome, attempts one at
\* a time within the budget, reopened only by a retry of a failed task.
ImplementsTaskLifecycle == Lifecycle!Spec
=============================================================================
