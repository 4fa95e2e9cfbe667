------------------------------ MODULE StedaTask -----------------------------
(***************************************************************************)
(* What a queue promises about a logical task, whatever happens to runs,   *)
(* leases and workers: a submitted task waits or executes until it has one *)
(* outcome, its attempts are used one after the other within a budget, and *)
(* only an explicit retry of a failed task opens it again.                 *)
(***************************************************************************)
EXTENDS Integers

CONSTANTS Tasks, MaxAttempt

VARIABLE life   \* [Tasks -> Life]

Outcomes == {"completed", "failed", "cancelled"}

Life == [phase   : {"none", "waiting", "executing", "gone"} \cup Outcomes,
         attempt : 0 .. MaxAttempt,
         budget  : 0 .. MaxAttempt]

Nothing(phase) == [phase |-> phase, attempt |-> 0, budget |-> 0]

Init == life = [t \in Tasks |-> Nothing("none")]

\* The client's view of one step of one task, from l to m.
Submit(l, m) ==
    /\ l.phase = "none"
    /\ m.phase = "waiting" /\ m.attempt = 1 /\ m.budget >= 1

Start(l, m) == l.phase = "waiting" /\ m = [l EXCEPT !.phase = "executing"]

Suspend(l, m) == l.phase = "executing" /\ m = [l EXCEPT !.phase = "waiting"]

\* The next attempt waits, or another worker takes it at once.
NextAttempt(l, m) ==
    /\ l.phase = "executing"
    /\ l.attempt < l.budget
    /\ \E phase \in {"waiting", "executing"} :
         m = [l EXCEPT !.phase = phase, !.attempt = @ + 1]

End(l, m) ==
    \/ l.phase = "executing" /\ \E o \in Outcomes : m = [l EXCEPT !.phase = o]
    \/ l.phase = "waiting" /\ m = [l EXCEPT !.phase = "cancelled"]

\* An operator's retry: one more attempt, and the budget covers it.
Reopen(l, m) ==
    /\ l.phase = "failed"
    /\ m = [phase   |-> "waiting",
            attempt |-> l.attempt + 1,
            budget  |-> IF l.budget > l.attempt THEN l.budget ELSE l.attempt + 1]

Forget(l, m) == l.phase \in Outcomes /\ m = Nothing("gone")

Step(l, m) ==
    \/ Submit(l, m) \/ Start(l, m) \/ Suspend(l, m) \/ NextAttempt(l, m)
    \/ End(l, m) \/ Reopen(l, m) \/ Forget(l, m)

\* A claim or a cleanup moves several tasks at once.
Next ==
    /\ life' \in [Tasks -> Life]
    /\ \A t \in Tasks : life'[t] = life[t] \/ Step(life[t], life'[t])

Spec == Init /\ [][Next]_life
=============================================================================
