---------------------------- MODULE MCStedaAwait ----------------------------
(***************************************************************************)
(* A cycle of waits over two queues with a slot each.                      *)
(***************************************************************************)
EXTENDS StedaAwait

CONSTANTS first, second, third

MCQueueOf == [t \in Tasks |-> IF t = second THEN "b" ELSE "a"]

MCSlots == [q \in {"a", "b"} |-> 1]

\* `first` waits for `second` in the other queue, `second` for `third`, which
\* needs the slot that `first` occupies; `third` asks for a task of its own queue.
MCTarget ==
    [t \in Tasks |-> CASE t = first -> second [] t = second -> third [] t = third -> first]

MCTimeout == [t \in Tasks |-> IF t = second THEN 2 ELSE NoTimeout]
=============================================================================
