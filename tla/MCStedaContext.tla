--------------------------- MODULE MCStedaContext ---------------------------
(***************************************************************************)
(* Instances of StedaContext for TLC.                                      *)
(***************************************************************************)
EXTENDS StedaContext, TLC

CONSTANT n1

\* One automatic retry that is due at once.
RetryRequest ==
    [name |-> n1, kind |-> "fixed", delay |-> [a \in Attempts |-> 0],
     max_attempts |-> 2, max_delay |-> Null, max_duration |-> Null]

\* The same with a backoff of one second.
BackoffRequest == [RetryRequest EXCEPT !.delay = [a \in Attempts |-> 1]]

MCRequests == {RetryRequest, BackoffRequest}

\* Value 2 loses something in its round trip and is read back as 1.
MCReread == [v \in Values |-> IF v = 2 THEN 1 ELSE v]

MCSymmetry == Permutations(Workers) \cup Permutations(Futures)
=============================================================================
