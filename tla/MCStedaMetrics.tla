--------------------------- MODULE MCStedaMetrics ---------------------------
(***************************************************************************)
(* An instance of StedaMetrics for TLC.                                    *)
(***************************************************************************)
EXTENDS StedaMetrics, TLC

CONSTANT n1

\* One automatic retry that is due at once, and a deadline the task can miss.
RetryRequest ==
    [name |-> n1, kind |-> "fixed", delay |-> [a \in Attempts |-> 0],
     max_attempts |-> 2, max_delay |-> Null, max_duration |-> 2]

MCRequests == {RetryRequest}

MCSymmetry == Permutations(Workers)
=============================================================================
