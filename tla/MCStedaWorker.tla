--------------------------- MODULE MCStedaWorker ---------------------------
(***************************************************************************)
(* Instances of StedaWorker for TLC.                                       *)
(***************************************************************************)
EXTENDS StedaWorker, TLC

CONSTANT n1

\* One automatic retry that is due at once.
RetryRequest ==
    [name |-> n1, kind |-> "fixed", delay |-> [a \in Attempts |-> 0],
     max_attempts |-> 2, max_delay |-> Null, max_duration |-> Null]

MCRequests == {RetryRequest}

MCSymmetry == Permutations(Workers)
=============================================================================
