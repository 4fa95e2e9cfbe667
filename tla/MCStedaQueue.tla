---------------------------- MODULE MCStedaQueue ----------------------------
(***************************************************************************)
(* Instances of StedaQueue for TLC.                                        *)
(***************************************************************************)
EXTENDS StedaRefinement, TLC

CONSTANTS n1, n2

\* One attempt, no policy.
PlainRequest ==
    [name |-> n1, kind |-> "none", delay |-> [a \in Attempts |-> 0],
     max_attempts |-> 1, max_delay |-> Null, max_duration |-> Null]

\* Backoff that doubles, and both deadlines.
BackoffRequest ==
    [name |-> n1, kind |-> "exponential", delay |-> [a \in Attempts |-> IF a = 1 THEN 1 ELSE 2],
     max_attempts |-> 3, max_delay |-> 2, max_duration |-> 3]

\* Immediate retries.
EagerRequest ==
    [name |-> n2, kind |-> "fixed", delay |-> [a \in Attempts |-> 0],
     max_attempts |-> 2, max_delay |-> Null, max_duration |-> Null]

MCRequests == {PlainRequest, BackoffRequest, EagerRequest}

MCSymmetry == Permutations(Workers)
=============================================================================
