---------------------------- MODULE MCStedaClient ---------------------------
(***************************************************************************)
(* Instances of StedaClient for TLC.                                       *)
(***************************************************************************)
EXTENDS StedaClient

CONSTANTS n1, n2

\* One attempt, and a limit on the time to its first claim.
OnceRequest ==
    [name |-> n1, kind |-> "none", delay |-> [a \in Attempts |-> 0],
     max_attempts |-> 1, max_delay |-> 1, max_duration |-> Null]

MCRequests == {OnceRequest}
=============================================================================
