--------------------------- MODULE MCStedaRegistry --------------------------
(***************************************************************************)
(* Instances of StedaRegistry for TLC.                                     *)
(***************************************************************************)
EXTENDS StedaRegistry

DistinctLocks == [q \in Queues |-> q]
=============================================================================
