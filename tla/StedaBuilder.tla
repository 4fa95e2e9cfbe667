---------------------------- MODULE StedaBuilder ----------------------------
(***************************************************************************)
(* WorkerBuilder (src/worker.rs): a fluent builder that defers its first   *)
(* error to build(), and what the worker loop later does with the values   *)
(* it accepted.  A Duration is a number of half seconds, an odd one for    *)
(* any subsecond part.                                                     *)
(***************************************************************************)
EXTENDS Integers

CONSTANTS
    LargestI32,      \* i32::MAX
    LeaseDurations,  \* lease durations callers pass, in half seconds
    Sizes,           \* concurrencies callers pass
    TaskNames,       \* names that validate_task_name() accepts
    BadName,         \* and one that is empty or too long
    Handlers         \* handlers and executors

ASSUME BuilderAssumption ==
    /\ LargestI32 \in Nat /\ LargestI32 >= 120   \* the default lease is one of its seconds
    /\ LeaseDurations \subseteq Nat /\ Sizes \subseteq Nat
    /\ BadName \notin TaskNames

VARIABLES
    builder,   \* the builder, until build() consumes it
    refused,   \* some call so far was invalid
    worker     \* what build() returned

builderVars == <<builder, refused, worker>>

Unset == "unset"
NoWorkerYet == [is |-> "nothing"]

NewBuilder ==
    [registry |-> [n \in TaskNames |-> Unset], lease |-> 240, concurrency |-> 1, error |-> "none"]

BuilderInit == builder = NewBuilder /\ refused = FALSE /\ worker = NoWorkerYet

\* duration_seconds(): rounded up, then the signed range; Err is -1.
DurationSeconds(d) ==
    LET seconds == (d \div 2) + (d % 2)
    IN  IF seconds <= LargestI32 THEN seconds ELSE -1

-----------------------------------------------------------------------------
\* Every call returns the builder as it is once an error is set.
Step(error, accepted) ==
    /\ worker = NoWorkerYet
    /\ builder' = IF builder.error # "none" THEN builder
                  ELSE IF error # "none" THEN [builder EXCEPT !.error = error]
                  ELSE accepted
    /\ refused' = (refused \/ error # "none")
    /\ UNCHANGED worker

\* Mutant: a lease of no time at all passes.
LeaseErrorOfRange(d) == IF DurationSeconds(d) = -1 THEN "lease too long" ELSE "none"

LeaseError(d) ==
    CASE DurationSeconds(d) = 0 -> "lease too short"
      [] DurationSeconds(d) = -1 -> "lease too long"
      [] OTHER -> "none"

LeaseDuration(d) == Step(LeaseError(d), [builder EXCEPT !.lease = d])

ConcurrencyError(n) ==
    CASE n = 0 -> "no concurrency"
      [] n > LargestI32 -> "concurrency too large"
      [] OTHER -> "none"

Concurrency(n) ==
    Step(ConcurrencyError(n), [builder EXCEPT !.concurrency = n])

\* register_task_executor(), behind task() and task_executor().
RegisterTask(name, handler) ==
    Step(CASE name \notin TaskNames -> "bad name"
           [] name \in TaskNames /\ builder.registry[name] # Unset -> "registered twice"
           [] OTHER -> "none",
         [builder EXCEPT !.registry = [n \in TaskNames |-> IF n = name THEN handler ELSE @[n]]])

Registered == { n \in TaskNames : builder.registry[n] # Unset }

Build ==
    /\ worker = NoWorkerYet
    /\ worker' = IF builder.error # "none" THEN [is |-> "error", error |-> builder.error]
                 ELSE IF Registered = {} THEN [is |-> "error", error |-> "no task"]
                 ELSE [is |-> "worker", registry |-> builder.registry,
                       lease |-> builder.lease, concurrency |-> builder.concurrency]
    /\ UNCHANGED <<builder, refused>>

BuilderNext ==
    \/ \E d \in LeaseDurations : LeaseDuration(d)
    \/ \E n \in Sizes : Concurrency(n)
    \/ \E name \in TaskNames \cup {BadName}, handler \in Handlers : RegisterTask(name, handler)
    \/ Build

BuilderSpec == BuilderInit /\ [][BuilderNext]_builderVars

-----------------------------------------------------------------------------
(* Properties.                                                             *)

\* A worker that was built can run, and none is built after an invalid call,
\* however many valid ones follow it: the conversions of run_worker_loop() that
\* return an error (worker_lease_seconds(), the size of a claim) cannot fail,
\* and claim_tasks() gets a lease, a size and task names it accepts.
BuiltWorkersRun ==
    worker.is = "worker" =>
        /\ ~refused
        /\ DurationSeconds(worker.lease) \in 1 .. LargestI32
        /\ \A available \in 1 .. worker.concurrency : available <= LargestI32
        /\ worker.concurrency > 0
        /\ \E n \in TaskNames : worker.registry[n] # Unset
=============================================================================
