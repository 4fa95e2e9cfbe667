---------------------------- MODULE StedaCadence ----------------------------
(***************************************************************************)
(* The clockwork of one attempt's lease: execute_task() up to its handler, *)
(* then supervise_execution() and supervision_interval() (src/executor.rs) *)
(* against the renewal window of supervise_run() (0006_task_claiming.sql). *)
(* Time is counted in ticks far finer than a second; what matters of the   *)
(* lease is how much is left of it, so the behaviours are endless and the  *)
(* states are finite.                                                      *)
(***************************************************************************)
EXTENDS Integers

CONSTANTS
    Second,       \* MAX_SUPERVISION_INTERVAL in ticks
    HalfLeases,   \* half of each lease duration a worker may be built with
    Latencies     \* how long a request, or a reply, takes at most

ASSUME CadenceAssumption ==
    /\ Second \in Nat \ {0}
    /\ HalfLeases \subseteq Nat \ {0}
    /\ Latencies \subseteq Nat

VARIABLES
    half,      \* half of the lease this worker asks for
    latency,   \* the longest way of a message between it and the database
    left,      \* claim_expires_at minus the database clock
    pc,        \* what is under way: a message, or the sleep between two of them
    timer,     \* ticks until it is over
    answers,   \* answers of supervise_run() so far; 2 stands for two or more
    silent     \* ticks since the claim or the last supervise_run() was executed

cadenceVars == <<half, latency, left, pc, timer, answers, silent>>

Lease == 2 * half

\* Mutant: half of the lease alone.
HalfTheLease == half

\* supervision_interval()
Interval == IF half <= Second THEN half ELSE Second

\* claim_tasks() committed; its rows are on their way.
CadenceInit ==
    /\ half \in HalfLeases
    /\ latency \in Latencies
    /\ left = Lease
    /\ pc = "claimed"
    /\ timer \in 0 .. latency
    /\ answers = 0
    /\ silent = 0

Tick ==
    /\ timer > 0
    /\ timer' = timer - 1
    /\ left' = IF left > 0 THEN left - 1 ELSE 0
    /\ silent' = silent + 1
    /\ UNCHANGED <<half, latency, pc, answers>>

\* A message sets out.
Send(message) ==
    /\ pc' = message
    /\ timer' \in 0 .. latency

\* The first supervise_run() is sent before the handler starts.
FirstRequest ==
    /\ pc = "claimed"
    /\ timer = 0
    /\ Send("request")
    /\ UNCHANGED <<half, latency, left, answers, silent>>

\* Mutant: the lease is renewed in its last quarter only.
RenewLate == 2 * left <= half

\* The lease reached its renewal window.
RenewalDue == left <= half

\* The expiry becomes now plus the lease, which is later than it was.
Renewed == Lease

\* supervise_run() finds the lease alive and renews it if that is due.
Ask ==
    /\ pc = "request"
    /\ timer = 0
    /\ left > 0
    /\ left' = IF RenewalDue THEN Renewed ELSE left
    /\ silent' = 0
    /\ answers' = IF answers = 0 THEN 1 ELSE 2
    /\ Send("reply")
    /\ UNCHANGED <<half, latency>>

\* TaskContext::new() follows the first answer.
RequestContext ==
    /\ pc = "reply"
    /\ answers = 1
    /\ timer = 0
    /\ Send("load")
    /\ UNCHANGED <<half, latency, left, answers, silent>>

\* get_task_checkpoint_states() wants a live lease; it renews nothing and looks
\* at no deadline.
LoadContext ==
    /\ pc = "load"
    /\ timer = 0
    /\ left > 0
    /\ Send("loaded")
    /\ UNCHANGED <<half, latency, left, answers, silent>>

\* The lease ran out: either function reports it and the attempt ends.
Lose ==
    /\ pc \in {"request", "load"}
    /\ timer = 0
    /\ left = 0
    /\ pc' = "lost"
    /\ UNCHANGED <<half, latency, left, timer, answers, silent>>

\* supervise_execution() sleeps when the handler starts, and after every answer.
Sleep ==
    /\ pc = "loaded" \/ (pc = "reply" /\ answers = 2)
    /\ timer = 0
    /\ pc' = "sleeping"
    /\ timer' = Interval
    /\ UNCHANGED <<half, latency, left, answers, silent>>

Wake ==
    /\ pc = "sleeping"
    /\ timer = 0
    /\ Send("request")
    /\ UNCHANGED <<half, latency, left, answers, silent>>

CadenceNext ==
    \/ Tick \/ FirstRequest \/ Ask \/ RequestContext \/ LoadContext \/ Lose
    \/ Sleep \/ Wake

CadenceSpec == CadenceInit /\ [][CadenceNext]_cadenceVars

-----------------------------------------------------------------------------
(* Properties.                                                             *)

\* The variables have their types.
CadenceTypeOK ==
    /\ half \in HalfLeases
    /\ latency \in Latencies
    /\ left \in 0 .. Lease
    /\ pc \in {"claimed", "request", "reply", "load", "loaded", "sleeping", "lost"}
    /\ timer \in Nat
    /\ answers \in 0 .. 2
    /\ silent \in Nat

\* For leases up to two seconds the six messages from the claim to the second
\* supervise_run() together are faster than half of the lease.  For longer ones
\* four messages are, and an interval of a second with its two messages fits in
\* the half that is left when the renewal window opens.
InTime ==
    IF half <= Second THEN 6 * latency < half
    ELSE 4 * latency < half /\ Second + 2 * latency <= half

\* A live worker never loses its lease: if messages are that fast, the cadence
\* finds every renewal window open before the lease runs out, whatever the
\* lease duration and whenever the first observation happened.
LeaseKept == InTime => left > 0 /\ pc # "lost"

\* Cancellation is noticed soon: a deadline or a cancel_task() the database
\* knows of is answered within a second of the previous observation, plus the
\* messages between ("one-second cancellation responsiveness").  These are two,
\* but four after the first observation, which the load of the context follows.
ObservedEverySecond ==
    silent <= Second + (IF answers = 2 THEN 2 ELSE 4) * latency
=============================================================================
