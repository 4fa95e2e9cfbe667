---------------------------- MODULE StedaContext ----------------------------
(***************************************************************************)
(* TaskContext (src/context.rs): the durable steps and sleeps of a handler *)
(* over the rows of StedaQueue.  A handler may run several futures on      *)
(* clones of its context, which share one checkpoint cache and one lock    *)
(* per checkpoint name.  A context outlives its claim: a worker that is    *)
(* slow, or a clone moved to another task of the runtime, goes on with it  *)
(* while another worker has already loaded a context for the same task.    *)
(***************************************************************************)
EXTENDS StedaQueue

CONSTANTS
    Futures,     \* futures of one attempt that use its context
    NoFuture,    \* a lock nobody holds
    SleepNames,  \* the checkpoint names in the namespace of sleeps
    Reread,      \* [Values -> Values]: a step's output after its JSON round trip
    MaxNames     \* bound: checkpoint names in use at a time

ASSUME ContextAssumption ==
    /\ NoFuture \notin Futures
    /\ SleepNames \subseteq Steps
    /\ Reread \in [Values -> Values]
    /\ 0 .. MaxWake \subseteq Values
    /\ MaxNames \in Nat

VARIABLES
    ctx,       \* [Workers -> context]: one execution slot per worker
    fut,       \* [Workers -> [Futures -> future]]
    returned   \* [Tasks -> [Steps -> SUBSET Values]]: what handlers were given

ctxVars == <<ctx, fut, returned>>
contextVars == <<tasks, now, ctx, fut, returned>>

StepNames == Steps \ SleepNames

NoContext == [open |-> FALSE]

Context ==
    [open : {TRUE}, task : Tasks, attempt : Attempts,
     cache : [Steps -> Values \cup {NoValue}],
     locks : [Steps -> Futures \cup {NoFuture}]]

\* Where a future stands: waiting for the name's lock, running the body of its
\* step, before set_task_checkpoint_state() or before schedule_run().
Resting == [pc |-> "resting"]

Future ==
    [pc : {"waiting", "body", "persisting", "scheduling"}, step : Steps,
     value : Values \cup {NoValue}]

ContextInit ==
    /\ Init
    /\ ctx = [w \in Workers |-> NoContext]
    /\ fut = [w \in Workers |-> [f \in Futures |-> Resting]]
    /\ returned = [t \in Tasks |-> [s \in Steps |-> {}]]

Fence(w) == LockRunningAttempt(tasks[ctx[w].task], ctx[w].attempt, FALSE, now)

-----------------------------------------------------------------------------
(* Contexts.                                                               *)

\* TaskContext::new(): the cache is what get_task_checkpoint_states() returns.
NewContext(w, t) ==
    /\ ctx[w] = NoContext
    /\ Current(tasks[t]).claimed_by = w
    /\ Fenced(t, tasks[t].last)
    /\ ctx' = [ctx EXCEPT ![w] = [open |-> TRUE, task |-> t, attempt |-> tasks[t].last,
                                  cache |-> tasks[t].checkpoints,
                                  locks |-> [s \in Steps |-> NoFuture]]]
    /\ UNCHANGED <<vars, fut, returned>>

\* The last clone of the context goes, after the claim it was made for.
DropContext(w) ==
    /\ ctx[w].open
    /\ Current(tasks[ctx[w].task]).claimed_by # w
    /\ ctx' = [ctx EXCEPT ![w] = NoContext]
    /\ fut' = [fut EXCEPT ![w] = [f \in Futures |-> Resting]]
    /\ UNCHANGED <<vars, returned>>

-----------------------------------------------------------------------------
(* How a call of a future goes on.                                         *)

Proceed(w, f, pc, value) ==
    /\ fut' = [fut EXCEPT ![w][f] = [@ EXCEPT !.pc = pc, !.value = value]]
    /\ UNCHANGED returned

\* The call returns and its guard releases the lock of the name.
Leave(w, f, locks) ==
    /\ fut' = [fut EXCEPT ![w][f] = Resting]
    /\ ctx' = [ctx EXCEPT ![w].locks = locks]

Unlocked(w, f) ==
    [s \in Steps |-> IF ctx[w].locks[s] = f THEN NoFuture ELSE ctx[w].locks[s]]

Give(t, step, value) == returned' = [returned EXCEPT ![t][step] = @ \cup {value}]

\* Err: the handler gets no value.
ReturnError(w, f) == Leave(w, f, Unlocked(w, f)) /\ UNCHANGED returned

-----------------------------------------------------------------------------
(* TaskContext::step() and TaskContext::sleep_until().                     *)

\* Names that futures are calling or that have a checkpoint.
InUse ==
    { s \in Steps :
        \/ \E w \in Workers, f \in Futures : fut[w][f] # Resting /\ fut[w][f].step = s
        \/ \E t \in Tasks : Live(tasks[t]) /\ tasks[t].checkpoints[s] # NoValue }

Begin(w, f, step, value) ==
    /\ ctx[w].open
    /\ fut[w][f] = Resting
    /\ Cardinality(InUse \cup {step}) <= MaxNames
    /\ fut' = [fut EXCEPT ![w][f] = [pc |-> "waiting", step |-> step, value |-> value]]
    /\ UNCHANGED <<vars, ctx, returned>>

\* A future calls step(), or sleep_until() with a wake time; sleep_for() asks
\* the database for its clock and adds the duration.
BeginStep(w, f, step) == Begin(w, f, step, NoValue)

BeginSleep(w, f, sleep, wake) == Begin(w, f, sleep, wake)

\* Mutant: the future does not wait for the lock.
EntersUnserialized(w, f) == fut[w][f].pc = "waiting"

\* checkpoint_lock(name).lock(), then cached_checkpoint(name).
HasLock(w, f) ==
    /\ fut[w][f].pc = "waiting"
    /\ ctx[w].locks[fut[w][f].step] = NoFuture

Locked(w, f) == [ctx[w].locks EXCEPT ![fut[w][f].step] = f]

ReplayStep(w, f) ==
    LET step == fut[w][f].step
        cached == ctx[w].cache[step]
    IN  /\ HasLock(w, f)
        /\ step \in StepNames
        /\ cached # NoValue
        /\ Leave(w, f, ctx[w].locks)
        /\ Give(ctx[w].task, step, Reread[cached])
        /\ UNCHANGED vars

EnterStep(w, f) ==
    LET step == fut[w][f].step
    IN  /\ HasLock(w, f)
        /\ step \in StepNames
        /\ ctx[w].cache[step] = NoValue
        /\ Proceed(w, f, "body", NoValue)
        /\ ctx' = [ctx EXCEPT ![w].locks = Locked(w, f)]
        /\ UNCHANGED vars

\* Mutant: a replayed sleep takes the wake time of this call.
EnterSleepAfresh(w, f) ==
    LET sleep == fut[w][f].step
    IN  /\ HasLock(w, f)
        /\ sleep \in SleepNames
        /\ Proceed(w, f, IF ctx[w].cache[sleep] = NoValue THEN "persisting" ELSE "scheduling",
                   fut[w][f].value)
        /\ ctx' = [ctx EXCEPT ![w].locks = Locked(w, f)]
        /\ UNCHANGED vars

EnterSleep(w, f) ==
    LET sleep == fut[w][f].step
        cached == ctx[w].cache[sleep]
    IN  /\ HasLock(w, f)
        /\ sleep \in SleepNames
        /\ IF cached # NoValue
           THEN Proceed(w, f, "scheduling", cached)
           ELSE Proceed(w, f, "persisting", fut[w][f].value)
        /\ ctx' = [ctx EXCEPT ![w].locks = Locked(w, f)]
        /\ UNCHANGED vars

\* The body of a step may do anything: it returns some value or an error.
BodyReturns(w, f, value) ==
    /\ fut[w][f].pc = "body"
    /\ Proceed(w, f, "persisting", value)
    /\ UNCHANGED <<vars, ctx>>

BodyFails(w, f) ==
    /\ fut[w][f].pc = "body"
    /\ ReturnError(w, f)
    /\ UNCHANGED vars

\* set_task_checkpoint_state(): what it stores, or finds stored.
Admitted(w) == Fence(w) = "ok" /\ ~CancellationDue(tasks[ctx[w].task], now)

Stored(w, f) ==
    LET found == tasks[ctx[w].task].checkpoints[fut[w][f].step]
    IN  IF found = NoValue THEN fut[w][f].value ELSE found

Written(w, f) == tasks[ctx[w].task].checkpoints[fut[w][f].step] = NoValue

WriteCheckpoint(w, f) ==
    IF Written(w, f)
    THEN SetCheckpoint(ctx[w].task, ctx[w].attempt, fut[w][f].step, fut[w][f].value)
    ELSE UNCHANGED vars

\* Mutant: the cache keeps the value of this call.
CachedOwn(w, f) == [ctx[w].cache EXCEPT ![fut[w][f].step] = fut[w][f].value]

\* cache_checkpoint() with the state the database returned.
Cached(w, f) == [ctx[w].cache EXCEPT ![fut[w][f].step] = Stored(w, f)]

\* Mutant: the call returns its own value whatever was stored.
OwnOutput(w, f) == fut[w][f].value

\* The caller's own value if it was written, the decoded stored one if not.
Output(w, f) == IF Written(w, f) THEN fut[w][f].value ELSE Reread[Stored(w, f)]

PersistStep(w, f) ==
    /\ fut[w][f].pc = "persisting"
    /\ fut[w][f].step \in StepNames
    /\ Admitted(w)
    /\ WriteCheckpoint(w, f)
    /\ fut' = [fut EXCEPT ![w][f] = Resting]
    /\ ctx' = [ctx EXCEPT ![w].locks = Unlocked(w, f), ![w].cache = Cached(w, f)]
    /\ Give(ctx[w].task, fut[w][f].step, Output(w, f))

PersistSleep(w, f) ==
    /\ fut[w][f].pc = "persisting"
    /\ fut[w][f].step \in SleepNames
    /\ Admitted(w)
    /\ WriteCheckpoint(w, f)
    /\ Proceed(w, f, "scheduling", Stored(w, f))
    /\ ctx' = [ctx EXCEPT ![w].cache = Cached(w, f)]

PersistRefused(w, f) ==
    /\ fut[w][f].pc = "persisting"
    /\ ~Admitted(w)
    /\ ReturnError(w, f)
    /\ UNCHANGED vars

\* The write commits, but its future is dropped or its connection breaks before
\* the reply: the cache of this context never learns of it.
PersistUnseen(w, f) ==
    /\ fut[w][f].pc = "persisting"
    /\ Admitted(w)
    /\ WriteCheckpoint(w, f)
    /\ ReturnError(w, f)

\* schedule_run(): ready, suspended or cancelled; only ready returns Ok.
Schedule(w, f) ==
    LET t == ctx[w].task
        a == ctx[w].attempt
    IN  /\ fut[w][f].pc = "scheduling"
        /\ IF Fence(w) = "ok" THEN ScheduleRun(t, a, fut[w][f].value) ELSE UNCHANGED vars
        /\ Leave(w, f, Unlocked(w, f))
        /\ IF Fence(w) = "ok" /\ tasks'[t].state = "running"
           THEN Give(t, fut[w][f].step, fut[w][f].value)
           ELSE UNCHANGED returned

\* The handler drops a call it no longer waits for (select!, a timeout).
DropFuture(w, f) ==
    /\ fut[w][f] # Resting
    /\ ReturnError(w, f)
    /\ UNCHANGED vars

ContextCall(w, f) ==
    \/ \E step \in StepNames : BeginStep(w, f, step)
    \/ \E sleep \in SleepNames, wake \in 0 .. MaxWake : BeginSleep(w, f, sleep, wake)
    \/ ReplayStep(w, f)
    \/ EnterStep(w, f)
    \/ EnterSleep(w, f)
    \/ \E value \in Values : BodyReturns(w, f, value)
    \/ BodyFails(w, f)
    \/ PersistStep(w, f)
    \/ PersistSleep(w, f)
    \/ PersistRefused(w, f)
    \/ PersistUnseen(w, f)
    \/ Schedule(w, f)
    \/ DropFuture(w, f)

-----------------------------------------------------------------------------
\* Submission, claims by idle workers, the end of attempts, and time.
Surroundings ==
    /\ \/ \E t \in Tasks, req \in Requests : SpawnTask(t, req)
       \/ \E w \in Workers : ctx[w] = NoContext /\ ClaimTasks(w, Names, 1)
       \/ \E w \in Workers : ctx[w].open /\ FailRun(ctx[w].task, ctx[w].attempt)
       \/ \E w \in Workers : ctx[w].open /\ CompleteRun(ctx[w].task, ctx[w].attempt)
       \/ Tick
    /\ UNCHANGED ctxVars

ContextNext ==
    \/ \E w \in Workers, t \in Tasks : NewContext(w, t)
    \/ \E w \in Workers : DropContext(w)
    \/ \E w \in Workers, f \in Futures : ContextCall(w, f)
    \/ Surroundings

ContextSpec == ContextInit /\ [][ContextNext]_contextVars

-----------------------------------------------------------------------------
(* Properties.                                                             *)

\* Contexts, futures and the history of returned values have their shapes.
ContextTypeOK ==
    /\ TypeOK
    /\ ctx \in [Workers -> Context \cup {NoContext}]
    /\ fut \in [Workers -> [Futures -> Future \cup {Resting}]]
    /\ returned \in [Tasks -> [Steps -> SUBSET Values]]

\* Whatever attempt, worker or future asks for a step, and however often its
\* body ran, every value handlers were given is the committed one, as it was
\* committed or after the JSON round trip a replay adds: "Reusing the same step
\* returns the committed value instead of executing `f` again"
\* (TaskContext::step).
StepsAgree ==
    \A t \in Tasks, s \in StepNames : \A v \in returned[t][s] :
        LET committed == tasks[t].checkpoints[s]
        IN  Live(tasks[t]) => committed # NoValue /\ v \in {committed, Reread[committed]}

\* A cached checkpoint is the committed one, in the context of the current
\* owner and in the context of every worker that lost its claim.
CacheCoherent ==
    /\ ContextTypeOK
    /\ \A w \in Workers, s \in Steps :
         ctx[w].open /\ ctx[w].cache[s] # NoValue /\ Live(tasks[ctx[w].task])
            => ctx[w].cache[s] = tasks[ctx[w].task].checkpoints[s]

\* The futures of one attempt never run the body of one step side by side:
\* "Cloned contexts serialize execution of the same step locally".
BodiesSerialized ==
    \A w \in Workers, f, g \in Futures :
        /\ f # g
        /\ fut[w][f].pc \in {"body", "persisting"}
        /\ fut[w][g].pc \in {"body", "persisting"}
        => fut[w][f].step # fut[w][g].step

\* The run a failed attempt inserted waits for its backoff.
BackingOff(r) ==
    /\ r.last > 1
    /\ Current(r).available_at = r.runs[r.last - 1].ended_at + r.req.delay[r.last - 1]

\* A sleep ends at the wake time its first call committed and not before:
\* replays "use that committed time even if subsequent handler invocations pass
\* a different wake_at" (TaskContext::sleep_until), and a suspended run waits
\* for a committed time unless it is a retry that waits for its backoff.
SleepKeepsItsTime ==
    \A t \in Tasks : Live(tasks[t]) =>
        /\ \A s \in SleepNames : \A v \in returned[t][s] :
             v = tasks[t].checkpoints[s] /\ v <= now
        /\ tasks[t].state = "sleeping" =>
             \/ \E s \in SleepNames : Current(tasks[t]).available_at = tasks[t].checkpoints[s]
             \/ BackingOff(tasks[t])
=============================================================================
