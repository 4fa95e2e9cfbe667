-------------------------- MODULE StedaContextProofs ------------------------
(***************************************************************************)
(* Theorems about StedaContext for every number of workers, futures,       *)
(* checkpoint names and values, and every JSON round trip.                 *)
(*                                                                         *)
(* The context of a worker that lost its claim goes on beside the context  *)
(* of its successor.  What ties them together is the rows: a checkpoint    *)
(* that is committed stays, so a cache that was right is right for ever,   *)
(* and what a future read before it waited is what it finds after.  Inside *)
(* one context it is the lock of a name.                                   *)
(***************************************************************************)
EXTENDS StedaContext, StedaQueueProofs

\* What a future x that is not resting knows, in the context c of a task with
\* row r: it holds the lock of its name once it waited for it, and the wake time
\* it is about to schedule is the committed one.
GoodFuture(x, f, c, r) ==
    x # Resting =>
        /\ c \in Context /\ x \in Future
        /\ x.pc # "waiting" => c.locks[x.step] = f
        /\ x.step \in SleepNames => x.pc # "body" /\ x.value \in 0 .. MaxWake
        /\ x.step \notin SleepNames => x.pc # "scheduling"
        /\ x.pc = "persisting" => x.value \in Values
        /\ x.pc = "scheduling" /\ Live(r) => x.value = r.checkpoints[x.step]

\* A cache holds committed values of a task that was submitted.
GoodCache(c, r) ==
    c \in Context =>
        /\ r.state # "absent"
        /\ \A s \in Steps : c.cache[s] # NoValue /\ Live(r) => c.cache[s] = r.checkpoints[s]
        /\ \A s \in SleepNames : c.cache[s] \in (0 .. MaxWake) \cup {NoValue}

\* What a handler was given is the committed value; a sleep gave it in time.
GoodGift(r, s, v, at) ==
    /\ r.state # "absent"
    /\ Live(r) =>
         /\ r.checkpoints[s] # NoValue
         /\ s \in StepNames => v \in {r.checkpoints[s], Reread[r.checkpoints[s]]}
         /\ s \in SleepNames => v = r.checkpoints[s] /\ v <= at

\* The rows: sleeps are wake times, and a suspended run waits for one.
GoodRow(r) ==
    /\ \A s \in SleepNames : r.checkpoints[s] \in (0 .. MaxWake) \cup {NoValue}
    /\ r.state = "sleeping" =>
         \/ \E s \in SleepNames : Current(r).available_at = r.checkpoints[s]
         \/ BackingOff(r)

RowsGood == \A t \in Tasks : GoodRow(tasks[t])

CachesGood == \A w \in Workers : GoodCache(ctx[w], tasks[ctx[w].task])

FuturesGood ==
    \A w \in Workers, f \in Futures : GoodFuture(fut[w][f], f, ctx[w], tasks[ctx[w].task])

GiftsGood ==
    \A t \in Tasks, s \in Steps : \A v \in returned[t][s] : GoodGift(tasks[t], s, v, now)

ContextInv == BareInv /\ ContextTypeOK /\ RowsGood /\ CachesGood /\ FuturesGood /\ GiftsGood

-----------------------------------------------------------------------------
(* Types.                                                                  *)

\* A context that is open is a record of Context, and only such a one is.
LEMMA OpenContext ==
    ASSUME ContextTypeOK, NEW w \in Workers
    PROVE  /\ ctx[w].open => ctx[w] \in Context
           /\ ctx[w] \in Context => /\ ctx[w].open
                                    /\ ctx[w] # NoContext
                                    /\ ctx[w].task \in Tasks
                                    /\ ctx[w].attempt \in Attempts
                                    /\ ctx[w].cache \in [Steps -> Values \cup {NoValue}]
                                    /\ ctx[w].locks \in [Steps -> Futures \cup {NoFuture}]
           /\ ctx[w] # NoContext => ctx[w] \in Context
<1>1. ctx[w] \in Context \cup {NoContext}
  BY DEF ContextTypeOK
<1>2. NoContext.open = FALSE
  BY DEF NoContext
<1>3. \A c \in Context : /\ c.open = TRUE /\ c.task \in Tasks /\ c.attempt \in Attempts
                         /\ c.cache \in [Steps -> Values \cup {NoValue}]
                         /\ c.locks \in [Steps -> Futures \cup {NoFuture}]
  BY DEF Context
<1>. QED BY <1>1, <1>2, <1>3, Zenon

\* A future that calls something has a name and a value, and its program counter
\* tells it from one that rests.
LEMMA FutureTyped ==
    ASSUME ContextTypeOK, NEW w \in Workers, NEW f \in Futures
    PROVE  /\ fut[w][f] # Resting => fut[w][f] \in Future /\ fut[w][f].step \in Steps
           /\ fut[w][f].pc \in {"waiting", "body", "persisting", "scheduling"}
                => fut[w][f] # Resting
<1>1. fut[w][f] \in Future \cup {Resting}
  BY DEF ContextTypeOK
<1>. QED BY <1>1 DEF Future, Resting

\* The part of the fence a context relies on.
LEMMA FenceOwned ==
    ASSUME ContextInv, NEW w \in Workers, ctx[w] \in Context, Fence(w) = "ok"
    PROVE  /\ Fenced(ctx[w].task, ctx[w].attempt)
           /\ Owned(tasks[ctx[w].task], ctx[w].attempt)
           /\ Live(tasks[ctx[w].task])
<1>1. ContextTypeOK /\ TypeOK
  BY DEF ContextInv, ContextTypeOK
<1>2. ctx[w].task \in Tasks /\ ctx[w].attempt \in Attempts
  BY <1>1, OpenContext
<1>3. Fenced(ctx[w].task, ctx[w].attempt)
  BY DEF Fence, Fenced
<1>. QED BY <1>1, <1>2, <1>3, FencedOwned DEF Owned, Live

-----------------------------------------------------------------------------
(* What the small steps do to the context and to the future that takes     *)
(* them.                                                                   *)

\* The other contexts and the other futures stay as they are.
Alone(w, f) ==
    /\ fut' = [v \in Workers |-> [g \in Futures |-> fut'[v][g]]]
    /\ \A v \in Workers \ {w} : fut'[v] = fut[v]
    /\ \A g \in Futures \ {f} : fut'[w][g] = fut[w][g]

CtxAlone(w) ==
    /\ ctx' = [v \in Workers |-> ctx'[v]]
    /\ \A v \in Workers \ {w} : ctx'[v] = ctx[v]

\* A future goes on with another program counter and value.
LEMMA ProceedEffect ==
    ASSUME ContextTypeOK, NEW w \in Workers, NEW f \in Futures, fut[w][f] \in Future,
           NEW pc, NEW value, Proceed(w, f, pc, value)
    PROVE  /\ fut'[w][f] = [pc |-> pc, step |-> fut[w][f].step, value |-> value]
           /\ Alone(w, f)
<1>1. [fut[w][f] EXCEPT !.pc = pc, !.value = value]
        = [pc |-> pc, step |-> fut[w][f].step, value |-> value]
  <2>. DEFINE x == fut[w][f]
              mid == [x EXCEPT !.pc = pc]
  <2>1. mid = [pc |-> pc, step |-> x.step, value |-> x.value]
    <3>. HIDE DEF x
    <3>1. x = [pc |-> x.pc, step |-> x.step, value |-> x.value]
      BY DEF Future, x
    <3>. QED BY <3>1
  <2>2. [x EXCEPT !.pc = pc, !.value = value] = [mid EXCEPT !.value = value]
    OBVIOUS
  <2>3. [mid EXCEPT !.value = value] = [pc |-> pc, step |-> x.step, value |-> value]
    <3>. HIDE DEF mid
    <3>. QED BY <2>1
  <2>. QED BY <2>2, <2>3
<1>. QED BY <1>1 DEF Proceed, ContextTypeOK, Alone

\* A future comes to rest.
LEMMA RestEffect ==
    ASSUME ContextTypeOK, NEW w \in Workers, NEW f \in Futures,
           fut' = [fut EXCEPT ![w][f] = Resting]
    PROVE  fut'[w][f] = Resting /\ Alone(w, f)
BY DEF ContextTypeOK, Alone

\* A context gets other locks, another cache, or both.
Rewritten(w, L, C) ==
    \/ ctx' = [ctx EXCEPT ![w].locks = L] /\ C = ctx[w].cache
    \/ ctx' = [ctx EXCEPT ![w].cache = C] /\ L = ctx[w].locks
    \/ ctx' = [ctx EXCEPT ![w].locks = L, ![w].cache = C]
    \/ ctx' = ctx /\ C = ctx[w].cache /\ L = ctx[w].locks

\* Nothing else of it changes, and no other context does.
LEMMA ContextEffect ==
    ASSUME ContextTypeOK, NEW w \in Workers, ctx[w] \in Context,
           NEW L \in [Steps -> Futures \cup {NoFuture}],
           NEW C \in [Steps -> Values \cup {NoValue}],
           Rewritten(w, L, C)
    PROVE  /\ ctx'[w] \in Context /\ ctx'[w].task = ctx[w].task
           /\ ctx'[w].attempt = ctx[w].attempt
           /\ ctx'[w].locks = L /\ ctx'[w].cache = C /\ CtxAlone(w)
<1>. USE DEF ContextTypeOK, CtxAlone
<1>1. CASE ctx' = [ctx EXCEPT ![w].locks = L] /\ C = ctx[w].cache
  BY <1>1 DEF Context
<1>2. CASE ctx' = [ctx EXCEPT ![w].cache = C] /\ L = ctx[w].locks
  BY <1>2 DEF Context
<1>3. CASE ctx' = [ctx EXCEPT ![w].locks = L, ![w].cache = C]
  <2>. DEFINE mid == [ctx EXCEPT ![w].locks = L]
  <2>1. /\ mid[w] \in Context /\ mid[w].task = ctx[w].task /\ mid[w].attempt = ctx[w].attempt
        /\ mid[w].locks = L /\ \A v \in Workers \ {w} : mid[v] = ctx[v]
        /\ DOMAIN mid = Workers
    BY DEF Context
  <2>2. ctx' = [mid EXCEPT ![w].cache = C]
    BY <1>3
  <2>3. mid = [v \in Workers |-> mid[v]]
    OBVIOUS
  <2>. HIDE DEF mid
  <2>. QED BY <2>1, <2>2, <2>3 DEF Context
<1>4. CASE ctx' = ctx /\ C = ctx[w].cache /\ L = ctx[w].locks
  BY <1>4
<1>. QED BY <1>1, <1>2, <1>3, <1>4 DEF Rewritten

\* Releasing the locks of one future keeps those of the others.
LEMMA UnlockedFact ==
    ASSUME ContextTypeOK, NEW w \in Workers, NEW f \in Futures, ctx[w] \in Context
    PROVE  /\ Unlocked(w, f) \in [Steps -> Futures \cup {NoFuture}]
           /\ \A s \in Steps : ctx[w].locks[s] # f => Unlocked(w, f)[s] = ctx[w].locks[s]
BY OpenContext DEF Unlocked

\* Taking the lock of a name that nobody holds keeps the other locks.
LEMMA LockedFact ==
    ASSUME ContextTypeOK, NEW w \in Workers, NEW f \in Futures, ctx[w] \in Context,
           HasLock(w, f)
    PROVE  /\ Locked(w, f) \in [Steps -> Futures \cup {NoFuture}]
           /\ Locked(w, f)[fut[w][f].step] = f
           /\ \A s \in Steps : ctx[w].locks[s] \notin {f, NoFuture}
                => Locked(w, f)[s] = ctx[w].locks[s]
<1>1. fut[w][f].step \in Steps /\ ctx[w].locks \in [Steps -> Futures \cup {NoFuture}]
  BY OpenContext, FutureTyped DEF HasLock
<1>. QED BY <1>1 DEF Locked, HasLock

-----------------------------------------------------------------------------
(* The calls of a context are calls of the queue.                          *)

\* What is known of a future that is about to store or to schedule.
LEMMA FutureFacts ==
    ASSUME ContextInv, NEW w \in Workers, NEW f \in Futures, fut[w][f] # Resting
    PROVE  /\ ContextTypeOK /\ TypeOK /\ ctx[w] \in Context /\ fut[w][f] \in Future
           /\ ctx[w].task \in Tasks /\ ctx[w].attempt \in Attempts
           /\ fut[w][f].step \in Steps
           /\ tasks[ctx[w].task] \in Row /\ GoodRow(tasks[ctx[w].task])
           /\ GoodCache(ctx[w], tasks[ctx[w].task])
           /\ GoodFuture(fut[w][f], f, ctx[w], tasks[ctx[w].task])
<1>1. ContextTypeOK /\ TypeOK /\ GoodFuture(fut[w][f], f, ctx[w], tasks[ctx[w].task])
  BY DEF ContextInv, ContextTypeOK, FuturesGood
<1>2. ctx[w] \in Context
  BY <1>1 DEF GoodFuture
<1>3. ctx[w].task \in Tasks /\ ctx[w].attempt \in Attempts
  BY <1>1, <1>2, OpenContext
<1>. QED BY <1>1, <1>2, <1>3, FutureTyped DEF ContextInv, RowsGood, CachesGood, TypeOK

\* set_task_checkpoint_state(): afterwards the row has what the call stored.
LEMMA WriteEffect ==
    ASSUME ContextInv, NEW w \in Workers, NEW f \in Futures, fut[w][f].pc = "persisting",
           Admitted(w), WriteCheckpoint(w, f)
    PROVE  LET t == ctx[w].task
               step == fut[w][f].step
           IN  /\ [Next]_vars /\ now' = now
               /\ tasks[t].state = "running" /\ tasks'[t].state = "running"
               /\ tasks'[t].checkpoints[step] = Stored(w, f)
               /\ Stored(w, f) \in Values /\ Stored(w, f) # NoValue
               /\ step \in SleepNames => Stored(w, f) \in 0 .. MaxWake
               /\ Written(w, f) => Stored(w, f) = fut[w][f].value
<1>. DEFINE t == ctx[w].task
            step == fut[w][f].step
            value == fut[w][f].value
<1>1. fut[w][f] # Resting
  BY DEF Resting
<1>2. /\ TypeOK /\ ctx[w] \in Context /\ t \in Tasks /\ ctx[w].attempt \in Attempts
      /\ step \in Steps /\ tasks[t] \in Row /\ value \in Values
      /\ step \in SleepNames => value \in 0 .. MaxWake
      /\ step \in SleepNames => tasks[t].checkpoints[step] \in (0 .. MaxWake) \cup {NoValue}
  BY <1>1, FutureFacts DEF GoodRow, GoodFuture
<1>3. tasks[t].state = "running"
  BY <1>2, FenceOwned DEF Admitted, Owned
<1>4. tasks[t].checkpoints[step] \in Values \cup {NoValue}
  BY <1>2 DEF Row
<1>5. CASE Written(w, f)
  <2>1. SetCheckpoint(t, ctx[w].attempt, step, value)
    BY <1>5 DEF WriteCheckpoint
  <2>2. tasks' = [tasks EXCEPT ![t] = Checkpointed(tasks[t], step, value)] /\ now' = now
    BY <2>1 DEF SetCheckpoint, Update, Checkpointed
  <2>3. tasks'[t] = Checkpointed(tasks[t], step, value)
    BY <1>2, <2>2 DEF TypeOK
  <2>4. tasks'[t].state = tasks[t].state /\ tasks'[t].checkpoints[step] = value
    BY <1>2, <2>3, CheckpointedFields
  <2>5. Stored(w, f) = value /\ value # NoValue
    BY <1>2, <1>5, ValuesAssumption DEF Stored, Written
  <2>6. Next
    BY <1>2, <2>1 DEF Next
  <2>. QED BY <1>2, <1>3, <2>2, <2>4, <2>5, <2>6
<1>6. CASE ~Written(w, f)
  <2>1. tasks' = tasks /\ now' = now
    BY <1>6 DEF WriteCheckpoint, vars
  <2>2. Stored(w, f) = tasks[t].checkpoints[step] /\ tasks[t].checkpoints[step] # NoValue
    BY <1>6 DEF Stored, Written
  <2>. QED BY <1>2, <1>3, <1>4, <1>6, <2>1, <2>2 DEF vars
<1>. QED BY <1>5, <1>6

\* schedule_run() through a context, with a committed wake time.
LEMMA ScheduleIsNext ==
    ASSUME ContextInv, NEW w \in Workers, NEW f \in Futures, Schedule(w, f)
    PROVE  /\ fut[w][f] # Resting /\ fut[w][f].step \in SleepNames
           /\ fut[w][f].value \in 0 .. MaxWake /\ [Next]_vars /\ now' = now
<1>1. fut[w][f] # Resting /\ fut[w][f].pc = "scheduling"
  BY DEF Schedule, Resting
<1>2. fut[w][f].step \in SleepNames /\ fut[w][f].value \in 0 .. MaxWake
  BY <1>1, FutureFacts DEF GoodFuture
<1>3. [Next]_vars /\ now' = now
  BY <1>1, <1>2, FutureFacts DEF Schedule, ScheduleRun, vars, Next
<1>. QED BY <1>1, <1>2, <1>3

\* Every step of the contexts and their surroundings is a step of the queue.
LEMMA ContextIsNext ==
    ASSUME ContextInv, [ContextNext]_contextVars
    PROVE  [Next]_vars /\ now' \in {now, now + 1}
<1>1. ASSUME NEW w \in Workers, NEW f \in Futures, ContextCall(w, f)
      PROVE  [Next]_vars /\ now' = now
  <2>1. ASSUME PersistStep(w, f) \/ PersistSleep(w, f) \/ PersistUnseen(w, f)
        PROVE  [Next]_vars /\ now' = now
    BY <2>1, WriteEffect DEF PersistStep, PersistSleep, PersistUnseen
  <2>2. ASSUME \/ \E step \in StepNames : BeginStep(w, f, step)
               \/ \E sleep \in SleepNames, wake \in 0 .. MaxWake : BeginSleep(w, f, sleep, wake)
               \/ ReplayStep(w, f) \/ EnterStep(w, f) \/ EnterSleep(w, f)
               \/ \E value \in Values : BodyReturns(w, f, value)
               \/ BodyFails(w, f) \/ PersistRefused(w, f) \/ DropFuture(w, f)
        PROVE  UNCHANGED vars
    BY <2>2 DEF BeginStep, BeginSleep, Begin, ReplayStep, EnterStep, EnterSleep, BodyReturns,
                BodyFails, PersistRefused, DropFuture
  <2>. QED BY <1>1, <2>1, <2>2, ScheduleIsNext DEF ContextCall, vars
<1>2. ASSUME Surroundings
      PROVE  Next /\ now' \in {now, now + 1}
  <2>1. ASSUME NEW w \in Workers, ctx[w].open
        PROVE  ctx[w].task \in Tasks /\ ctx[w].attempt \in Attempts
    BY <2>1, OpenContext DEF ContextInv
  <2>2. ASSUME NEW w \in Workers, ctx[w].open,
               FailRun(ctx[w].task, ctx[w].attempt) \/ CompleteRun(ctx[w].task, ctx[w].attempt)
        PROVE  Next /\ now' = now
    BY <2>1, <2>2 DEF Next, FailRun, CompleteRun
  <2>3. ASSUME NEW w \in Workers, ClaimTasks(w, Names, 1)
        PROVE  Next /\ now' = now
    BY <2>3, NamesInhabited DEF Next, ClaimTasks
  <2>4. ASSUME NEW t \in Tasks, NEW req \in Requests, SpawnTask(t, req)
        PROVE  Next /\ now' = now
    BY <2>4 DEF Next, SpawnTask
  <2>5. Tick => Next /\ now' = now + 1
    BY DEF Next, Tick
  <2>. QED BY <1>2, <2>2, <2>3, <2>4, <2>5 DEF Surroundings
<1>3. ASSUME \/ \E w \in Workers, t \in Tasks : NewContext(w, t)
             \/ \E w \in Workers : DropContext(w)
             \/ UNCHANGED contextVars
      PROVE  UNCHANGED vars
  BY <1>3 DEF NewContext, DropContext, contextVars, vars
<1>. QED BY <1>1, <1>2, <1>3 DEF ContextNext, vars

-----------------------------------------------------------------------------
(* What a call does to its context and to its future.                      *)

\* The call touches one future and one context of the same task, keeps the locks
\* of the other futures, caches what is committed, and leaves its own future
\* with what it needs for the next step.
Framed(w, f) ==
    LET t == ctx[w].task
    IN  /\ Alone(w, f) /\ CtxAlone(w)
        /\ ctx[w] \in Context /\ ctx'[w] \in Context /\ ctx'[w].task = t
        /\ fut'[w][f] \in Future \cup {Resting}
        /\ \A s \in Steps : ctx[w].locks[s] \notin {f, NoFuture}
             => ctx'[w].locks[s] = ctx[w].locks[s]
        /\ \A s \in Steps : \/ ctx'[w].cache[s] = ctx[w].cache[s]
                            \/ ctx'[w].cache[s] = tasks'[t].checkpoints[s]
        /\ GoodFuture(fut'[w][f], f, ctx'[w], tasks'[t])

\* A call that returns.
LEMMA RestFramed ==
    ASSUME ContextTypeOK, NEW w \in Workers, NEW f \in Futures, ctx[w] \in Context,
           NEW L \in [Steps -> Futures \cup {NoFuture}],
           \A s \in Steps : ctx[w].locks[s] \notin {f, NoFuture} => L[s] = ctx[w].locks[s],
           Leave(w, f, L)
    PROVE  Framed(w, f)
<1>1. ctx[w].cache \in [Steps -> Values \cup {NoValue}]
  BY OpenContext
<1>2. fut'[w][f] = Resting /\ Alone(w, f)
  BY RestEffect DEF Leave
<1>3. /\ ctx'[w] \in Context /\ ctx'[w].task = ctx[w].task
      /\ ctx'[w].locks = L /\ ctx'[w].cache = ctx[w].cache /\ CtxAlone(w)
  <2>1. Rewritten(w, L, ctx[w].cache)
    BY DEF Leave, Rewritten
  <2>. QED BY <1>1, <2>1, ContextEffect
<1>. QED BY <1>2, <1>3 DEF Framed, GoodFuture

\* A call that returns an error releases its locks.
LEMMA ErrorFramed ==
    ASSUME ContextInv, NEW w \in Workers, NEW f \in Futures, fut[w][f] # Resting,
           Leave(w, f, Unlocked(w, f))
    PROVE  Framed(w, f)
<1>1. ContextTypeOK /\ ctx[w] \in Context
  BY FutureFacts
<1>. QED BY <1>1, UnlockedFact, RestFramed

\* A call begins and waits for the lock of its name.
LEMMA BeginFramed ==
    ASSUME ContextInv, NEW w \in Workers, NEW f \in Futures, NEW step \in Steps,
           NEW value \in Values \cup {NoValue},
           step \in SleepNames => value \in 0 .. MaxWake,
           Begin(w, f, step, value)
    PROVE  Framed(w, f)
<1>. DEFINE new == [pc |-> "waiting", step |-> step, value |-> value]
<1>1. ContextTypeOK
  BY DEF ContextInv
<1>2. ctx[w] \in Context
  BY <1>1, OpenContext DEF Begin
<1>3. fut'[w][f] = new /\ Alone(w, f) /\ ctx' = ctx
  BY <1>1 DEF Begin, ContextTypeOK, Alone
<1>4. new \in Future /\ new.pc = "waiting" /\ new.step = step /\ new.value = value
  BY DEF Future
<1>5. CtxAlone(w)
  BY <1>1, <1>3 DEF CtxAlone, ContextTypeOK
<1>. HIDE DEF new
<1>. QED BY <1>2, <1>3, <1>4, <1>5 DEF Framed, GoodFuture

\* A call that goes on, under the lock of its name.
LEMMA ProceedFramed ==
    ASSUME ContextInv, NEW w \in Workers, NEW f \in Futures, fut[w][f] # Resting,
           NEW pc \in {"body", "persisting", "scheduling"}, NEW value \in Values \cup {NoValue},
           Proceed(w, f, pc, value),
           NEW L \in [Steps -> Futures \cup {NoFuture}],
           NEW C \in [Steps -> Values \cup {NoValue}],
           Rewritten(w, L, C),
           \A s \in Steps : ctx[w].locks[s] \notin {f, NoFuture} => L[s] = ctx[w].locks[s],
           L[fut[w][f].step] = f,
           \A s \in Steps : C[s] = ctx[w].cache[s] \/ C[s] = tasks'[ctx[w].task].checkpoints[s],
           fut[w][f].step \in SleepNames => pc # "body" /\ value \in 0 .. MaxWake,
           fut[w][f].step \notin SleepNames => pc # "scheduling",
           pc = "persisting" => value \in Values,
           pc = "scheduling" /\ Live(tasks'[ctx[w].task])
             => value = tasks'[ctx[w].task].checkpoints[fut[w][f].step]
    PROVE  Framed(w, f)
<1>. DEFINE step == fut[w][f].step
            new == [pc |-> pc, step |-> step, value |-> value]
<1>1. ContextTypeOK /\ ctx[w] \in Context /\ fut[w][f] \in Future /\ step \in Steps
  BY FutureFacts
<1>2. fut'[w][f] = new /\ Alone(w, f)
  BY <1>1, ProceedEffect
<1>3. /\ ctx'[w] \in Context /\ ctx'[w].task = ctx[w].task
      /\ ctx'[w].locks = L /\ ctx'[w].cache = C /\ CtxAlone(w)
  BY <1>1, ContextEffect
<1>4. new \in Future /\ new.pc = pc /\ new.step = step /\ new.value = value
  BY <1>1 DEF Future
<1>5. GoodFuture(new, f, ctx'[w], tasks'[ctx[w].task])
  <2>. HIDE DEF new
  <2>. QED BY <1>3, <1>4 DEF GoodFuture
<1>. HIDE DEF new
<1>. QED BY <1>1, <1>2, <1>3, <1>4, <1>5 DEF Framed

\* Every call of a future is framed.
LEMMA CallFramed ==
    ASSUME ContextInv, NEW w \in Workers, NEW f \in Futures, ContextCall(w, f)
    PROVE  Framed(w, f)
<1>. DEFINE x == fut[w][f]
            t == ctx[w].task
<1>1. ASSUME x # Resting
      PROVE  /\ ContextTypeOK /\ TypeOK /\ ctx[w] \in Context /\ x \in Future
             /\ t \in Tasks /\ x.step \in Steps /\ tasks[t] \in Row
             /\ GoodCache(ctx[w], tasks[t]) /\ GoodFuture(x, f, ctx[w], tasks[t])
             /\ ctx[w].cache \in [Steps -> Values \cup {NoValue}]
             /\ ctx[w].locks \in [Steps -> Futures \cup {NoFuture}]
  BY <1>1, FutureFacts, OpenContext
<1>2. HasLock(w, f) \/ x.pc \in {"body", "persisting", "scheduling"} => x # Resting
  BY DEF HasLock, Resting
<1>3. ASSUME NEW step \in StepNames, BeginStep(w, f, step)
      PROVE  Framed(w, f)
  BY <1>3, BeginFramed DEF BeginStep, StepNames
<1>4. ASSUME NEW sleep \in SleepNames, NEW wake \in 0 .. MaxWake, BeginSleep(w, f, sleep, wake)
      PROVE  Framed(w, f)
  BY <1>4, BeginFramed, ContextAssumption DEF BeginSleep
<1>5. CASE ReplayStep(w, f)
  BY <1>1, <1>2, <1>5, RestFramed DEF ReplayStep
<1>6. CASE EnterStep(w, f)
  <2>1. /\ HasLock(w, f) /\ x # Resting /\ Proceed(w, f, "body", NoValue)
        /\ Rewritten(w, Locked(w, f), ctx[w].cache) /\ x.step \notin SleepNames
    BY <1>2, <1>6 DEF EnterStep, StepNames, Rewritten
  <2>. QED BY <1>1, <2>1, LockedFact, ProceedFramed
<1>7. CASE EnterSleep(w, f)
  <2>. DEFINE cached == ctx[w].cache[x.step]
  <2>1. /\ HasLock(w, f) /\ x # Resting /\ x.step \in SleepNames /\ tasks' = tasks
        /\ Rewritten(w, Locked(w, f), ctx[w].cache)
        /\ \/ cached # NoValue /\ Proceed(w, f, "scheduling", cached)
           \/ Proceed(w, f, "persisting", x.value)
    BY <1>2, <1>7 DEF EnterSleep, vars, Rewritten
  <2>2. cached # NoValue => /\ cached \in 0 .. MaxWake /\ cached \in Values
                            /\ Live(tasks[t]) => cached = tasks[t].checkpoints[x.step]
    BY <1>1, <2>1, ContextAssumption DEF GoodCache
  <2>3. x.value \in 0 .. MaxWake /\ x.value \in Values
    BY <1>1, <2>1, ContextAssumption DEF GoodFuture
  <2>4. /\ Locked(w, f) \in [Steps -> Futures \cup {NoFuture}] /\ Locked(w, f)[x.step] = f
        /\ \A s \in Steps : ctx[w].locks[s] \notin {f, NoFuture}
             => Locked(w, f)[s] = ctx[w].locks[s]
    BY <1>1, <2>1, LockedFact
  <2>5. CASE cached # NoValue /\ Proceed(w, f, "scheduling", cached)
    <3>. HIDE DEF cached
    <3>. QED BY <1>1, <2>1, <2>2, <2>4, <2>5, ProceedFramed
  <2>6. CASE Proceed(w, f, "persisting", x.value)
    BY <1>1, <2>1, <2>3, <2>4, <2>6, ProceedFramed
  <2>. QED BY <2>1, <2>5, <2>6
<1>8. ASSUME NEW value \in Values, BodyReturns(w, f, value)
      PROVE  Framed(w, f)
  <2>1. x # Resting /\ x.pc = "body" /\ Proceed(w, f, "persisting", value)
          /\ Rewritten(w, ctx[w].locks, ctx[w].cache)
    BY <1>2, <1>8 DEF BodyReturns, Rewritten
  <2>2. x.step \notin SleepNames /\ ctx[w].locks[x.step] = f
    BY <1>1, <2>1 DEF GoodFuture
  <2>. QED BY <1>1, <2>1, <2>2, ProceedFramed
<1>9. CASE BodyFails(w, f) \/ PersistRefused(w, f) \/ PersistUnseen(w, f) \/ DropFuture(w, f)
  BY <1>2, <1>9, ErrorFramed
  DEF BodyFails, PersistRefused, PersistUnseen, DropFuture, ReturnError
<1>10. CASE Schedule(w, f)
  BY <1>2, <1>10, ErrorFramed DEF Schedule
<1>11. ASSUME PersistStep(w, f) \/ PersistSleep(w, f)
       PROVE  /\ x # Resting /\ x.pc = "persisting"
              /\ tasks'[t].checkpoints[x.step] = Stored(w, f)
              /\ Stored(w, f) \in Values
              /\ x.step \in SleepNames => Stored(w, f) \in 0 .. MaxWake
              /\ Cached(w, f) \in [Steps -> Values \cup {NoValue}]
              /\ \A s \in Steps : \/ Cached(w, f)[s] = ctx[w].cache[s]
                                  \/ Cached(w, f)[s] = tasks'[t].checkpoints[s]
  <2>1. x # Resting /\ x.pc = "persisting"
    BY <1>2, <1>11 DEF PersistStep, PersistSleep
  <2>2. /\ tasks'[t].checkpoints[x.step] = Stored(w, f) /\ Stored(w, f) \in Values
        /\ x.step \in SleepNames => Stored(w, f) \in 0 .. MaxWake
    BY <1>11, WriteEffect DEF PersistStep, PersistSleep
  <2>. QED BY <1>1, <2>1, <2>2 DEF Cached
<1>12. CASE PersistStep(w, f)
  <2>1. /\ fut' = [fut EXCEPT ![w][f] = Resting]
        /\ Rewritten(w, Unlocked(w, f), Cached(w, f))
    BY <1>12 DEF PersistStep, Rewritten
  <2>2. /\ Unlocked(w, f) \in [Steps -> Futures \cup {NoFuture}]
        /\ \A s \in Steps : ctx[w].locks[s] # f => Unlocked(w, f)[s] = ctx[w].locks[s]
    BY <1>1, <1>11, <1>12, UnlockedFact
  <2>3. fut'[w][f] = Resting /\ Alone(w, f)
    BY <1>1, <1>11, <1>12, <2>1, RestEffect
  <2>4. /\ ctx'[w] \in Context /\ ctx'[w].task = t /\ CtxAlone(w)
        /\ ctx'[w].locks = Unlocked(w, f) /\ ctx'[w].cache = Cached(w, f)
    BY <1>1, <1>11, <1>12, <2>1, <2>2, ContextEffect
  <2>. QED BY <1>1, <1>11, <1>12, <2>2, <2>3, <2>4 DEF Framed, GoodFuture
<1>13. CASE PersistSleep(w, f)
  <2>1. /\ Proceed(w, f, "scheduling", Stored(w, f)) /\ x.step \in SleepNames
        /\ Rewritten(w, ctx[w].locks, Cached(w, f))
    BY <1>13 DEF PersistSleep, Rewritten
  <2>2. ctx[w].locks[x.step] = f
    BY <1>1, <1>11, <1>13 DEF GoodFuture
  <2>. QED BY <1>1, <1>11, <1>13, <2>1, <2>2, ProceedFramed
<1>. QED
  BY <1>3, <1>4, <1>5, <1>6, <1>7, <1>8, <1>9, <1>10, <1>12, <1>13 DEF ContextCall

-----------------------------------------------------------------------------
(* The rows.                                                               *)

\* A failed attempt's retry waits for its backoff.
LEMMA FailStepRow ==
    ASSUME NEW r \in Row, NEW c, NEW a \in Attempts, NEW at \in Nat, RowShape(r), GoodRow(r),
           FailStep(r, c, a, at)
    PROVE  GoodRow(c) /\ c.checkpoints = r.checkpoints
<1>. DEFINE av == at + r.req.delay[a]
<1>1. PICK reason \in {"error", "lease_expired"} : c = Failed(r, a, reason, at)
  BY DEF FailStep
<1>2. Owned(r, a) /\ ~CancellationDue(r, at)
  BY DEF FailStep
<1>3. /\ c.req = r.req /\ c.checkpoints = r.checkpoints /\ c.runs[a].ended_at = at
      /\ \/ c.state \in {"failed", "cancelled"}
         \/ /\ c.state \in {"pending", "sleeping"} /\ c.last = a + 1
            /\ c.runs[a + 1] = NewRun(c.state, av)
  BY <1>1, <1>2, FailedFields DEF Kept
<1>4. CASE c.state = "sleeping"
  <2>1. c.last = a + 1 /\ c.runs[c.last].available_at = av
    BY <1>3, <1>4 DEF NewRun, NoRun
  <2>2. a \in Nat /\ a + 1 > 1 /\ (a + 1) - 1 = a
    BY BoundsAssumption DEF Attempts
  <2>3. BackingOff(c)
    <3>. HIDE DEF av
    <3>1. c.runs[c.last - 1].ended_at = at /\ c.req.delay[c.last - 1] = r.req.delay[a]
      BY <1>3, <2>1, <2>2
    <3>. QED BY <2>1, <2>2, <3>1 DEF BackingOff, Current, av
  <2>. QED BY <1>3, <2>3 DEF GoodRow
<1>5. CASE c.state # "sleeping"
  BY <1>3, <1>5 DEF GoodRow
<1>. QED BY <1>3, <1>4, <1>5

\* A claim suspends nothing.
LEMMA ClaimRowGood ==
    ASSUME NEW r \in Row, NEW c, NEW at \in Nat, RowShape(r), GoodRow(r), ClaimRow(r, c, at)
    PROVE  GoodRow(c)
<1>1. CASE c = r
  BY <1>1
<1>2. CASE CancelStep(r, c, at)
  <2>1. c.state = "cancelled" /\ c.checkpoints = r.checkpoints
    BY <1>2, CancelledFields DEF CancelStep
  <2>. QED BY <2>1 DEF GoodRow
<1>3. ASSUME NEW m \in Row, RowShape(m), GoodRow(m), ClaimStep(m, c, at)
      PROVE  GoodRow(c)
  <2>1. PICK w \in Workers : c = Claimed(m, w, at)
    BY <1>3 DEF ClaimStep
  <2>2. Live(m)
    BY <1>3 DEF ClaimStep, Claimable, Live
  <2>3. c.state = "running" /\ c.checkpoints = m.checkpoints
    BY <1>3, <2>1, <2>2, ClaimedFields
  <2>. QED BY <1>3, <2>3 DEF GoodRow
<1>4. ASSUME NEW a \in Attempts, FailStep(r, c, a, at)
      PROVE  GoodRow(c)
  BY <1>4, FailStepRow
<1>5. ASSUME NEW a \in Attempts, ReclaimStep(r, c, a, at)
      PROVE  GoodRow(c)
  BY <1>3, <1>5, FailStepRow DEF ReclaimStep
<1>. QED BY <1>1, <1>2, <1>3, <1>4, <1>5 DEF ClaimRow

\* Writing one good row keeps the others.
LEMMA UpdateRows ==
    ASSUME TypeOK, RowsGood, NEW t \in Tasks, NEW row, GoodRow(row), Update(t, row)
    PROVE  RowsGood'
BY DEF TypeOK, RowsGood, Update

\* A write through a context stores a wake time under the name of a sleep.
LEMMA WriteRows ==
    ASSUME ContextInv, NEW w \in Workers, NEW f \in Futures, fut[w][f].pc = "persisting",
           Admitted(w), WriteCheckpoint(w, f)
    PROVE  RowsGood'
<1>. DEFINE t == ctx[w].task
            step == fut[w][f].step
            value == fut[w][f].value
            row == Checkpointed(tasks[t], step, value)
<1>1. fut[w][f] # Resting
  BY DEF Resting
<1>2. /\ TypeOK /\ RowsGood /\ t \in Tasks /\ step \in Steps /\ tasks[t] \in Row
      /\ GoodRow(tasks[t])
      /\ step \in SleepNames => value \in 0 .. MaxWake
  BY <1>1, FutureFacts DEF GoodFuture, ContextInv
<1>3. tasks[t].state = "running"
  BY WriteEffect
<1>4. GoodRow(row)
  <2>1. /\ row.state = "running"
        /\ \A s \in Steps : row.checkpoints[s] = IF s = step THEN value ELSE tasks[t].checkpoints[s]
    BY <1>2, <1>3, CheckpointedFields
  <2>2. ASSUME NEW s \in SleepNames
        PROVE  row.checkpoints[s] \in (0 .. MaxWake) \cup {NoValue}
    <3>1. s \in Steps /\ tasks[t].checkpoints[s] \in (0 .. MaxWake) \cup {NoValue}
      BY <1>2, ContextAssumption DEF GoodRow
    <3>2. CASE s = step
      BY <1>2, <2>1, <3>1, <3>2
    <3>3. CASE s # step
      BY <2>1, <3>1, <3>3
    <3>. QED BY <3>2, <3>3
  <2>. HIDE DEF row
  <2>. QED BY <2>1, <2>2 DEF GoodRow
<1>5. CASE Written(w, f)
  <2>1. Update(t, row)
    BY <1>5 DEF WriteCheckpoint, SetCheckpoint, Checkpointed
  <2>. HIDE DEF t, row
  <2>. QED BY <1>2, <1>4, <2>1, UpdateRows
<1>6. CASE ~Written(w, f)
  BY <1>2, <1>6 DEF WriteCheckpoint, vars, RowsGood
<1>. QED BY <1>5, <1>6

\* A run that is suspended through a context waits for the committed time, and
\* one that goes on was not early.
LEMMA ScheduleRows ==
    ASSUME ContextInv, NEW w \in Workers, NEW f \in Futures, Schedule(w, f)
    PROVE  /\ RowsGood'
           /\ Fence(w) = "ok" /\ tasks'[ctx[w].task].state = "running" =>
                /\ fut[w][f].value <= now
                /\ tasks'[ctx[w].task] = tasks[ctx[w].task]
<1>. DEFINE t == ctx[w].task
            a == ctx[w].attempt
            r == tasks[t]
            wake == fut[w][f].value
            row == Scheduled(r, a, wake, now)
<1>1. fut[w][f] # Resting /\ fut[w][f].step \in SleepNames /\ wake \in 0 .. MaxWake
  BY ScheduleIsNext
<1>2. /\ TypeOK /\ RowsGood /\ t \in Tasks /\ a \in Attempts /\ r \in Row /\ GoodRow(r)
      /\ now \in Nat /\ wake \in Nat /\ ctx[w] \in Context
      /\ Live(r) => wake = r.checkpoints[fut[w][f].step]
  BY <1>1, FutureFacts DEF GoodFuture, ContextInv, TypeOK, Schedule
<1>3. CASE Fence(w) # "ok"
  BY <1>2, <1>3 DEF Schedule, RowsGood, vars
<1>4. CASE Fence(w) = "ok"
  <2>1. Owned(r, a) /\ Live(r) /\ r.state = "running"
    BY <1>2, <1>4, FenceOwned DEF Owned
  <2>2. Update(t, row)
    BY <1>4 DEF Schedule, ScheduleRun
  <2>3. tasks'[t] = row
    BY <1>2, <2>2 DEF Update, TypeOK
  <2>4. CASE CancellationDue(r, now) \/ CancellationDue(r, wake)
    <3>1. row = Cancelled(r, now)
      BY <2>4 DEF Scheduled
    <3>2. row.state = "cancelled" /\ row.checkpoints = r.checkpoints
      BY <1>2, <2>1, <3>1, CancelledFields DEF Active
    <3>3. GoodRow(row)
      BY <1>2, <3>2 DEF GoodRow
    <3>4. RowsGood'
      <4>. HIDE DEF t, row
      <4>. QED BY <1>2, <2>2, <3>3, UpdateRows
    <3>. QED BY <2>3, <3>2, <3>4
  <2>5. CASE ~CancellationDue(r, now) /\ ~CancellationDue(r, wake) /\ wake <= now
    <3>1. row = r
      BY <2>5 DEF Scheduled
    <3>. HIDE DEF t, row
    <3>. QED BY <1>2, <2>2, <2>3, <2>5, <3>1, UpdateRows DEF t
  <2>6. CASE ~CancellationDue(r, now) /\ ~CancellationDue(r, wake) /\ wake > now
    <3>1. /\ row.state = "sleeping" /\ row.last = a /\ row.checkpoints = r.checkpoints
          /\ row.runs[a].available_at = wake
      BY <1>2, <2>1, <2>6, ScheduledFields
    <3>2. Current(row).available_at = row.checkpoints[fut[w][f].step]
      BY <1>2, <2>1, <3>1 DEF Current
    <3>3. GoodRow(row)
      BY <1>1, <1>2, <3>1, <3>2 DEF GoodRow
    <3>4. RowsGood'
      <4>. HIDE DEF t, row
      <4>. QED BY <1>2, <2>2, <3>3, UpdateRows
    <3>. QED BY <2>3, <3>1, <3>4
  <2>. QED BY <1>2, <2>4, <2>5, <2>6
<1>. QED BY <1>3, <1>4

\* The ends of attempts.
LEMMA EndRows ==
    ASSUME BareInv, RowsGood, NEW t \in Tasks, NEW a \in Attempts,
           FailRun(t, a) \/ CompleteRun(t, a)
    PROVE  RowsGood'
<1>. DEFINE r == tasks[t]
<1>1. /\ TypeOK /\ now \in Nat /\ r \in Row /\ RowShape(r) /\ GoodRow(r)
      /\ Owned(r, a) /\ ~Expired(r, a, now)
  BY FencedUnexpired DEF BareInv, ShapeInv, TypeOK, RowsGood, FailRun, CompleteRun
<1>2. GoodRow(Cancelled(r, now))
  <2>1. ClaimRow(r, Cancelled(r, now), now)
    BY <1>1, DueIsCancelStep DEF ClaimRow
  <2>. QED BY <1>1, <2>1, ClaimRowGood
<1>3. CASE FailRun(t, a)
  <2>1. Update(t, Failed(r, a, "error", now))
    BY <1>3 DEF FailRun
  <2>2. CASE CancellationDue(r, now)
    <3>1. Failed(r, a, "error", now) = Cancelled(r, now)
      BY <2>2 DEF Failed
    <3>. QED BY <1>1, <1>2, <2>1, <3>1, UpdateRows
  <2>3. CASE ~CancellationDue(r, now)
    <3>1. FailStep(r, Failed(r, a, "error", now), a, now)
      BY <1>1, <2>3 DEF FailStep
    <3>2. GoodRow(Failed(r, a, "error", now))
      BY <1>1, <3>1, FailStepRow
    <3>. QED BY <1>1, <2>1, <3>2, UpdateRows
  <2>. QED BY <2>2, <2>3
<1>4. CASE CompleteRun(t, a)
  <2>1. Update(t, Completed(r, a, now))
    BY <1>4 DEF CompleteRun
  <2>2. CASE CancellationDue(r, now)
    <3>1. Completed(r, a, now) = Cancelled(r, now)
      BY <2>2 DEF Completed
    <3>. QED BY <1>1, <1>2, <2>1, <3>1, UpdateRows
  <2>3. CASE ~CancellationDue(r, now)
    <3>1. /\ Completed(r, a, now).state = "completed"
          /\ Completed(r, a, now).checkpoints = r.checkpoints
      BY <1>1, <2>3, CompletedFields
    <3>2. GoodRow(Completed(r, a, now))
      BY <1>1, <3>1 DEF GoodRow
    <3>. QED BY <1>1, <2>1, <3>2, UpdateRows
  <2>. QED BY <2>2, <2>3
<1>. QED BY <1>3, <1>4

\* A new task has no checkpoints and sleeps for none.
LEMMA SpawnRows ==
    ASSUME TypeOK, RowsGood, NEW t \in Tasks, NEW req \in Requests, SpawnTask(t, req)
    PROVE  RowsGood'
<1>1. /\ Spawned(req, now).state = "pending"
      /\ \A s \in Steps : Spawned(req, now).checkpoints[s] = NoValue
  BY DEF Spawned, NoTask
<1>2. GoodRow(Spawned(req, now))
  BY <1>1, ContextAssumption DEF GoodRow
<1>. QED BY <1>2, UpdateRows DEF SpawnTask

\* Every step keeps the wake times of the rows.
LEMMA RowsStep ==
    ASSUME ContextInv, [ContextNext]_contextVars
    PROVE  RowsGood'
<1>1. BareInv /\ ShapeInv /\ TypeOK /\ RowsGood /\ now \in Nat
  BY DEF ContextInv, BareInv, ShapeInv, TypeOK
<1>2. UNCHANGED vars => RowsGood'
  BY <1>1 DEF RowsGood, vars
<1>3. ASSUME NEW w \in Workers, NEW f \in Futures, ContextCall(w, f)
      PROVE  RowsGood'
  <2>1. PersistStep(w, f) \/ PersistSleep(w, f) \/ PersistUnseen(w, f) => RowsGood'
    BY WriteRows DEF PersistStep, PersistSleep, PersistUnseen
  <2>2. Schedule(w, f) => RowsGood'
    BY ScheduleRows
  <2>3. ASSUME \/ \E step \in StepNames : BeginStep(w, f, step)
               \/ \E sleep \in SleepNames, wake \in 0 .. MaxWake : BeginSleep(w, f, sleep, wake)
               \/ ReplayStep(w, f) \/ EnterStep(w, f) \/ EnterSleep(w, f)
               \/ \E value \in Values : BodyReturns(w, f, value)
               \/ BodyFails(w, f) \/ PersistRefused(w, f) \/ DropFuture(w, f)
        PROVE  UNCHANGED vars
    BY <2>3 DEF BeginStep, BeginSleep, Begin, ReplayStep, EnterStep, EnterSleep, BodyReturns,
                BodyFails, PersistRefused, DropFuture
  <2>. QED BY <1>2, <1>3, <2>1, <2>2, <2>3 DEF ContextCall
<1>4. ASSUME NEW w \in Workers, ClaimTasks(w, Names, 1)
      PROVE  RowsGood'
  <2>. SUFFICES ASSUME NEW t \in Tasks PROVE GoodRow(tasks'[t])
    BY DEF RowsGood
  <2>1. ClaimRow(tasks[t], tasks'[t], now)
    BY <1>1, <1>4, NamesInhabited, ClaimTasksSteps
  <2>2. tasks[t] \in Row /\ RowShape(tasks[t]) /\ GoodRow(tasks[t])
    BY <1>1 DEF ShapeInv, TypeOK, RowsGood
  <2>. QED BY <1>1, <2>1, <2>2, ClaimRowGood
<1>5. ASSUME NEW w \in Workers, ctx[w].open,
             FailRun(ctx[w].task, ctx[w].attempt) \/ CompleteRun(ctx[w].task, ctx[w].attempt)
      PROVE  RowsGood'
  <2>1. ctx[w].task \in Tasks /\ ctx[w].attempt \in Attempts
    BY <1>5, OpenContext DEF ContextInv
  <2>. QED BY <1>1, <1>5, <2>1, EndRows
<1>6. ASSUME NEW t \in Tasks, NEW req \in Requests, SpawnTask(t, req)
      PROVE  RowsGood'
  BY <1>1, <1>6, SpawnRows
<1>7. Tick => RowsGood'
  BY <1>1 DEF Tick, RowsGood
<1>8. ASSUME \/ \E w \in Workers, t \in Tasks : NewContext(w, t)
             \/ \E w \in Workers : DropContext(w)
             \/ UNCHANGED contextVars
      PROVE  UNCHANGED vars
  BY <1>8 DEF NewContext, DropContext, contextVars, vars
<1>. QED
  BY <1>2, <1>3, <1>4, <1>5, <1>6, <1>7, <1>8 DEF ContextNext, Surroundings

-----------------------------------------------------------------------------
(* What handlers were given.                                               *)

\* A row that moves, as the other facts see it.
LEMMA RowMoves ==
    ASSUME ContextInv, [ContextNext]_contextVars, NEW t \in Tasks
    PROVE  /\ now \in Nat /\ now' \in Nat /\ now <= now'
           /\ tasks[t] \in Row /\ RowShape(tasks[t]) /\ RowBare(tasks[t]) /\ GoodRow(tasks[t])
           /\ RowNext(tasks[t], tasks'[t], now)
<1>1. now \in Nat /\ ShapeInv /\ tasks[t] \in Row /\ RowShape(tasks[t]) /\ RowBare(tasks[t])
      /\ GoodRow(tasks[t])
  BY DEF ContextInv, BareInv, ShapeInv, TypeOK, RowsGood
<1>2. [Next]_vars /\ now' \in {now, now + 1}
  BY ContextIsNext
<1>3. RowNext(tasks[t], tasks'[t], now)
  BY <1>1, <1>2, RowSteps
<1>. QED BY <1>1, <1>2, <1>3

\* A value that was given stays the committed one, and in time.
LEMMA GiftKept ==
    ASSUME NEW r \in Row, NEW c, NEW at \in Nat, NEW at2 \in Nat, at <= at2,
           RowShape(r), RowBare(r), GoodRow(r), RowNext(r, c, at),
           NEW s \in Steps, NEW v, GoodGift(r, s, v, at)
    PROVE  GoodGift(c, s, v, at2)
<1>1. c.state # "absent" /\ (Live(c) => Live(r))
  BY RowStays DEF GoodGift
<1>2. ASSUME Live(c)
      PROVE  /\ c.checkpoints[s] = r.checkpoints[s] /\ r.checkpoints[s] # NoValue
             /\ s \in SleepNames => v <= at2
  <2>1. Live(r) /\ r.checkpoints[s] # NoValue
    BY <1>1, <1>2 DEF GoodGift
  <2>2. c.checkpoints[s] = r.checkpoints[s]
    BY <1>2, <2>1, CheckpointsKept
  <2>3. ASSUME s \in SleepNames
        PROVE  v <= at2
    <3>1. v \in 0 .. MaxWake /\ v <= at
      BY <2>1, <2>3 DEF GoodGift, GoodRow
    <3>. QED BY <3>1, BoundsAssumption
  <2>. QED BY <2>1, <2>2, <2>3
<1>. QED BY <1>1, <1>2 DEF GoodGift

\* A call gives nothing, or one value, which is the committed one.
LEMMA CallGives ==
    ASSUME ContextInv, NEW w \in Workers, NEW f \in Futures, ContextCall(w, f)
    PROVE  \/ returned' = returned
           \/ /\ ctx[w].task \in Tasks /\ fut[w][f].step \in Steps
              /\ \E value \in Values :
                   /\ Give(ctx[w].task, fut[w][f].step, value)
                   /\ GoodGift(tasks'[ctx[w].task], fut[w][f].step, value, now')
<1>. DEFINE x == fut[w][f]
            t == ctx[w].task
            Given == /\ t \in Tasks /\ x.step \in Steps
                     /\ \E value \in Values : /\ Give(t, x.step, value)
                                              /\ GoodGift(tasks'[t], x.step, value, now')
<1>1. CASE ReplayStep(w, f)
  <2>. DEFINE cached == ctx[w].cache[x.step]
  <2>1. /\ x # Resting /\ x.step \in StepNames /\ cached # NoValue
        /\ Give(t, x.step, Reread[cached]) /\ tasks' = tasks
    BY <1>1 DEF ReplayStep, HasLock, Resting, vars
  <2>2. /\ t \in Tasks /\ x.step \in Steps /\ ctx[w] \in Context
        /\ GoodCache(ctx[w], tasks[t]) /\ cached \in Values
    <3>1. ContextTypeOK
      BY DEF ContextInv
    <3>. QED BY <2>1, <3>1, FutureFacts, OpenContext
  <2>3. Reread[cached] \in Values
    BY <2>2, ContextAssumption
  <2>4. tasks[t].state # "absent" /\ (Live(tasks[t]) => cached = tasks[t].checkpoints[x.step])
    BY <2>1, <2>2 DEF GoodCache
  <2>5. GoodGift(tasks'[t], x.step, Reread[cached], now')
    <3>. HIDE DEF cached
    <3>. QED BY <2>1, <2>4 DEF GoodGift, StepNames
  <2>. QED BY <2>1, <2>2, <2>3, <2>5
<1>2. CASE PersistStep(w, f)
  <2>1. /\ x # Resting /\ x.pc = "persisting" /\ x.step \in StepNames
        /\ Admitted(w) /\ WriteCheckpoint(w, f)
        /\ Give(t, x.step, Output(w, f))
    BY <1>2 DEF PersistStep, Resting
  <2>2. t \in Tasks /\ x.step \in Steps
    BY <2>1, FutureFacts
  <2>3. /\ tasks'[t].state = "running" /\ tasks'[t].checkpoints[x.step] = Stored(w, f)
        /\ Stored(w, f) \in Values /\ Stored(w, f) # NoValue
        /\ Written(w, f) => Stored(w, f) = x.value
    BY <2>1, WriteEffect
  <2>4. /\ Output(w, f) \in Values
        /\ Output(w, f) \in {Stored(w, f), Reread[Stored(w, f)]}
    BY <2>3, ContextAssumption DEF Output
  <2>5. GoodGift(tasks'[t], x.step, Output(w, f), now')
    BY <2>1, <2>3, <2>4 DEF GoodGift, StepNames
  <2>. QED BY <2>1, <2>2, <2>4, <2>5
<1>3. CASE Schedule(w, f)
  <2>1. CASE Fence(w) = "ok" /\ tasks'[t].state = "running"
    <3>1. x # Resting /\ x.step \in SleepNames /\ x.value \in 0 .. MaxWake /\ now' = now
      BY <1>3, ScheduleIsNext
    <3>2. /\ t \in Tasks /\ x.step \in Steps
          /\ Live(tasks[t]) => x.value = tasks[t].checkpoints[x.step]
      BY <1>3, <3>1, FutureFacts DEF GoodFuture, Schedule
    <3>3. x.value <= now /\ tasks'[t] = tasks[t]
      BY <1>3, <2>1, ScheduleRows
    <3>4. x.value \in Values /\ x.value # NoValue
      BY <3>1, ContextAssumption, ValuesAssumption
    <3>5. GoodGift(tasks'[t], x.step, x.value, now')
      BY <2>1, <3>1, <3>2, <3>3, <3>4 DEF GoodGift, StepNames, Live
    <3>6. Give(t, x.step, x.value)
      BY <1>3, <2>1 DEF Schedule
    <3>. QED BY <3>2, <3>4, <3>5, <3>6
  <2>2. CASE ~(Fence(w) = "ok" /\ tasks'[t].state = "running")
    BY <1>3, <2>2 DEF Schedule
  <2>. QED BY <2>1, <2>2
<1>4. ASSUME \/ \E step \in StepNames : BeginStep(w, f, step)
             \/ \E sleep \in SleepNames, wake \in 0 .. MaxWake : BeginSleep(w, f, sleep, wake)
             \/ EnterStep(w, f) \/ EnterSleep(w, f)
             \/ \E value \in Values : BodyReturns(w, f, value)
             \/ BodyFails(w, f) \/ PersistSleep(w, f) \/ PersistRefused(w, f)
             \/ PersistUnseen(w, f) \/ DropFuture(w, f)
      PROVE  returned' = returned
  BY <1>4 DEF BeginStep, BeginSleep, Begin, EnterStep, EnterSleep, Proceed, BodyReturns,
              BodyFails, PersistSleep, PersistRefused, PersistUnseen, DropFuture, ReturnError
<1>. QED BY <1>1, <1>2, <1>3, <1>4 DEF ContextCall

\* The steps that are not calls give nothing.
LEMMA OthersGiveNothing ==
    ASSUME [ContextNext]_contextVars,
           ~\E w \in Workers, f \in Futures : ContextCall(w, f)
    PROVE  returned' = returned
BY DEF ContextNext, NewContext, DropContext, Surroundings, ctxVars, contextVars

\* Every value that was given stays good, and every value that is given is.
LEMMA GiftsStep ==
    ASSUME ContextInv, [ContextNext]_contextVars
    PROVE  GiftsGood' /\ returned' \in [Tasks -> [Steps -> SUBSET Values]]
<1>1. returned \in [Tasks -> [Steps -> SUBSET Values]]
  BY DEF ContextInv, ContextTypeOK
<1>2. ASSUME NEW t \in Tasks, NEW s \in Steps, NEW v \in returned[t][s]
      PROVE  GoodGift(tasks'[t], s, v, now')
  <2>1. GoodGift(tasks[t], s, v, now)
    BY DEF ContextInv, GiftsGood
  <2>. QED BY <2>1, RowMoves, GiftKept
<1>3. CASE returned' = returned
  BY <1>1, <1>2, <1>3 DEF GiftsGood
<1>4. ASSUME NEW w \in Workers, NEW f \in Futures, NEW value \in Values,
             ctx[w].task \in Tasks, fut[w][f].step \in Steps,
             Give(ctx[w].task, fut[w][f].step, value),
             GoodGift(tasks'[ctx[w].task], fut[w][f].step, value, now')
      PROVE  GiftsGood' /\ returned' \in [Tasks -> [Steps -> SUBSET Values]]
  <2>1. returned' \in [Tasks -> [Steps -> SUBSET Values]]
    BY <1>1, <1>4 DEF Give
  <2>2. ASSUME NEW t \in Tasks, NEW s \in Steps, NEW v \in returned'[t][s]
        PROVE  \/ v \in returned[t][s]
               \/ t = ctx[w].task /\ s = fut[w][f].step /\ v = value
    BY <1>1, <1>4, <2>2 DEF Give
  <2>. QED BY <1>2, <1>4, <2>1, <2>2 DEF GiftsGood
<1>. QED BY <1>3, <1>4, CallGives, OthersGiveNothing

-----------------------------------------------------------------------------
(* Contexts and futures.                                                   *)

\* A cache that is right stays right, whoever owns the task now.
LEMMA CacheKept ==
    ASSUME NEW c, NEW r \in Row, NEW q, NEW at \in Nat,
           RowShape(r), RowBare(r), RowNext(r, q, at), GoodCache(c, r)
    PROVE  GoodCache(c, q)
<1>. SUFFICES ASSUME c \in Context
              PROVE  /\ q.state # "absent"
                     /\ \A s \in Steps : c.cache[s] # NoValue /\ Live(q)
                          => c.cache[s] = q.checkpoints[s]
                     /\ \A s \in SleepNames : c.cache[s] \in (0 .. MaxWake) \cup {NoValue}
  BY DEF GoodCache
<1>1. /\ r.state # "absent"
      /\ \A s \in Steps : c.cache[s] # NoValue /\ Live(r) => c.cache[s] = r.checkpoints[s]
      /\ \A s \in SleepNames : c.cache[s] \in (0 .. MaxWake) \cup {NoValue}
  BY DEF GoodCache
<1>2. q.state # "absent" /\ (Live(q) => Live(r))
  BY <1>1, RowStays
<1>3. ASSUME NEW s \in Steps, c.cache[s] # NoValue, Live(q)
      PROVE  c.cache[s] = q.checkpoints[s]
  BY <1>1, <1>2, <1>3, CheckpointsKept
<1>. QED BY <1>1, <1>2, <1>3

\* What a future knows stays true while others move, as long as its lock is kept.
LEMMA FutureKept ==
    ASSUME NEW x, NEW f, NEW c, NEW d, NEW r \in Row, NEW q, NEW at \in Nat,
           RowShape(r), RowBare(r), RowNext(r, q, at), GoodCache(c, r),
           GoodFuture(x, f, c, r),
           x # Resting => d \in Context /\ (c.locks[x.step] = f => d.locks[x.step] = f)
    PROVE  GoodFuture(x, f, d, q)
<1>. SUFFICES ASSUME x # Resting, x.pc = "scheduling", Live(q)
              PROVE  x.value = q.checkpoints[x.step]
  BY DEF GoodFuture
<1>1. /\ c \in Context /\ x.step \in SleepNames /\ x.value \in 0 .. MaxWake
      /\ Live(r) => x.value = r.checkpoints[x.step]
  BY DEF GoodFuture
<1>2. r.state # "absent"
  BY <1>1 DEF GoodCache
<1>3. Live(r)
  BY <1>2, RowStays
<1>4. x.step \in Steps /\ r.checkpoints[x.step] # NoValue
  BY <1>1, <1>3, ContextAssumption, ValuesAssumption
<1>. QED BY <1>1, <1>3, <1>4, CheckpointsKept

\* The contexts of a step that are not touched.
LEMMA UntouchedContext ==
    ASSUME ContextInv, [ContextNext]_contextVars, NEW w \in Workers, ctx'[w] = ctx[w]
    PROVE  /\ GoodCache(ctx'[w], tasks'[ctx'[w].task])
           /\ \A f \in Futures : fut'[w][f] = fut[w][f]
                => GoodFuture(fut'[w][f], f, ctx'[w], tasks'[ctx'[w].task])
<1>. DEFINE t == ctx[w].task
<1>1. CASE ctx[w] \in Context
  <2>1. t \in Tasks
    BY <1>1, OpenContext DEF ContextInv
  <2>2. GoodCache(ctx[w], tasks[t])
    BY DEF ContextInv, CachesGood
  <2>3. GoodCache(ctx[w], tasks'[t])
    BY <2>1, <2>2, RowMoves, CacheKept
  <2>4. ASSUME NEW f \in Futures
        PROVE  GoodFuture(fut[w][f], f, ctx[w], tasks'[t])
    <3>1. GoodFuture(fut[w][f], f, ctx[w], tasks[t])
      BY DEF ContextInv, FuturesGood
    <3>. QED BY <1>1, <2>1, <2>2, <3>1, RowMoves, FutureKept
  <2>. QED BY <2>3, <2>4
<1>2. CASE ctx[w] \notin Context
  <2>1. \A f \in Futures : fut[w][f] = Resting
    BY <1>2 DEF ContextInv, FuturesGood, GoodFuture
  <2>. QED BY <1>2, <2>1 DEF GoodCache, GoodFuture
<1>. QED BY <1>1, <1>2

\* A call keeps every context and every future good.
LEMMA CallGood ==
    ASSUME ContextInv, [ContextNext]_contextVars, RowsGood',
           NEW w \in Workers, NEW f \in Futures, ContextCall(w, f)
    PROVE  /\ CachesGood' /\ FuturesGood'
           /\ ctx' \in [Workers -> Context \cup {NoContext}]
           /\ fut' \in [Workers -> [Futures -> Future \cup {Resting}]]
<1>. DEFINE t == ctx[w].task
<1>1. /\ Alone(w, f) /\ CtxAlone(w)
      /\ ctx[w] \in Context /\ ctx'[w] \in Context /\ ctx'[w].task = t
      /\ fut'[w][f] \in Future \cup {Resting}
      /\ \A s \in Steps : ctx[w].locks[s] \notin {f, NoFuture}
           => ctx'[w].locks[s] = ctx[w].locks[s]
      /\ \A s \in Steps : \/ ctx'[w].cache[s] = ctx[w].cache[s]
                          \/ ctx'[w].cache[s] = tasks'[t].checkpoints[s]
      /\ GoodFuture(fut'[w][f], f, ctx'[w], tasks'[t])
  BY CallFramed DEF Framed
<1>2. t \in Tasks
  BY <1>1, OpenContext DEF ContextInv
<1>3. ASSUME NEW v \in Workers \ {w}
      PROVE  /\ ctx'[v] = ctx[v] /\ fut'[v] = fut[v]
             /\ GoodCache(ctx'[v], tasks'[ctx'[v].task])
             /\ \A g \in Futures : GoodFuture(fut'[v][g], g, ctx'[v], tasks'[ctx'[v].task])
  <2>1. ctx'[v] = ctx[v] /\ fut'[v] = fut[v]
    BY <1>1 DEF Alone, CtxAlone
  <2>. QED BY <2>1, UntouchedContext
<1>4. GoodCache(ctx'[w], tasks'[t])
  <2>1. GoodCache(ctx[w], tasks[t])
    BY DEF ContextInv, CachesGood
  <2>2. GoodCache(ctx[w], tasks'[t])
    BY <1>2, <2>1, RowMoves, CacheKept
  <2>3. \A s \in SleepNames : tasks'[t].checkpoints[s] \in (0 .. MaxWake) \cup {NoValue}
    BY <1>2 DEF RowsGood, GoodRow
  <2>. QED BY <1>1, <2>2, <2>3, ContextAssumption DEF GoodCache
<1>5. ASSUME NEW g \in Futures
      PROVE  GoodFuture(fut'[w][g], g, ctx'[w], tasks'[t])
  <2>1. CASE g = f
    BY <1>1, <2>1
  <2>2. CASE g # f
    <3>1. fut'[w][g] = fut[w][g]
      BY <1>1, <2>2 DEF Alone
    <3>2. GoodFuture(fut[w][g], g, ctx[w], tasks[t]) /\ GoodCache(ctx[w], tasks[t])
      BY DEF ContextInv, FuturesGood, CachesGood
    <3>3. fut[w][g] # Resting => fut[w][g].step \in Steps
      BY FutureTyped DEF ContextInv
    <3>4. g \notin {f, NoFuture}
      BY <2>2, ContextAssumption
    <3>5. fut[w][g] # Resting /\ ctx[w].locks[fut[w][g].step] = g
            => ctx'[w].locks[fut[w][g].step] = g
      BY <1>1, <3>3, <3>4
    <3>6. GoodFuture(fut[w][g], g, ctx'[w], tasks'[t])
      BY <1>1, <1>2, <3>2, <3>5, RowMoves, FutureKept
    <3>. QED BY <3>1, <3>6
  <2>. QED BY <2>1, <2>2
<1>6. CachesGood'
  BY <1>1, <1>3, <1>4 DEF CachesGood
<1>7. FuturesGood'
  BY <1>1, <1>3, <1>5 DEF FuturesGood
<1>8. ctx' \in [Workers -> Context \cup {NoContext}]
  BY <1>1, <1>3 DEF CtxAlone, ContextInv, ContextTypeOK
<1>9. ASSUME NEW v \in Workers, NEW g \in Futures
      PROVE  fut'[v][g] \in Future \cup {Resting}
  <2>1. fut[v][g] \in Future \cup {Resting}
    BY DEF ContextInv, ContextTypeOK
  <2>2. v # w => fut'[v][g] = fut[v][g]
    BY <1>3
  <2>3. v = w /\ g # f => fut'[v][g] = fut[v][g]
    BY <1>1 DEF Alone
  <2>. QED BY <1>1, <2>1, <2>2, <2>3
<1>10. fut' \in [Workers -> [Futures -> Future \cup {Resting}]]
  BY <1>1, <1>9 DEF Alone
<1>. QED BY <1>6, <1>7, <1>8, <1>10

\* A context is made for the owner of a run, with everything that is committed.
LEMMA NewContextGood ==
    ASSUME ContextInv, [ContextNext]_contextVars,
           NEW w \in Workers, NEW t \in Tasks, NewContext(w, t)
    PROVE  /\ CachesGood' /\ FuturesGood'
           /\ ctx' \in [Workers -> Context \cup {NoContext}]
           /\ fut' \in [Workers -> [Futures -> Future \cup {Resting}]]
<1>. DEFINE new == [open |-> TRUE, task |-> t, attempt |-> tasks[t].last,
                    cache |-> tasks[t].checkpoints, locks |-> [s \in Steps |-> NoFuture]]
<1>1. /\ ContextTypeOK /\ TypeOK /\ tasks[t] \in Row /\ GoodRow(tasks[t])
      /\ ctx \in [Workers -> Context \cup {NoContext}]
      /\ fut \in [Workers -> [Futures -> Future \cup {Resting}]]
  BY DEF ContextInv, ContextTypeOK, TypeOK, RowsGood
<1>2. new \in Context /\ new.task = t /\ new.cache = tasks[t].checkpoints
  BY <1>1 DEF Context, Row
<1>3. ctx' = [ctx EXCEPT ![w] = new] /\ fut' = fut /\ tasks' = tasks /\ ctx[w] = NoContext
  BY DEF NewContext, vars
<1>4. tasks[t].state = "running"
  <2>1. tasks[t].last \in Attempts
    BY <1>1 DEF Row
  <2>. QED BY <1>1, <2>1, FencedOwned DEF NewContext, Owned
<1>5. \A f \in Futures : fut[w][f] = Resting
  <2>1. ctx[w] \notin Context
    BY <1>1, <1>3, OpenContext
  <2>. QED BY <2>1 DEF ContextInv, FuturesGood, GoodFuture
<1>. HIDE DEF new
<1>6. ctx'[w] = new /\ \A v \in Workers \ {w} : ctx'[v] = ctx[v]
  BY <1>1, <1>3
<1>7. GoodCache(new, tasks'[new.task])
  BY <1>1, <1>2, <1>3, <1>4 DEF GoodCache, GoodRow
<1>8. CachesGood'
  BY <1>6, <1>7, UntouchedContext DEF CachesGood
<1>9. FuturesGood'
  <2>1. \A f \in Futures : GoodFuture(fut'[w][f], f, ctx'[w], tasks'[ctx'[w].task])
    BY <1>3, <1>5 DEF GoodFuture
  <2>. QED BY <1>3, <1>6, <2>1, UntouchedContext DEF FuturesGood
<1>10. ctx' \in [Workers -> Context \cup {NoContext}]
  BY <1>1, <1>2, <1>3
<1>. QED BY <1>1, <1>3, <1>8, <1>9, <1>10

\* A context that goes takes its futures with it.
LEMMA DropContextGood ==
    ASSUME ContextInv, [ContextNext]_contextVars, NEW w \in Workers, DropContext(w)
    PROVE  /\ CachesGood' /\ FuturesGood'
           /\ ctx' \in [Workers -> Context \cup {NoContext}]
           /\ fut' \in [Workers -> [Futures -> Future \cup {Resting}]]
<1>1. /\ ctx \in [Workers -> Context \cup {NoContext}]
      /\ fut \in [Workers -> [Futures -> Future \cup {Resting}]]
  BY DEF ContextInv, ContextTypeOK
<1>2. /\ ctx' = [ctx EXCEPT ![w] = NoContext]
      /\ fut' = [fut EXCEPT ![w] = [f \in Futures |-> Resting]]
  BY DEF DropContext
<1>3. /\ ctx'[w] = NoContext /\ \A f \in Futures : fut'[w][f] = Resting
      /\ \A v \in Workers \ {w} : ctx'[v] = ctx[v] /\ fut'[v] = fut[v]
  BY <1>1, <1>2
<1>4. NoContext \notin Context
  <2>1. NoContext.open = FALSE
    BY DEF NoContext
  <2>2. \A c \in Context : c.open = TRUE
    BY DEF Context
  <2>. QED BY <2>1, <2>2, Zenon
<1>5. CachesGood'
  BY <1>3, <1>4, UntouchedContext DEF CachesGood, GoodCache
<1>6. FuturesGood'
  BY <1>3, UntouchedContext DEF FuturesGood, GoodFuture
<1>. QED BY <1>1, <1>2, <1>5, <1>6

\* Every step keeps what contexts and futures know.
LEMMA ContextStep ==
    ASSUME ContextInv, [ContextNext]_contextVars
    PROVE  ContextInv'
<1>1. BareInv' /\ TypeOK'
  <2>1. BareInv'
    BY ContextIsNext, BareStep DEF ContextInv
  <2>. QED BY <2>1 DEF BareInv, ShapeInv
<1>2. RowsGood'
  BY RowsStep
<1>3. GiftsGood' /\ returned' \in [Tasks -> [Steps -> SUBSET Values]]
  BY GiftsStep
<1>. DEFINE Good == /\ CachesGood' /\ FuturesGood'
                    /\ ctx' \in [Workers -> Context \cup {NoContext}]
                    /\ fut' \in [Workers -> [Futures -> Future \cup {Resting}]]
<1>4. (\E w \in Workers, f \in Futures : ContextCall(w, f)) => Good
  BY <1>2, CallGood
<1>5. (\E w \in Workers, t \in Tasks : NewContext(w, t)) => Good
  BY NewContextGood
<1>6. (\E w \in Workers : DropContext(w)) => Good
  BY DropContextGood
<1>7. ASSUME Surroundings \/ UNCHANGED contextVars
      PROVE  Good
  <2>1. ctx' = ctx /\ fut' = fut
    BY <1>7 DEF Surroundings, ctxVars, contextVars
  <2>2. CachesGood' /\ FuturesGood'
    BY <2>1, UntouchedContext DEF CachesGood, FuturesGood
  <2>. QED BY <2>1, <2>2 DEF ContextInv, ContextTypeOK
<1>8. Good
  BY <1>4, <1>5, <1>6, <1>7 DEF ContextNext
<1>. QED BY <1>1, <1>2, <1>3, <1>8 DEF ContextInv, ContextTypeOK

\* No context, no future, no value: nothing to be wrong about.
LEMMA ContextStart == ContextInit => ContextInv
<1>. SUFFICES ASSUME ContextInit PROVE ContextInv
  OBVIOUS
<1>1. BareInv /\ TypeOK
  <2>1. BareInv
    BY BareInit DEF ContextInit
  <2>. QED BY <2>1 DEF BareInv, ShapeInv
<1>2. /\ \A w \in Workers : ctx[w] = NoContext
      /\ \A w \in Workers, f \in Futures : fut[w][f] = Resting
      /\ \A t \in Tasks, s \in Steps : returned[t][s] = {}
  BY DEF ContextInit
<1>3. ContextTypeOK
  BY <1>1 DEF ContextInit, ContextTypeOK
<1>4. RowsGood
  <2>1. \A t \in Tasks : tasks[t] = NoTask("absent")
    BY DEF ContextInit, Init
  <2>2. NoTask("absent").state = "absent"
        /\ \A s \in Steps : NoTask("absent").checkpoints[s] = NoValue
    BY DEF NoTask
  <2>. QED BY <2>1, <2>2, ContextAssumption DEF RowsGood, GoodRow
<1>5. CachesGood
  <2>1. ASSUME NEW w \in Workers PROVE ctx[w] \notin Context
    BY <1>2, <1>3, OpenContext
  <2>. QED BY <2>1 DEF CachesGood, GoodCache
<1>6. FuturesGood
  BY <1>2 DEF FuturesGood, GoodFuture
<1>7. GiftsGood
  BY <1>2 DEF GiftsGood
<1>. QED BY <1>1, <1>3, <1>4, <1>5, <1>6, <1>7 DEF ContextInv

\* The inductive invariant of the contexts.
LEMMA ContextInductive == ContextSpec => []ContextInv
BY ContextStart, ContextStep, PTL DEF ContextSpec

-----------------------------------------------------------------------------
(* The theorems.                                                           *)

\* TaskContext::step(): whichever worker, attempt or future of whichever context
\* asks for a step, and however often its body ran, every value a handler was
\* given is the committed one or its JSON round trip.
THEOREM StepsAgreeHolds == ContextSpec => []StepsAgree
<1>1. ContextInv => StepsAgree
  <2>. SUFFICES ASSUME ContextInv, NEW t \in Tasks, NEW s \in StepNames,
                       NEW v \in returned[t][s], Live(tasks[t])
                PROVE  /\ tasks[t].checkpoints[s] # NoValue
                       /\ v \in {tasks[t].checkpoints[s], Reread[tasks[t].checkpoints[s]]}
    BY DEF StepsAgree
  <2>1. GoodGift(tasks[t], s, v, now)
    BY DEF ContextInv, GiftsGood, StepNames
  <2>. QED BY <2>1 DEF GoodGift
<1>. QED BY <1>1, ContextInductive, PTL

\* cache_checkpoint(): a cached checkpoint is the committed one, in the context
\* of the owner and in that of every worker that lost its claim.
THEOREM CacheCoherentHolds == ContextSpec => []CacheCoherent
<1>1. ContextInv => CacheCoherent
  <2>. SUFFICES ASSUME ContextInv, NEW w \in Workers, NEW s \in Steps, ctx[w].open,
                       ctx[w].cache[s] # NoValue, Live(tasks[ctx[w].task])
                PROVE  ctx[w].cache[s] = tasks[ctx[w].task].checkpoints[s]
    BY DEF CacheCoherent, ContextInv
  <2>1. ctx[w] \in Context
    BY OpenContext DEF ContextInv
  <2>2. GoodCache(ctx[w], tasks[ctx[w].task])
    BY DEF ContextInv, CachesGood
  <2>. QED BY <2>1, <2>2 DEF GoodCache
<1>. QED BY <1>1, ContextInductive, PTL

\* checkpoint_lock(): two futures of one attempt never run the body of one step
\* side by side, because each of them would hold the lock of its name.
THEOREM BodiesSerializedHolds == ContextSpec => []BodiesSerialized
<1>1. ContextInv => BodiesSerialized
  <2>. SUFFICES ASSUME ContextInv, NEW w \in Workers, NEW f \in Futures, NEW g \in Futures,
                       f # g, fut[w][f].pc \in {"body", "persisting"},
                       fut[w][g].pc \in {"body", "persisting"},
                       fut[w][f].step = fut[w][g].step
                PROVE  FALSE
    BY DEF BodiesSerialized
  <2>1. fut[w][f] # Resting /\ fut[w][g] # Resting
    BY FutureTyped DEF ContextInv
  <2>2. /\ ctx[w].locks[fut[w][f].step] = f
        /\ ctx[w].locks[fut[w][g].step] = g
    BY <2>1, FutureFacts DEF GoodFuture
  <2>. QED BY <2>2
<1>. QED BY <1>1, ContextInductive, PTL

\* TaskContext::sleep_until(): a sleep that returned did so at the committed
\* wake time or later, whatever wake time the replay asked for, and a suspended
\* run waits for a committed time or for the backoff of its retry.
THEOREM SleepKeepsItsTimeHolds == ContextSpec => []SleepKeepsItsTime
<1>1. ContextInv => SleepKeepsItsTime
  <2>. SUFFICES ASSUME ContextInv, NEW t \in Tasks, Live(tasks[t])
                PROVE  /\ \A s \in SleepNames : \A v \in returned[t][s] :
                            v = tasks[t].checkpoints[s] /\ v <= now
                       /\ tasks[t].state = "sleeping" =>
                            \/ \E s \in SleepNames :
                                 Current(tasks[t]).available_at = tasks[t].checkpoints[s]
                            \/ BackingOff(tasks[t])
    BY DEF SleepKeepsItsTime
  <2>1. ASSUME NEW s \in SleepNames, NEW v \in returned[t][s]
        PROVE  v = tasks[t].checkpoints[s] /\ v <= now
    <3>1. s \in Steps
      BY ContextAssumption
    <3>2. GoodGift(tasks[t], s, v, now)
      BY <3>1 DEF ContextInv, GiftsGood
    <3>. QED BY <3>2 DEF GoodGift
  <2>2. GoodRow(tasks[t])
    BY DEF ContextInv, RowsGood
  <2>. QED BY <2>1, <2>2 DEF GoodRow
<1>. QED BY <1>1, ContextInductive, PTL
=============================================================================
