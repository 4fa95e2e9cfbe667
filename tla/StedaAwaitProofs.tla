-------------------------- MODULE StedaAwaitProofs --------------------------
(***************************************************************************)
(* Theorems about StedaAwait: for every set of tasks, whatever they wait   *)
(* for, and any number of slots, permits and attempts.                     *)
(*                                                                         *)
(* A wait reads its child in one statement and writes its checkpoint in    *)
(* another, and an output is compared with one read by an attempt that is  *)
(* long gone.  The invariant therefore says that a child somebody read an  *)
(* output of can never run again: it is completed, or it was cleaned up    *)
(* after that, and nothing writes tasks.result in either state.            *)
(***************************************************************************)
EXTENDS StedaAwait, TLAPS

\* The states in which tasks.result does not change any more.
Closed == {"completed", "gone"}

\* A task that was submitted and not cleaned up has an attempt, and a
\* completed one has a result.
AttemptsCounted ==
    \A t \in Tasks :
        /\ life[t].phase \notin {"none", "gone"} => life[t].attempt >= 1
        /\ life[t].phase = "completed" => result[t] >= 1

\* v is what the task that t may wait for was completed with.
ReadOf(t, v) ==
    /\ Target[t] \in Tasks /\ life[Target[t]].phase \in Closed
    /\ v = result[Target[t]] /\ v >= 1

\* A wait is for a task that was submitted, and what was read of it is what it
\* was completed with.
WaitsWellFounded ==
    \A t \in Tasks :
        /\ call[t].pc = "polling" => Target[t] \in Tasks /\ life[Target[t]].phase # "none"
        /\ call[t].pc = "persisting" => ReadOf(t, call[t].output)

\* A wait with a timeout polls within it.
Punctual(t, c) ==
    c.pc = "polling" /\ Timeout[t] # NoTimeout => c.elapsed <= Timeout[t]

PollsInTime == \A t \in Tasks : Punctual(t, call[t])

\* So is what a checkpoint keeps, and only that is given to a handler.
CheckpointsKept ==
    \A t \in Tasks :
        /\ waited[t] # 0 => ReadOf(t, waited[t])
        /\ \A v \in given[t] : v = waited[t] /\ v # 0

AwaitInv ==
    /\ AwaitTypeOK
    /\ AttemptsCounted
    /\ WaitsWellFounded
    /\ CheckpointsKept
    /\ PollsInTime

Calls == {Idle} \cup { At(pc) : pc \in Stages } \cup Polling \cup Persisting

-----------------------------------------------------------------------------
(* The lifecycle of the tasks.                                             *)

\* A step of one task is a step of StedaTask.
LEMMA OneTaskMoves ==
    ASSUME life \in [Tasks -> Life], NEW t \in Tasks, NEW l \in Life, Step(life[t], l),
           life' = [life EXCEPT ![t] = l]
    PROVE  Next
<1>1. life' \in [Tasks -> Life]
  OBVIOUS
<1>2. ASSUME NEW u \in Tasks PROVE life'[u] = life[u] \/ Step(life[u], life'[u])
  <2>1. CASE u = t
    <3>1. life'[u] = l
      BY <2>1
    <3> QED BY <2>1, <3>1
  <2>2. CASE u # t
    BY <2>2
  <2> QED BY <2>1, <2>2
<1> QED BY <1>1, <1>2 DEF Next

\* So is a step that changes the phase alone.
LEMMA PhaseMoves ==
    ASSUME life \in [Tasks -> Life], NEW t \in Tasks,
           NEW phase \in {"executing", "completed", "cancelled"}, Moved(t, phase),
           \/ life[t].phase = "waiting" /\ phase \in {"executing", "cancelled"}
           \/ life[t].phase = "executing" /\ phase \in {"completed", "cancelled"}
    PROVE  Next /\ life'[t].phase = phase
<1> DEFINE l == [life[t] EXCEPT !.phase = phase]
<1>1. life[t] \in Life
  OBVIOUS
<1>2. l \in Life /\ l.phase = phase
  BY <1>1 DEF Life, Outcomes
<1>3. life' = [life EXCEPT ![t] = l]
  BY DEF Moved
<1>4. Step(life[t], l)
  BY DEF Step, Start, End, Outcomes
<1> HIDE DEF l
<1>5. life'[t] = l
  BY <1>3
<1> QED BY <1>2, <1>3, <1>4, <1>5, OneTaskMoves

\* A failed attempt is followed by the next one, or the task has failed.
LEMMA FailureMoves ==
    ASSUME life \in [Tasks -> Life], NEW t \in Tasks, life[t].phase = "executing",
           life' = [life EXCEPT ![t] = Failed(@)]
    PROVE  Next /\ life'[t].phase # "completed"
<1> DEFINE l == Failed(life[t])
<1>1. /\ life[t] \in Life /\ life[t].attempt \in 0 .. MaxAttempt
      /\ life[t].budget \in 0 .. MaxAttempt /\ MaxAttempt \in Nat
  BY AwaitAssumption DEF Life
<1>2. CASE life[t].attempt < life[t].budget
  <2>1. l = [life[t] EXCEPT !.phase = "waiting", !.attempt = @ + 1]
    BY <1>2 DEF Failed
  <2>2. l \in Life /\ l.phase = "waiting"
    <3>1. life[t].attempt + 1 \in 0 .. MaxAttempt
      BY <1>1, <1>2
    <3>2. l = [phase |-> "waiting", attempt |-> life[t].attempt + 1, budget |-> life[t].budget]
      BY <1>1, <2>1 DEF Life
    <3> QED BY <1>1, <3>1, <3>2 DEF Life
  <2>3. Step(life[t], l)
    BY <1>2, <2>1 DEF Step, NextAttempt
  <2> HIDE DEF l
  <2>4. life' = [life EXCEPT ![t] = l]
    BY DEF l
  <2> QED BY <2>2, <2>3, <2>4, OneTaskMoves
<1>3. CASE ~(life[t].attempt < life[t].budget)
  <2>1. l = [life[t] EXCEPT !.phase = "failed"]
    BY <1>3 DEF Failed
  <2>2. l \in Life /\ l.phase = "failed"
    BY <1>1, <2>1 DEF Life, Outcomes
  <2>3. Step(life[t], l)
    BY <2>1 DEF Step, End, Outcomes
  <2> HIDE DEF l
  <2>4. life' = [life EXCEPT ![t] = l]
    BY DEF l
  <2> QED BY <2>2, <2>3, <2>4, OneTaskMoves
<1> QED BY <1>2, <1>3

\* A step of StedaTask opens no closed task, and submits what it did not submit.
LEMMA LifeFacts ==
    ASSUME AwaitInv, Next, NEW u \in Tasks
    PROVE  /\ life'[u] \in Life
           /\ life[u].phase \in Closed => life'[u].phase \in Closed
           /\ life[u].phase # "none" => life'[u].phase # "none"
           /\ life'[u].phase \notin {"none", "gone"} => life'[u].attempt >= 1
<1> DEFINE l == life[u]
           m == life'[u]
<1>1. l \in Life /\ m \in Life /\ (m = l \/ Step(l, m))
  BY DEF AwaitInv, AwaitTypeOK, Next
<1>2. l.phase \notin {"none", "gone"} => l.attempt >= 1
  BY DEF AwaitInv, AttemptsCounted
<1>3. l.attempt \in Nat /\ m.attempt \in Nat
  BY <1>1, AwaitAssumption DEF Life
<1> SUFFICES /\ l.phase \in Closed => m.phase \in Closed
             /\ l.phase # "none" => m.phase # "none"
             /\ m.phase \notin {"none", "gone"} => m.attempt >= 1
  BY <1>1
<1> HIDE DEF l, m
<1>4. CASE m = l
  BY <1>2, <1>4
<1>5. CASE Submit(l, m)
  BY <1>3, <1>5 DEF Submit, Closed
<1>6. CASE Start(l, m) \/ Suspend(l, m) \/ End(l, m)
  <2>1. /\ l.phase \in {"waiting", "executing"} /\ m.attempt = l.attempt
        /\ m.phase \in {"waiting", "executing", "completed", "failed", "cancelled"}
    BY <1>1, <1>6 DEF Start, Suspend, End, Outcomes, Life
  <2> QED BY <1>2, <2>1 DEF Closed
<1>7. CASE NextAttempt(l, m)
  <2>1. l.phase = "executing" /\ m.attempt = l.attempt + 1 /\ m.phase \in {"waiting", "executing"}
    BY <1>1, <1>7 DEF NextAttempt, Life
  <2> QED BY <1>3, <2>1 DEF Closed
<1>8. CASE Reopen(l, m)
  <2>1. l.phase = "failed" /\ m.attempt = l.attempt + 1 /\ m.phase = "waiting"
    BY <1>8 DEF Reopen
  <2> QED BY <1>3, <2>1 DEF Closed
<1>9. CASE Forget(l, m)
  BY <1>9 DEF Forget, Nothing, Closed
<1> QED BY <1>1, <1>4, <1>5, <1>6, <1>7, <1>8, <1>9 DEF Step

-----------------------------------------------------------------------------
(* The invariant.                                                          *)

\* The stages of a call have the fields they are read with.
LEMMA CallFields ==
    ASSUME NEW c \in Calls
    PROVE  /\ c.pc = "polling" => c.delay \in Nat /\ c.elapsed \in Nat /\ c \in Polling
           /\ c.pc = "persisting" => c.output \in 0 .. MaxAttempt
           /\ c.pc \in {"idle", "polling", "persisting"} \cup Stages
<1>1. CASE c = Idle \/ c \in { At(pc) : pc \in Stages }
  BY <1>1 DEF Idle, At, Stages
<1>2. CASE c \in Polling
  BY <1>2 DEF Polling
<1>3. CASE c \in Persisting
  BY <1>3 DEF Persisting
<1> QED BY <1>1, <1>2, <1>3 DEF Calls

\* What the attempt of one task may do to the invariant: its call polls for a
\* submitted task or carries what it read of it, its checkpoint and what its
\* handler was given agree, and no closed task gets another result.
LEMMA AttemptKeeps ==
    ASSUME AwaitInv, Next, NEW t \in Tasks,
           holder' \in Tasks \cup {NoTask},
           call' \in [Tasks -> Calls], \A u \in Tasks \ {t} : call'[u] = call[u],
           call'[t].pc = "polling" => Target[t] \in Tasks /\ life[Target[t]].phase # "none",
           call'[t].pc = "persisting" => ReadOf(t, call'[t].output),
           Punctual(t, call'[t]),
           result' \in [Tasks -> 0 .. MaxAttempt],
           \A u \in Tasks : life[u].phase \in Closed => result'[u] = result[u],
           \A u \in Tasks : life'[u].phase = "completed" => result'[u] >= 1,
           waited' \in [Tasks -> 0 .. MaxAttempt], \A u \in Tasks \ {t} : waited'[u] = waited[u],
           waited'[t] # 0 => ReadOf(t, waited'[t]),
           given' \in [Tasks -> SUBSET (0 .. MaxAttempt)], \A u \in Tasks \ {t} : given'[u] = given[u],
           \A v \in given'[t] : v = waited'[t] /\ v # 0
    PROVE  AwaitInv'
<1>1. AwaitTypeOK'
  BY DEF AwaitTypeOK, Calls, Next
<1>2. AttemptsCounted'
  BY LifeFacts DEF AttemptsCounted
<1>3. ASSUME NEW u \in Tasks, NEW v, ReadOf(u, v) PROVE ReadOf(u, v)'
  <2>1. Target[u] \in Tasks /\ life[Target[u]].phase \in Closed
    BY <1>3 DEF ReadOf
  <2>2. life'[Target[u]].phase \in Closed /\ result'[Target[u]] = result[Target[u]]
    BY <2>1, LifeFacts
  <2> QED BY <1>3, <2>1, <2>2 DEF ReadOf
<1>4. WaitsWellFounded'
  <2> SUFFICES ASSUME NEW u \in Tasks
               PROVE  /\ call'[u].pc = "polling" => Target[u] \in Tasks /\ life'[Target[u]].phase # "none"
                      /\ call'[u].pc = "persisting" => ReadOf(u, call[u].output)'
    BY DEF WaitsWellFounded
  <2>1. call'[u].pc = "polling" => Target[u] \in Tasks /\ life[Target[u]].phase # "none"
    BY DEF AwaitInv, WaitsWellFounded
  <2>2. call'[u].pc = "persisting" => ReadOf(u, call'[u].output)
    BY DEF AwaitInv, WaitsWellFounded
  <2>3. call'[u].pc = "persisting" => ReadOf(u, call[u].output)'
    <3> SUFFICES ASSUME call'[u].pc = "persisting" PROVE ReadOf(u, call[u].output)'
      OBVIOUS
    <3>1. PICK v : v = call'[u].output
      OBVIOUS
    <3>2. ReadOf(u, v)'
      BY <1>3, <2>2, <3>1
    <3> QED BY <3>1, <3>2 DEF ReadOf
  <2> QED BY <2>1, <2>3, LifeFacts
<1>5. CheckpointsKept'
  <2> SUFFICES ASSUME NEW u \in Tasks
               PROVE  /\ waited'[u] # 0 => ReadOf(u, waited[u])'
                      /\ \A v \in given'[u] : v = waited'[u] /\ v # 0
    BY DEF CheckpointsKept
  <2>1. waited'[u] # 0 => ReadOf(u, waited'[u])
    BY DEF AwaitInv, CheckpointsKept
  <2>2. waited'[u] # 0 => ReadOf(u, waited[u])'
    <3> SUFFICES ASSUME waited'[u] # 0 PROVE ReadOf(u, waited[u])'
      OBVIOUS
    <3>1. PICK v : v = waited'[u]
      OBVIOUS
    <3>2. ReadOf(u, v)'
      BY <1>3, <2>1, <3>1
    <3> QED BY <3>1, <3>2 DEF ReadOf
  <2>3. \A v \in given'[u] : v = waited'[u] /\ v # 0
    <3>1. CASE u = t
      BY <3>1
    <3>2. CASE u # t
      BY <3>2 DEF AwaitInv, CheckpointsKept
    <3> QED BY <3>1, <3>2
  <2> QED BY <2>2, <2>3
<1>6. PollsInTime'
  <2>1. ASSUME NEW u \in Tasks PROVE Punctual(u, call'[u])
    BY DEF AwaitInv, PollsInTime
  <2> QED BY <2>1 DEF PollsInTime, Punctual
<1> QED BY <1>1, <1>2, <1>4, <1>5, <1>6 DEF AwaitInv

\* What every action starts from.
LEMMA StartingPoint ==
    ASSUME AwaitInv, NEW t \in Tasks
    PROVE  /\ life \in [Tasks -> Life] /\ life[t] \in Life
           /\ call \in [Tasks -> Calls] /\ call[t] \in Calls
           /\ holder \in Tasks \cup {NoTask}
           /\ result \in [Tasks -> 0 .. MaxAttempt] /\ waited \in [Tasks -> 0 .. MaxAttempt]
           /\ given \in [Tasks -> SUBSET (0 .. MaxAttempt)]
           /\ waited[t] # 0 => ReadOf(t, waited[t])
           /\ \A v \in given[t] : v = waited[t] /\ v # 0
           /\ call[t].pc = "polling" => Target[t] \in Tasks /\ life[Target[t]].phase # "none"
           /\ call[t].pc = "persisting" => ReadOf(t, call[t].output)
           /\ Punctual(t, call[t])
           /\ \A u \in Tasks : life[u].phase = "completed" => result[u] >= 1
BY DEF AwaitInv, AwaitTypeOK, Calls, CheckpointsKept, WaitsWellFounded, AttemptsCounted, PollsInTime

\* A call that ends, or goes on to a stage without a wait, changes nothing else.
LEMMA CallMovesOn ==
    ASSUME AwaitInv, Next, NEW t \in Tasks, NEW c \in {Idle} \cup { At(pc) : pc \in Stages },
           Goto(t, c), holder' \in Tasks \cup {NoTask},
           UNCHANGED <<result, waited, given>>,
           \A u \in Tasks : life'[u].phase = "completed" => life[u].phase = "completed"
    PROVE  AwaitInv'
<1>1. c \in Calls /\ c.pc \notin {"polling", "persisting"}
  BY DEF Calls, Idle, At, Stages
<1>2. /\ call' \in [Tasks -> Calls] /\ call'[t] = c
      /\ \A u \in Tasks \ {t} : call'[u] = call[u]
  BY <1>1, StartingPoint DEF Goto
<1>3. Punctual(t, call'[t])
  BY <1>1, <1>2 DEF Punctual
<1> QED BY <1>1, <1>2, <1>3, StartingPoint, AttemptKeeps

\* So does a step that is about the lifecycle alone.
LEMMA CallStays ==
    ASSUME AwaitInv, Next, NEW t \in Tasks, UNCHANGED <<call, holder, result, waited, given>>,
           \A u \in Tasks : life'[u].phase = "completed" => life[u].phase = "completed"
    PROVE  AwaitInv'
<1>1. call'[t] = call[t] /\ \A u \in Tasks \ {t} : call'[u] = call[u]
  OBVIOUS
<1> QED BY <1>1, StartingPoint, AttemptKeeps

\* No task but t changes, and t is not completed.
LEMMA NoCompletion ==
    ASSUME AwaitInv, NEW t \in Tasks, \A u \in Tasks \ {t} : life'[u] = life[u],
           life'[t].phase # "completed"
    PROVE  \A u \in Tasks : life'[u].phase = "completed" => life[u].phase = "completed"
OBVIOUS

\* A step that leaves the lifecycle alone is a stuttering step of it.
LEMMA LifeStutters ==
    ASSUME AwaitInv, life' = life
    PROVE  Next /\ \A u \in Tasks : life'[u].phase = "completed" => life[u].phase = "completed"
BY DEF AwaitInv, AwaitTypeOK, Next

\* The guard of the lock is released.
LEMMA HolderTyped ==
    ASSUME AwaitInv, NEW t \in Tasks, Leave(t)
    PROVE  holder' \in Tasks \cup {NoTask}
BY StartingPoint DEF Leave

\* A failure of the attempt of t.
LEMMA FailsKeeps ==
    ASSUME AwaitInv, NEW t \in Tasks, life[t].phase = "executing", Fails(t),
           UNCHANGED <<result, waited, given>>
    PROVE  Next /\ AwaitInv'
<1>1. life \in [Tasks -> Life] /\ life' = [life EXCEPT ![t] = Failed(@)]
  BY StartingPoint DEF Fails
<1>2. Next /\ life'[t].phase # "completed"
  BY <1>1, FailureMoves
<1>3. \A u \in Tasks \ {t} : life'[u] = life[u]
  BY <1>1
<1>4. Leave(t) /\ Goto(t, Idle)
  BY DEF Fails, Leave
<1> QED BY <1>2, <1>3, <1>4, NoCompletion, HolderTyped, CallMovesOn

\* Clients and retention.
LEMMA ClientKeeps ==
    ASSUME AwaitInv, NEW t \in Tasks,
           SubmitTask(t) \/ CancelTask(t) \/ RetryTask(t) \/ CleanupTask(t) \/ Reap(t)
    PROVE  Next /\ AwaitInv'
<1>0. life \in [Tasks -> Life] /\ life[t] \in Life /\ UNCHANGED <<call, holder, result, waited, given>>
  BY StartingPoint DEF SubmitTask, CancelTask, RetryTask, CleanupTask, Reap
<1> SUFFICES Next /\ life'[t].phase # "completed" /\ \A u \in Tasks \ {t} : life'[u] = life[u]
  BY <1>0, NoCompletion, CallStays
<1>1. CASE SubmitTask(t)
  <2>1. PICK budget \in 1 .. MaxAttempt :
          life' = [life EXCEPT ![t] = [phase |-> "waiting", attempt |-> 1, budget |-> budget]]
    BY <1>1 DEF SubmitTask
  <2> DEFINE l == [phase |-> "waiting", attempt |-> 1, budget |-> budget]
  <2>2. l \in Life /\ l.phase = "waiting"
    BY AwaitAssumption DEF Life
  <2>3. Step(life[t], l)
    BY <1>1 DEF SubmitTask, Step, Submit
  <2> HIDE DEF l
  <2>4. life' = [life EXCEPT ![t] = l]
    BY <2>1 DEF l
  <2> QED BY <1>0, <2>2, <2>3, <2>4, OneTaskMoves
<1>2. CASE CancelTask(t)
  <2>1. Moved(t, "cancelled") /\ life[t].phase \in {"waiting", "executing"}
    BY <1>2 DEF CancelTask
  <2>2. Next /\ life'[t].phase = "cancelled"
    BY <1>0, <2>1, PhaseMoves
  <2> QED BY <1>0, <2>1, <2>2 DEF Moved
<1>3. CASE RetryTask(t)
  <2> DEFINE l == [phase |-> "waiting", attempt |-> life[t].attempt + 1,
                   budget |-> IF life[t].budget > life[t].attempt THEN life[t].budget
                              ELSE life[t].attempt + 1]
  <2>1. life' = [life EXCEPT ![t] = l] /\ life[t].phase = "failed" /\ life[t].attempt < MaxAttempt
    BY <1>0, <1>3 DEF RetryTask
  <2>2. life[t].attempt \in 0 .. MaxAttempt /\ life[t].budget \in 0 .. MaxAttempt /\ MaxAttempt \in Nat
    BY <1>0, AwaitAssumption DEF Life
  <2>3. life[t].attempt + 1 \in 0 .. MaxAttempt
    BY <2>1, <2>2
  <2>4. l \in Life /\ l.phase = "waiting"
    BY <2>2, <2>3 DEF Life
  <2>5. Step(life[t], l)
    BY <2>1 DEF Step, Reopen
  <2> HIDE DEF l
  <2> QED BY <1>0, <2>1, <2>4, <2>5, OneTaskMoves
<1>4. CASE CleanupTask(t)
  <2> DEFINE l == Nothing("gone")
  <2>1. life' = [life EXCEPT ![t] = l] /\ Step(life[t], l)
    BY <1>4 DEF CleanupTask, Step, Forget
  <2>2. l \in Life /\ l.phase = "gone"
    BY AwaitAssumption DEF Nothing, Life
  <2> HIDE DEF l
  <2> QED BY <1>0, <2>1, <2>2, OneTaskMoves
<1>5. CASE Reap(t)
  <2>1. life' = [life EXCEPT ![t] = Failed(@)] /\ life[t].phase = "executing"
    BY <1>5 DEF Reap
  <2> QED BY <1>0, <2>1, FailureMoves
<1> QED BY <1>1, <1>2, <1>3, <1>4, <1>5

\* Crashes, claims, the shared service and supervision.
LEMMA ServiceKeeps ==
    ASSUME AwaitInv, NEW t \in Tasks,
           Crash(t) \/ ClaimTask(t) \/ LockService(t) \/ CallService(t) \/ Supervise(t)
    PROVE  Next /\ AwaitInv'
<1>1. CASE Crash(t) \/ Supervise(t)
  <2>1. life' = life /\ Leave(t) /\ Goto(t, Idle) /\ UNCHANGED <<result, waited, given>>
    BY <1>1 DEF Crash, Supervise, Leave
  <2> QED BY <2>1, LifeStutters, HolderTyped, CallMovesOn
<1>2. CASE ClaimTask(t)
  <2>1. /\ Moved(t, "executing") /\ life[t].phase = "waiting" /\ Goto(t, At("entering"))
        /\ UNCHANGED <<holder, result, waited, given>>
    BY <1>2 DEF ClaimTask
  <2>2. Next /\ life'[t].phase = "executing"
    BY <2>1, StartingPoint, PhaseMoves
  <2>3. \A u \in Tasks \ {t} : life'[u] = life[u]
    BY <2>1, StartingPoint DEF Moved
  <2>4. At("entering") \in { At(pc) : pc \in Stages }
    BY DEF Stages
  <2> QED BY <2>1, <2>2, <2>3, <2>4, StartingPoint, NoCompletion, CallMovesOn
<1>3. CASE LockService(t)
  <2>1. life' = life /\ Goto(t, At("readying")) /\ holder' = t /\ UNCHANGED <<result, waited, given>>
    BY <1>3 DEF LockService
  <2>2. At("readying") \in { At(pc) : pc \in Stages }
    BY DEF Stages
  <2> QED BY <2>1, <2>2, LifeStutters, CallMovesOn
<1>4. CASE CallService(t)
  <2>1. life' = life /\ Goto(t, At("handler")) /\ holder' = NoTask /\ UNCHANGED <<result, waited, given>>
    BY <1>4 DEF CallService
  <2>2. At("handler") \in { At(pc) : pc \in Stages }
    BY DEF Stages
  <2> QED BY <2>1, <2>2, LifeStutters, CallMovesOn
<1> QED BY <1>1, <1>2, <1>3, <1>4

\* The beginning of a wait: refused, replayed from its checkpoint, or polling.
LEMMA BeginWaitKeeps ==
    ASSUME AwaitInv, NEW t \in Tasks, BeginWait(t)
    PROVE  Next /\ AwaitInv'
<1>0. /\ life[t].phase = "executing" /\ Target[t] \in Tasks /\ life[Target[t]].phase # "none"
      /\ UNCHANGED <<result, waited>>
  BY AwaitAssumption DEF BeginWait, Runs
<1>1. CASE Fails(t) /\ UNCHANGED given
  BY <1>0, <1>1, FailsKeeps
<1>2. CASE /\ waited[t] # 0 /\ Goto(t, At("waited"))
           /\ given' = [given EXCEPT ![t] = @ \cup {waited[t]}] /\ UNCHANGED <<life, holder>>
  <2>1. At("waited") \in Calls /\ At("waited").pc = "waited"
    BY DEF Calls, At, Stages
  <2>2. /\ call' \in [Tasks -> Calls] /\ call'[t].pc = "waited"
        /\ \A u \in Tasks \ {t} : call'[u] = call[u]
    BY <1>2, <2>1, StartingPoint DEF Goto
  <2>3. waited[t] \in 0 .. MaxAttempt /\ given[t] \in SUBSET (0 .. MaxAttempt)
    BY StartingPoint
  <2>4. /\ given' \in [Tasks -> SUBSET (0 .. MaxAttempt)]
        /\ given'[t] = given[t] \cup {waited[t]} /\ \A u \in Tasks \ {t} : given'[u] = given[u]
    BY <1>2, <2>3, StartingPoint
  <2>5. \A v \in given'[t] : v = waited[t] /\ v # 0
    BY <1>2, <2>4, StartingPoint
  <2>6. Punctual(t, call'[t])
    BY <2>2 DEF Punctual
  <2> QED BY <1>0, <1>2, <2>2, <2>4, <2>5, <2>6, StartingPoint, LifeStutters, AttemptKeeps
<1>3. CASE /\ Goto(t, [pc |-> "polling", delay |-> InitialBackoff, elapsed |-> 0])
           /\ UNCHANGED <<life, holder, given>>
  <2> DEFINE c == [pc |-> "polling", delay |-> InitialBackoff, elapsed |-> 0]
  <2>1. c \in Calls /\ c.pc = "polling" /\ Punctual(t, c)
    BY AwaitAssumption DEF Calls, Polling, Punctual
  <2> HIDE DEF c
  <2>2. /\ call' \in [Tasks -> Calls] /\ call'[t] = c
        /\ \A u \in Tasks \ {t} : call'[u] = call[u]
    BY <1>3, <2>1, StartingPoint DEF Goto, c
  <2>3. Punctual(t, call'[t])
    BY <2>1, <2>2
  <2> QED BY <1>0, <1>3, <2>1, <2>2, <2>3, StartingPoint, LifeStutters, AttemptKeeps
<1> QED BY <1>1, <1>2, <1>3 DEF BeginWait

\* The next delay is within what is left of the timeout.
LEMMA SleptTyped ==
    ASSUME NEW t \in Tasks, call[t] \in Polling, ~TimedOut(t)
    PROVE  Slept(t) \in Polling /\ Punctual(t, Slept(t))
<1>1. call[t].delay \in Nat /\ call[t].elapsed \in Nat /\ MaxBackoff \in Nat
  BY AwaitAssumption DEF Polling
<1>2. Delay(t) \in Nat
  <2>1. CASE Timeout[t] = NoTimeout
    BY <1>1, <2>1 DEF Delay
  <2>2. CASE Timeout[t] # NoTimeout
    <3>1. Timeout[t] \in Nat /\ call[t].elapsed < Timeout[t]
      BY <1>1, <2>2, AwaitAssumption DEF TimedOut
    <3> QED BY <1>1, <2>2, <3>1 DEF Delay, Smaller
  <2> QED BY <2>1, <2>2
<1> DEFINE delay == Smaller(2 * Delay(t), MaxBackoff)
           elapsed == IF Timeout[t] = NoTimeout THEN 0 ELSE call[t].elapsed + Delay(t)
<1>3. delay \in Nat /\ elapsed \in Nat
  BY <1>1, <1>2 DEF Smaller
<1>4. Slept(t) = [call[t] EXCEPT !.delay = delay, !.elapsed = elapsed]
  BY DEF Slept, Polling
<1> HIDE DEF delay, elapsed
<1>5. Slept(t) = [pc |-> "polling", delay |-> delay, elapsed |-> elapsed]
  BY <1>4 DEF Polling
<1>6. Timeout[t] # NoTimeout => elapsed <= Timeout[t]
  <2> SUFFICES ASSUME Timeout[t] # NoTimeout PROVE elapsed <= Timeout[t]
    OBVIOUS
  <2>1. Timeout[t] \in Nat /\ call[t].elapsed < Timeout[t]
    BY <1>1, AwaitAssumption DEF TimedOut
  <2>2. Delay(t) <= Timeout[t] - call[t].elapsed
    BY <1>1, <2>1 DEF Delay, Smaller
  <2> QED BY <1>1, <1>2, <2>1, <2>2 DEF elapsed
<1> QED BY <1>3, <1>5, <1>6 DEF Polling, Punctual

\* One round of polling.
LEMMA PollResultKeeps ==
    ASSUME AwaitInv, NEW t \in Tasks, PollResult(t)
    PROVE  Next /\ AwaitInv'
<1> DEFINE target == life[Target[t]].phase
<1>0. /\ life[t].phase = "executing" /\ call[t].pc = "polling" /\ call[t] \in Polling
      /\ UNCHANGED <<result, waited, given>>
      /\ Target[t] \in Tasks /\ target # "none"
  BY StartingPoint, CallFields DEF PollResult, Runs
<1>1. target \in {"waiting", "executing", "gone", "completed", "failed", "cancelled"}
  BY <1>0, StartingPoint DEF Life, Outcomes
<1>2. \/ Fails(t)
      \/ /\ target = "completed" /\ UNCHANGED <<life, holder>>
         /\ Goto(t, [pc |-> "persisting", output |-> result[Target[t]]])
      \/ ~TimedOut(t) /\ Goto(t, Slept(t)) /\ UNCHANGED <<life, holder>>
  BY <1>1 DEF PollResult
<1>3. CASE Fails(t)
  BY <1>0, <1>3, FailsKeeps
<1>4. CASE /\ target = "completed" /\ UNCHANGED <<life, holder>>
           /\ Goto(t, [pc |-> "persisting", output |-> result[Target[t]]])
  <2> DEFINE c == [pc |-> "persisting", output |-> result[Target[t]]]
  <2>1. result[Target[t]] \in 0 .. MaxAttempt /\ result[Target[t]] >= 1
    BY <1>0, <1>4, StartingPoint
  <2>2. c \in Calls /\ c.pc = "persisting" /\ c.output = result[Target[t]]
    BY <2>1 DEF Calls, Persisting
  <2>3. ReadOf(t, c.output)
    BY <1>0, <1>4, <2>1, <2>2 DEF ReadOf, Closed
  <2> HIDE DEF c
  <2>4. /\ call' \in [Tasks -> Calls] /\ call'[t] = c
        /\ \A u \in Tasks \ {t} : call'[u] = call[u]
    BY <1>4, <2>2, StartingPoint DEF Goto, c
  <2>5. ReadOf(t, call'[t].output) /\ Punctual(t, call'[t])
    BY <2>2, <2>3, <2>4 DEF Punctual
  <2> QED BY <1>0, <1>4, <2>2, <2>4, <2>5, StartingPoint, LifeStutters, AttemptKeeps
<1>5. CASE ~TimedOut(t) /\ Goto(t, Slept(t)) /\ UNCHANGED <<life, holder>>
  <2> DEFINE c == Slept(t)
  <2>1. c \in Calls /\ c.pc = "polling" /\ Punctual(t, c)
    BY <1>0, <1>5, SleptTyped DEF Calls, Polling
  <2> HIDE DEF c
  <2>2. /\ call' \in [Tasks -> Calls] /\ call'[t] = c
        /\ \A u \in Tasks \ {t} : call'[u] = call[u]
    BY <1>5, <2>1, StartingPoint DEF Goto, c
  <2>3. Punctual(t, call'[t])
    BY <2>1, <2>2
  <2> QED BY <1>0, <1>5, <2>1, <2>2, <2>3, StartingPoint, LifeStutters, AttemptKeeps
<1> QED BY <1>2, <1>3, <1>4, <1>5

\* The checkpoint of a wait: an earlier one can only have kept the same output.
LEMMA PersistWaitKeeps ==
    ASSUME AwaitInv, NEW t \in Tasks, PersistWait(t)
    PROVE  Next /\ AwaitInv'
<1> DEFINE output == call[t].output
<1>1. /\ life' = life /\ holder' = holder /\ result' = result /\ Goto(t, At("waited"))
      /\ waited' = [waited EXCEPT ![t] = output] /\ given' = [given EXCEPT ![t] = @ \cup {output}]
  BY DEF PersistWait
<1>2. ReadOf(t, output) /\ output \in 0 .. MaxAttempt
  BY StartingPoint, CallFields DEF PersistWait, Runs
<1> HIDE DEF output
<1>3. At("waited") \in Calls /\ At("waited").pc = "waited"
  BY DEF Calls, At, Stages
<1>4. /\ call' \in [Tasks -> Calls] /\ call'[t].pc = "waited"
      /\ \A u \in Tasks \ {t} : call'[u] = call[u]
  BY <1>1, <1>3, StartingPoint DEF Goto
<1>5. /\ waited' \in [Tasks -> 0 .. MaxAttempt] /\ waited'[t] = output
      /\ \A u \in Tasks \ {t} : waited'[u] = waited[u]
  BY <1>1, <1>2, StartingPoint
<1>6. given[t] \in SUBSET (0 .. MaxAttempt)
  BY StartingPoint
<1>7. /\ given' \in [Tasks -> SUBSET (0 .. MaxAttempt)] /\ given'[t] = given[t] \cup {output}
      /\ \A u \in Tasks \ {t} : given'[u] = given[u]
  BY <1>1, <1>2, <1>6, StartingPoint
<1>8. \A v \in given[t] : v = output
  BY <1>2, StartingPoint DEF ReadOf
<1>9. output # 0
  BY <1>2 DEF ReadOf
<1>10. \A v \in given'[t] : v = waited'[t] /\ v # 0
  BY <1>5, <1>7, <1>8, <1>9
<1>11. waited'[t] # 0 => ReadOf(t, waited'[t])
  BY <1>2, <1>5
<1>12. Punctual(t, call'[t])
  BY <1>4 DEF Punctual
<1> QED BY <1>1, <1>4, <1>5, <1>7, <1>10, <1>11, <1>12, StartingPoint, LifeStutters, AttemptKeeps

\* complete_run() writes the result of a task that was executing, which nobody
\* can have read yet.
LEMMA HandlerReturnsKeeps ==
    ASSUME AwaitInv, NEW t \in Tasks, HandlerReturns(t)
    PROVE  Next /\ AwaitInv'
<1>1. /\ life[t].phase = "executing" /\ Moved(t, "completed") /\ Leave(t)
      /\ result' = [result EXCEPT ![t] = life[t].attempt] /\ UNCHANGED <<waited, given>>
  BY DEF HandlerReturns, HandlerDone, Runs
<1>2. Next /\ life'[t].phase = "completed"
  BY <1>1, StartingPoint, PhaseMoves
<1>3. \A u \in Tasks \ {t} : life'[u] = life[u]
  BY <1>1, StartingPoint DEF Moved
<1>4. Idle \in Calls /\ Idle.pc = "idle"
  BY DEF Calls, Idle
<1>5. /\ call' \in [Tasks -> Calls] /\ call'[t].pc = "idle"
      /\ \A u \in Tasks \ {t} : call'[u] = call[u]
  BY <1>1, <1>4, StartingPoint DEF Leave, Goto
<1>6. life[t].attempt \in 0 .. MaxAttempt /\ life[t].attempt >= 1
  BY <1>1, StartingPoint DEF Life, AwaitInv, AttemptsCounted
<1>7. /\ result' \in [Tasks -> 0 .. MaxAttempt] /\ result'[t] = life[t].attempt
      /\ \A u \in Tasks \ {t} : result'[u] = result[u]
  BY <1>1, <1>6, StartingPoint
<1>8. \A u \in Tasks : life[u].phase \in Closed => result'[u] = result[u]
  BY <1>1, <1>7 DEF Closed
<1>9. \A u \in Tasks : life'[u].phase = "completed" => result'[u] >= 1
  BY <1>3, <1>6, <1>7, StartingPoint
<1>10. Punctual(t, call'[t])
  BY <1>5 DEF Punctual
<1> QED BY <1>1, <1>2, <1>5, <1>7, <1>8, <1>9, <1>10, StartingPoint, HolderTyped, AttemptKeeps

\* Every step keeps the invariant, and is a step of the lifecycle or none.
LEMMA AwaitStep ==
    ASSUME AwaitInv, [AwaitNext]_awaitVars
    PROVE  Next /\ AwaitInv'
<1>1. ASSUME NEW t \in Tasks, HandlerFails(t) PROVE Next /\ AwaitInv'
  <2>1. life[t].phase = "executing" /\ Fails(t) /\ UNCHANGED <<result, waited, given>>
    BY <1>1 DEF HandlerFails, HandlerDone, Runs
  <2> QED BY <2>1, FailsKeeps
<1>2. CASE AwaitNext
  BY <1>1, <1>2, ClientKeeps, ServiceKeeps, BeginWaitKeeps, PollResultKeeps, PersistWaitKeeps,
     HandlerReturnsKeeps DEF AwaitNext, HandlerStep
<1>3. CASE UNCHANGED awaitVars
  <2>1. Next
    BY <1>3, LifeStutters DEF awaitVars
  <2>2. AwaitInv'
    BY <1>3 DEF awaitVars, AwaitInv, AwaitTypeOK, AttemptsCounted, WaitsWellFounded,
                CheckpointsKept, ReadOf, PollsInTime, Punctual
  <2> QED BY <2>1, <2>2
<1> QED BY <1>2, <1>3

\* Nobody has submitted anything yet.
LEMMA AwaitStart == AwaitInit => AwaitInv
<1> SUFFICES ASSUME AwaitInit PROVE AwaitInv
  OBVIOUS
<1>1. Nothing("none") \in Life /\ Nothing("none").phase = "none"
  BY AwaitAssumption DEF Nothing, Life
<1>2. life \in [Tasks -> Life] /\ \A t \in Tasks : life[t].phase = "none"
  BY <1>1 DEF AwaitInit, Init
<1>3. 0 \in 0 .. MaxAttempt
  BY AwaitAssumption
<1>4. AwaitTypeOK
  BY <1>2, <1>3 DEF AwaitInit, AwaitTypeOK
<1>5. \A t \in Tasks : call[t].pc = "idle" /\ waited[t] = 0 /\ given[t] = {}
  BY DEF AwaitInit, Idle
<1> QED BY <1>2, <1>4, <1>5 DEF AwaitInv, AttemptsCounted, WaitsWellFounded, CheckpointsKept,
       PollsInTime, Punctual

-----------------------------------------------------------------------------
(* Theorems.                                                               *)

\* The strengthened invariant holds of every reachable state.
THEOREM AwaitInvariance == AwaitSpec => []AwaitInv
BY AwaitStart, AwaitStep, PTL DEF AwaitSpec

\* For every set of tasks and whatever waits for what: however often a parent is
\* retried, its await_task() returns one output, which is the one its child was
\* completed with, even after retention removed the child; and whatever the backoff,
\* a wait with a timeout never sleeps beyond it.
THEOREM WaitsAgreeHolds == AwaitSpec => []WaitsAgree
<1>1. AwaitInv => WaitsAgree
  <2> SUFFICES ASSUME AwaitInv PROVE WaitsAgree
    OBVIOUS
  <2>1. ASSUME NEW t \in Tasks, NEW v \in given[t] PROVE v = waited[t] /\ v = result[Target[t]]
    BY StartingPoint DEF ReadOf
  <2> QED BY <2>1 DEF WaitsAgree, AwaitInv, PollsInTime, Punctual
<1> QED
  BY AwaitInvariance, <1>1, PTL

\* Workers that await each other's tasks keep the lifecycle that the queues
\* promise: every step of the composed system moves each task as StedaTask does,
\* or not at all.  StedaQueueProofs shows the same of the queue itself, so that
\* the waits may rely on StedaTask for the queues they poll.
THEOREM AwaitKeepsLifecycle == AwaitSpec => Spec
<1>1. AwaitInit => Init
  BY DEF AwaitInit
<1>2. AwaitInv /\ [AwaitNext]_awaitVars => [Next]_life
  BY AwaitStep
<1> QED
  BY AwaitInvariance, <1>1, <1>2, PTL DEF AwaitSpec, Spec
=============================================================================
