-------------------------- MODULE StedaClientProofs -------------------------
(***************************************************************************)
(* Theorems about StedaClient for every number of clients, tasks, workers  *)
(* and handles: what handles were told, and what they were allowed to do,  *)
(* over all interleavings with workers, retries, deadlines and cleanup.    *)
(*                                                                         *)
(* The rows move by the relation RowNext of StedaQueueProofs, also when    *)
(* a caller commits a submission whose clock reading is old.  The rest is  *)
(* about state that outlives the statement that produced it: an answer, a  *)
(* reservation of a task id, a check of a reference made one statement     *)
(* before the call it protects.                                            *)
(***************************************************************************)
EXTENDS StedaClient, StedaQueueProofs

\* An open submission is the only one of its task id, and no row shows it yet.
Reserved ==
    \A c \in Clients : op[c].pc = "submitting" =>
        /\ tasks[op[c].task].state = "absent"
        /\ op[c].at <= now
        /\ \A d \in Clients : op[d].pc = "submitting" /\ op[d].task = op[c].task => d = c

\* The reference a control call checked still names the task, or it is gone.
Checked ==
    \A c \in Clients :
        /\ op[c].pc \in {"cancel", "retry", "result"} => ref[c].held
        /\ op[c].pc \in {"cancel", "retry"} =>
             LET r == tasks[ref[c].task]
             IN  r.state # "absent" /\ (Live(r) => r.req.name = ref[c].name)

\* What was told is what the row says, until it is deleted.
ToldOutcomes == \A t \in Tasks : \A o \in told[t] : tasks[t].state \in {o, "deleted"}

ClientInv ==
    /\ ShapeInv /\ ClientTypeOK
    /\ Reserved /\ Checked /\ ToldOutcomes /\ CancelIsDurable

-----------------------------------------------------------------------------
(* Types.                                                                  *)

\* An open submission has its task, its request and its clock reading; a held
\* reference has its task and its name.
LEMMA ClientTyped ==
    ASSUME ClientTypeOK, NEW c \in Clients
    PROVE  /\ op[c].pc = "submitting" => /\ op[c].task \in Tasks
                                         /\ op[c].req \in Requests
                                         /\ op[c].at \in 0 .. MaxTime
           /\ ref[c].held => ref[c].task \in Tasks /\ ref[c].name \in Names
<1>1. op[c] \in {Resting} \cup Submitting \cup Operation /\ ref[c] \in TaskRef \cup {NoRef}
  BY DEF ClientTypeOK
<1>2. op[c].pc = "submitting" => op[c] \in Submitting
  BY <1>1 DEF Resting, Operation
<1>3. ref[c].held => ref[c] \in TaskRef
  <2>1. NoRef.held = FALSE
    BY DEF NoRef
  <2>. QED BY <1>1, <2>1, Zenon
<1>. QED BY <1>2, <1>3 DEF Submitting, TaskRef

-----------------------------------------------------------------------------
(* The rows under clients.                                                 *)

\* Workers, maintenance and time act by the queue's own functions.
LEMMA ExecutionIsNext ==
    ASSUME Execution
    PROVE  [Next]_vars
<1>1. ASSUME NEW w \in Workers, ClaimTasks(w, Names, 1)
      PROVE  Next
  BY <1>1, NamesInhabited DEF Next
<1>2. ASSUME NEW t \in Tasks, NEW a \in Attempts,
             CompleteRun(t, a) \/ FailRun(t, a) \/ SuperviseRun(t, a, TRUE)
      PROVE  Next
  BY <1>2 DEF Next
<1>3. ASSUME NEW t \in Tasks, NEW a \in Attempts, NEW wake \in 1 .. MaxWake,
             ScheduleRun(t, a, wake)
      PROVE  Next
  <2>1. wake \in 0 .. MaxWake
    BY BoundsAssumption
  <2>. QED BY <1>3, <2>1 DEF Next
<1>4. CleanupTasks \/ Tick => Next
  BY DEF Next
<1>. QED BY <1>1, <1>2, <1>3, <1>4 DEF Execution

\* A client's call is a call of the queue, leaves the rows alone, or commits.
LEMMA CallIsNext ==
    ASSUME ClientTypeOK, NEW c \in Clients, Call(c)
    PROVE  [Next]_vars \/ Commit(c)
<1>1. ASSUME NEW t \in Tasks, NEW req \in Requests, Spawn(c, t, req) \/ Submit(c, t, req)
      PROVE  [Next]_vars
  BY <1>1 DEF Spawn, Submit, Next, vars
<1>2. ASSUME ref[c].held, NEW at \in ReadBefore(ref[c].task), Cancel(c, at) \/ Retry(c, at)
      PROVE  [Next]_vars
  <2>1. ref[c].task \in Tasks
    BY <1>2, ClientTyped
  <2>2. CancelTask(ref[c].task, at) \/ RetryTask(ref[c].task, at) => Next
    BY <1>2, <2>1 DEF Next
  <2>. QED BY <1>2, <2>2 DEF Cancel, Retry, vars
<1>3. ASSUME \/ Rollback(c) \/ TakeSnapshot(c) \/ AwaitResult(c) \/ ResultTold(c)
             \/ ResultTimesOut(c) \/ GiveUp(c)
             \/ \E p \in {"cancel", "retry"} : EnsureTaskRef(c, p)
             \/ \E t \in Tasks, name \in Names : Attach(c, t, name)
      PROVE  UNCHANGED vars
  BY <1>3 DEF Rollback, Attach, TakeSnapshot, AwaitResult, ResultTold, ResultTimesOut,
              GiveUp, EnsureTaskRef, vars
<1>. QED BY <1>1, <1>2, <1>3 DEF Call

\* Committing a submission is one step of its row, at the clock reading the
\* submission made before.
LEMMA CommitSteps ==
    ASSUME ShapeInv, ClientTypeOK, Reserved, NEW c \in Clients, Commit(c)
    PROVE  ShapeInv' /\ \A t \in Tasks : RowNext(tasks[t], tasks'[t], now)
<1>. DEFINE t == op[c].task
            row == Spawned(op[c].req, op[c].at)
<1>1. /\ t \in Tasks /\ op[c].req \in Requests /\ op[c].at \in 0 .. now
      /\ tasks[t].state = "absent" /\ Update(t, row) /\ now' = now
  BY ClientTyped DEF Commit, Reserved, ShapeInv, TypeOK
<1>2. row \in Row /\ RowShape(row)
  BY <1>1, SpawnedTyped, SpawnedShape
<1>3. RowNext(tasks[t], row, now)
  BY <1>1 DEF RowNext, SpawnStep
<1>. HIDE DEF t, row
<1>4. TypeOK'
  BY <1>1, <1>2, UpdateTyped DEF ShapeInv
<1>. QED BY <1>1, <1>2, <1>3, <1>4, UpdateShape, UpdateStep DEF ShapeInv

\* Every step of the system moves each row by the row relation.
LEMMA ClientRowSteps ==
    ASSUME ShapeInv, ClientTypeOK, Reserved, [ClientNext]_clientVars
    PROVE  ShapeInv' /\ \A t \in Tasks : RowNext(tasks[t], tasks'[t], now)
<1>1. [Next]_vars \/ \E c \in Clients : Commit(c)
  BY ExecutionIsNext, CallIsNext DEF ClientNext, clientVars, vars
<1>. QED BY <1>1, CommitSteps, ShapeStep, RowSteps

-----------------------------------------------------------------------------
(* Who may start a task and who may reopen one.                            *)

\* The row of a task that waits for nothing stays, or cleanup deletes it.
Settled(t) ==
    tasks[t].state \notin Active =>
        \/ tasks'[t] = tasks[t]
        \/ tasks[t].state \in Terminal /\ tasks'[t].state = "deleted"

\* Only the row that is written moves.
LEMMA UpdateSettled ==
    ASSUME TypeOK, NEW u \in Tasks, NEW row, Update(u, row), tasks[u].state \in Active
    PROVE  \A t \in Tasks : Settled(t)
BY DEF TypeOK, Update, Settled

\* Workers and maintenance start and reopen no task.
LEMMA ExecutionSettled ==
    ASSUME ShapeInv, Execution
    PROVE  \A t \in Tasks : Settled(t)
<1>1. TypeOK /\ now \in Nat /\ \A t \in Tasks : tasks[t] \in Row /\ RowShape(tasks[t])
  BY DEF ShapeInv, TypeOK
<1>2. ASSUME NEW t \in Tasks, NEW a \in Attempts, Fenced(t, a)
      PROVE  tasks[t].state \in Active
  BY <1>1, <1>2, FencedOwned DEF Owned, Active
<1>3. ASSUME NEW u \in Tasks, NEW a \in Attempts,
             CompleteRun(u, a) \/ FailRun(u, a) \/ SuperviseRun(u, a, TRUE)
               \/ \E wake \in 1 .. MaxWake : ScheduleRun(u, a, wake)
      PROVE  \A t \in Tasks : Settled(t)
  <2>1. tasks[u].state \in Active /\ \E row : Update(u, row)
    BY <1>2, <1>3 DEF CompleteRun, FailRun, SuperviseRun, ScheduleRun, Active
  <2>. QED BY <1>1, <2>1, UpdateSettled
<1>4. ASSUME NEW w \in Workers, ClaimTasks(w, Names, 1), NEW t \in Tasks
      PROVE  Settled(t)
  <2>1. ClaimRow(tasks[t], tasks'[t], now)
    BY <1>4, ClaimTasksSteps, NamesInhabited
  <2>. QED BY <2>1 DEF ClaimRow, ReclaimStep, CancelStep, ClaimStep, Claimable, FailStep, Owned,
                       Settled, Active
<1>5. CleanupTasks => \A t \in Tasks : Settled(t)
  BY DEF CleanupTasks, Batches, Expendable, NoTask, Settled
<1>6. Tick => \A t \in Tasks : Settled(t)
  BY DEF Tick, Settled
<1>. QED BY <1>3, <1>4, <1>5, <1>6 DEF Execution

\* The calls that start a task, and the one that reopens it.
Starts(c, t) == (\E req \in Requests : Spawn(c, t, req)) \/ (Commit(c) /\ t = op[c].task)

Reopens(c, t) ==
    /\ ref[c].held /\ t = ref[c].task
    /\ \E at \in ReadBefore(t) : Retry(c, at) /\ RetryTask(t, at)
    /\ told' = [told EXCEPT ![t] = @ \ {"failed"}]
    /\ stopped' = [stopped EXCEPT ![t] = FALSE]

\* A call moves the row of no other task that waits for nothing.
LEMMA CallSettled ==
    ASSUME ShapeInv, ClientTypeOK, NEW c \in Clients, Call(c), NEW t \in Tasks
    PROVE  Settled(t) \/ Starts(c, t) \/ Reopens(c, t)
<1>1. TypeOK /\ tasks \in [Tasks -> Row]
  BY DEF ShapeInv, TypeOK
<1>2. ASSUME NEW u \in Tasks, NEW req \in Requests, Spawn(c, u, req)
      PROVE  Settled(t) \/ Starts(c, t)
  BY <1>1, <1>2 DEF Starts, Spawn, SpawnTask, Update, Settled
<1>3. CASE Commit(c)
  BY <1>1, <1>3 DEF Starts, Commit, Update, Settled
<1>4. ASSUME ref[c].held, NEW at \in ReadBefore(ref[c].task), Cancel(c, at)
      PROVE  Settled(t)
  <2>1. CASE CancelTask(ref[c].task, at)
    <3>1. tasks[t].state \in Terminal => Cancelled(tasks[t], at) = tasks[t]
      BY DEF Cancelled
    <3>2. ref[c].task = t => tasks[t].state \in Active \cup Terminal
      BY <1>1, <2>1 DEF CancelTask, Live, Row
    <3>3. tasks'[t] = IF t = ref[c].task THEN Cancelled(tasks[t], at) ELSE tasks[t]
      BY <1>1, <2>1 DEF CancelTask, Update
    <3>. QED BY <3>1, <3>2, <3>3 DEF Settled
  <2>2. CASE UNCHANGED vars
    BY <2>2 DEF vars, Settled
  <2>. QED BY <1>4, <2>1, <2>2 DEF Cancel
<1>5. ASSUME ref[c].held, NEW at \in ReadBefore(ref[c].task), Retry(c, at)
      PROVE  Settled(t) \/ Reopens(c, t)
  <2>1. CASE /\ RetryTask(ref[c].task, at)
             /\ told' = [told EXCEPT ![ref[c].task] = @ \ {"failed"}]
             /\ stopped' = [stopped EXCEPT ![ref[c].task] = FALSE]
    <3>1. t # ref[c].task => tasks'[t] = tasks[t]
      BY <1>1, <2>1 DEF RetryTask, Update
    <3>. QED BY <3>1, <1>5, <2>1 DEF Settled, Reopens
  <2>2. CASE UNCHANGED vars
    BY <2>2 DEF vars, Settled
  <2>. QED BY <1>5, <2>1, <2>2 DEF Retry
<1>6. ASSUME \/ Rollback(c) \/ TakeSnapshot(c) \/ AwaitResult(c) \/ ResultTold(c)
             \/ ResultTimesOut(c) \/ GiveUp(c)
             \/ \E p \in {"cancel", "retry"} : EnsureTaskRef(c, p)
             \/ \E u \in Tasks, name \in Names : Attach(c, u, name)
             \/ \E u \in Tasks, req \in Requests : Submit(c, u, req)
      PROVE  Settled(t)
  BY <1>6 DEF Rollback, Attach, TakeSnapshot, AwaitResult, ResultTold, ResultTimesOut,
              GiveUp, EnsureTaskRef, Submit, vars, Settled
<1>. QED BY <1>2, <1>3, <1>4, <1>5, <1>6 DEF Call

-----------------------------------------------------------------------------
(* The invariant, part by part.                                            *)

\* What a reference sees is an answer, and an outcome only as the row's state.
LEMMA SnapshotTyped ==
    ASSUME NEW r \in Row, NEW name
    PROVE  /\ Snapshot(r, name) \in Active \cup Terminal \cup {"none", "TaskNameMismatch"}
           /\ Snapshot(r, name) \in Active \cup Terminal =>
                Live(r) /\ r.req.name = name /\ Snapshot(r, name) = r.state
BY DEF Snapshot, Live, Row, Active, Terminal

\* Every call leaves references, operations and answers in their types.
LEMMA ClientTypeStep ==
    ASSUME ClientInv, ShapeInv', [ClientNext]_clientVars
    PROVE  ClientTypeOK'
<1>. USE DEF ClientTypeOK
<1>1. ShapeInv /\ ClientTypeOK /\ TypeOK' /\ now \in 0 .. MaxTime
  BY DEF ClientInv, ShapeInv, TypeOK
<1>2. ASSUME NEW c \in Clients, ref[c].held
      PROVE  /\ ref[c].task \in Tasks
             /\ SeenBy(c) \in Answers /\ RefError(c) \in Answers
  <2>1. ref[c].task \in Tasks /\ tasks[ref[c].task] \in Row
    BY <1>1, <1>2, ClientTyped DEF ShapeInv, TypeOK
  <2>2. SeenBy(c) \in Answers
    BY <2>1, SnapshotTyped DEF SeenBy, Answers
  <2>. QED BY <2>1, <2>2 DEF RefError, Answers
<1>3. ASSUME NEW c \in Clients, NEW answer \in Answers, Answer(c, answer)
      PROVE  /\ op' \in [Clients -> {Resting} \cup Submitting \cup Operation]
             /\ reply' \in [Clients -> Answers]
  BY <1>1, <1>3 DEF Answer
<1>4. ASSUME NEW c \in Clients, ref[c].held, NEW answer, Tell(c, answer)
      PROVE  told' \in [Tasks -> SUBSET Terminal]
  BY <1>1, <1>2, <1>4 DEF Tell
<1>5. ASSUME NEW c \in Clients, NEW t \in Tasks, NEW name \in Names,
             ref' = [ref EXCEPT ![c] = [held |-> TRUE, task |-> t, name |-> name]]
      PROVE  ref' \in [Clients -> TaskRef \cup {NoRef}]
  <2>1. [held |-> TRUE, task |-> t, name |-> name] \in TaskRef
    BY DEF TaskRef
  <2>. QED BY <1>1, <1>5, <2>1
<1>6. ASSUME NEW c \in Clients, Call(c)
      PROVE  ClientTypeOK'
  <2>1. ASSUME NEW t \in Tasks, NEW req \in Requests, Spawn(c, t, req)
        PROVE  ClientTypeOK'
    <3>1. req.name \in Names
      BY RequestTyped DEF RequestType
    <3>. QED BY <1>1, <1>5, <2>1, <3>1 DEF Spawn
  <2>2. ASSUME NEW t \in Tasks, NEW req \in Requests, Submit(c, t, req)
        PROVE  ClientTypeOK'
    <3>1. req.name \in Names
      BY RequestTyped DEF RequestType
    <3>2. [pc |-> "submitting", task |-> t, req |-> req, at |-> now] \in Submitting
      BY <1>1 DEF Submitting
    <3>. QED BY <1>1, <1>5, <2>2, <3>1, <3>2 DEF Submit
  <2>3. CASE Commit(c) \/ Rollback(c) \/ GiveUp(c)
    BY <1>1, <2>3 DEF Commit, Rollback, GiveUp
  <2>4. ASSUME NEW t \in Tasks, NEW name \in Names, Attach(c, t, name)
        PROVE  ClientTypeOK'
    BY <1>1, <1>5, <2>4 DEF Attach
  <2>5. CASE TakeSnapshot(c)
    BY <1>1, <1>2, <1>3, <1>4, <2>5 DEF TakeSnapshot
  <2>6. ASSUME NEW p \in {"cancel", "retry", "result"}, Begin(c, p)
        PROVE  op' \in [Clients -> {Resting} \cup Submitting \cup Operation]
    <3>1. [pc |-> p] \in Operation
      BY DEF Operation
    <3>. QED BY <1>1, <2>6, <3>1 DEF Begin
  <2>7. CASE AwaitResult(c)
    BY <1>1, <2>6, <2>7 DEF AwaitResult
  <2>8. CASE ResultTold(c)
    <3>1. ref[c].held
      BY <2>8 DEF ClientInv, Checked, ResultTold
    <3>. QED BY <1>1, <1>2, <1>3, <1>4, <2>8, <3>1 DEF ResultTold
  <2>9. CASE ResultTimesOut(c)
    BY <1>1, <1>3, <2>9 DEF ResultTimesOut, Answers
  <2>10. ASSUME NEW p \in {"cancel", "retry"}, EnsureTaskRef(c, p)
         PROVE  ClientTypeOK'
    BY <1>1, <1>2, <1>3, <2>6, <2>10 DEF EnsureTaskRef
  <2>11. ASSUME ref[c].held, NEW at, Cancel(c, at) \/ Retry(c, at)
         PROVE  ClientTypeOK'
    BY <1>1, <1>2, <1>3, <2>11 DEF Cancel, Retry, Answers
  <2>. QED BY <1>6, <2>1, <2>2, <2>3, <2>4, <2>5, <2>7, <2>8, <2>9, <2>10, <2>11 DEF Call
<1>7. CASE Execution
  BY <1>1, <1>7 DEF Execution, clientOnly
<1>8. CASE UNCHANGED clientVars
  BY <1>1, <1>8 DEF clientVars
<1>. QED BY <1>6, <1>7, <1>8 DEF ClientNext

\* What a call does to the operation and the reference of its client, and that
\* it leaves those of the others alone.
LEMMA CallFrame ==
    ASSUME ClientTypeOK, NEW c \in Clients, Call(c)
    PROVE  /\ \A d \in Clients \ {c} : op'[d] = op[d] /\ ref'[d] = ref[d]
           /\ \/ op'[c].pc = "resting"
              \/ op'[c] = op[c] /\ op[c].pc = "resting"
              \/ /\ op'[c].pc \in {"cancel", "retry"} /\ ref' = ref /\ ref[c].held
                 /\ Ensured(c) /\ UNCHANGED tasks
              \/ op'[c].pc = "result" /\ ref' = ref /\ ref[c].held
              \/ \E t \in Tasks, req \in Requests :
                   Submit(c, t, req) /\ op'[c] = [pc |-> "submitting", task |-> t, req |-> req,
                                                  at |-> now]
<1>. USE DEF ClientTypeOK, Resting
<1>1. ASSUME NEW t \in Tasks, NEW req \in Requests, Spawn(c, t, req)
      PROVE  /\ \A d \in Clients \ {c} : op'[d] = op[d] /\ ref'[d] = ref[d]
             /\ op'[c] = op[c] /\ op[c].pc = "resting"
  BY <1>1 DEF Spawn
<1>2. ASSUME NEW t \in Tasks, NEW req \in Requests, Submit(c, t, req)
      PROVE  /\ \A d \in Clients \ {c} : op'[d] = op[d] /\ ref'[d] = ref[d]
             /\ op'[c] = [pc |-> "submitting", task |-> t, req |-> req, at |-> now]
  BY <1>2 DEF Submit
<1>3. CASE Commit(c) \/ Rollback(c) \/ GiveUp(c)
  BY <1>3 DEF Commit, Rollback, GiveUp
<1>4. ASSUME NEW t \in Tasks, NEW name \in Names, Attach(c, t, name)
      PROVE  /\ \A d \in Clients \ {c} : op'[d] = op[d] /\ ref'[d] = ref[d]
             /\ op'[c] = op[c] /\ op[c].pc = "resting"
  BY <1>4 DEF Attach
<1>5. CASE TakeSnapshot(c) \/ ResultTold(c) \/ ResultTimesOut(c)
  BY <1>5 DEF TakeSnapshot, ResultTold, ResultTimesOut, Answer
<1>6. CASE AwaitResult(c)
  BY <1>6 DEF AwaitResult, Begin
<1>7. ASSUME NEW p \in {"cancel", "retry"}, EnsureTaskRef(c, p)
      PROVE  /\ \A d \in Clients \ {c} : op'[d] = op[d] /\ ref'[d] = ref[d]
             /\ \/ op'[c].pc = "resting"
                \/ /\ op'[c].pc \in {"cancel", "retry"} /\ ref' = ref /\ ref[c].held
                   /\ Ensured(c) /\ UNCHANGED tasks
  BY <1>7 DEF EnsureTaskRef, Begin, Answer, vars
<1>8. ASSUME ref[c].held, NEW at, Cancel(c, at) \/ Retry(c, at)
      PROVE  /\ \A d \in Clients \ {c} : op'[d] = op[d] /\ ref'[d] = ref[d]
             /\ op'[c].pc = "resting"
  BY <1>8 DEF Cancel, Retry, Answer
<1>. QED BY <1>1, <1>2, <1>3, <1>4, <1>5, <1>6, <1>7, <1>8 DEF Call

\* The clock never goes back.
LEMMA ClockStep ==
    ASSUME TypeOK, [ClientNext]_clientVars, ClientTypeOK
    PROVE  now' >= now
<1>1. now \in Nat
  BY DEF TypeOK
<1>2. ASSUME Next PROVE now' = now \/ now' = now + 1
  BY <1>2 DEF Next, SpawnTask, CompleteRun, ScheduleRun, FailRun, SuperviseRun, SetCheckpoint,
              CancelTask, RetryTask, ClaimTasks, CleanupTasks, Tick
<1>3. [Next]_vars \/ \E c \in Clients : Commit(c)
  BY ExecutionIsNext, CallIsNext DEF ClientNext, clientVars, vars
<1>. QED BY <1>1, <1>2, <1>3 DEF Commit, vars

\* No other call starts a task whose submission is open.
LEMMA ReservedStep ==
    ASSUME ClientInv, [ClientNext]_clientVars
    PROVE  Reserved'
<1>1. ShapeInv /\ TypeOK /\ ClientTypeOK /\ Reserved /\ now \in Nat /\ now' >= now
  BY ClockStep DEF ClientInv, ShapeInv, TypeOK
<1>2. now' \in Int
  <2>1. ShapeInv'
    BY <1>1, ClientRowSteps
  <2>. QED BY <2>1 DEF ShapeInv, TypeOK
<1>3. ASSUME NEW c \in Clients, op[c].pc = "submitting", op'[c] = op[c],
             Settled(op[c].task)
      PROVE  /\ tasks'[op'[c].task].state = "absent" /\ op'[c].at <= now'
             /\ op'[c].task = op[c].task
  <2>1. op[c].task \in Tasks /\ op[c].at \in Int /\ op[c].at <= now
    BY <1>1, <1>3, ClientTyped DEF Reserved
  <2>2. tasks'[op[c].task] = tasks[op[c].task] /\ tasks[op[c].task].state = "absent"
    BY <1>1, <1>3, <2>1 DEF Reserved, Settled, Active, Terminal
  <2>. QED BY <1>1, <1>2, <1>3, <2>1, <2>2
<1>4. ASSUME \A c \in Clients : op[c].pc = "submitting" => Settled(op[c].task), op' = op
      PROVE  Reserved'
  <2>. SUFFICES ASSUME NEW c \in Clients, op'[c].pc = "submitting"
                PROVE  /\ tasks'[op'[c].task].state = "absent" /\ op'[c].at <= now'
                       /\ \A d \in Clients : op'[d].pc = "submitting" /\ op'[d].task = op'[c].task
                            => d = c
    BY DEF Reserved
  <2>. QED BY <1>1, <1>3, <1>4 DEF Reserved
<1>5. CASE Execution
  <2>1. op' = op /\ \A t \in Tasks : Settled(t)
    BY <1>1, <1>5, ExecutionSettled DEF Execution, clientOnly
  <2>. QED BY <1>1, <1>4, <2>1, ClientTyped
<1>6. CASE UNCHANGED clientVars
  <2>1. op' = op /\ \A t \in Tasks : Settled(t)
    BY <1>6 DEF clientVars, Settled
  <2>. QED BY <1>1, <1>4, <2>1, ClientTyped
<1>7. ASSUME NEW d \in Clients, Call(d)
      PROVE  Reserved'
  <2>1. /\ \A c \in Clients \ {d} : op'[c] = op[c]
        /\ \/ op'[d].pc # "submitting"
           \/ \E t \in Tasks, req \in Requests :
                /\ Submit(d, t, req)
                /\ op'[d] = [pc |-> "submitting", task |-> t, req |-> req, at |-> now]
    BY <1>1, <1>7, CallFrame
  <2>2. ASSUME NEW c \in Clients \ {d}, op[c].pc = "submitting"
        PROVE  Settled(op[c].task)
    <3>. DEFINE t == op[c].task
    <3>1. t \in Tasks /\ tasks[t].state = "absent"
      BY <1>1, <2>2, ClientTyped DEF Reserved
    <3>2. ~Starts(d, t)
      BY <1>1, <2>2 DEF Starts, Spawn, Commit, Reserved
    <3>3. ~Reopens(d, t)
      BY <3>1 DEF Reopens, RetryTask
    <3>. QED BY <1>1, <1>7, <3>1, <3>2, <3>3, CallSettled
  <2>3. CASE op'[d].pc # "submitting"
    <3>. SUFFICES ASSUME NEW c \in Clients, op'[c].pc = "submitting"
                  PROVE  /\ tasks'[op'[c].task].state = "absent" /\ op'[c].at <= now'
                         /\ \A e \in Clients : op'[e].pc = "submitting" /\ op'[e].task = op'[c].task
                              => e = c
      BY DEF Reserved
    <3>1. c # d /\ op'[c] = op[c]
      BY <2>1, <2>3
    <3>2. tasks'[op'[c].task].state = "absent" /\ op'[c].at <= now'
      BY <1>3, <2>2, <3>1
    <3>3. \A e \in Clients : op'[e].pc = "submitting" => e # d /\ op'[e] = op[e]
      BY <2>1, <2>3
    <3>. QED BY <1>1, <3>1, <3>2, <3>3 DEF Reserved
  <2>4. ASSUME NEW t \in Tasks, NEW req \in Requests, Submit(d, t, req),
               op'[d] = [pc |-> "submitting", task |-> t, req |-> req, at |-> now]
        PROVE  Reserved'
    <3>. SUFFICES ASSUME NEW c \in Clients, op'[c].pc = "submitting"
                  PROVE  /\ tasks'[op'[c].task].state = "absent" /\ op'[c].at <= now'
                         /\ \A e \in Clients : op'[e].pc = "submitting" /\ op'[e].task = op'[c].task
                              => e = c
      BY DEF Reserved
    <3>1. /\ tasks[t].state = "absent" /\ tasks' = tasks /\ now' = now
          /\ \A e \in Clients : op[e].pc = "submitting" => op[e].task # t
      BY <2>4 DEF Submit, vars
    <3>2. op'[d].task = t /\ op'[d].at = now
      BY <2>4
    <3>3. CASE c = d
      <4>1. tasks'[op'[c].task].state = "absent" /\ op'[c].at <= now'
        BY <1>1, <3>1, <3>2, <3>3
      <4>. QED BY <4>1, <2>1, <3>1, <3>2, <3>3
    <3>4. CASE c # d
      <4>1. op'[c] = op[c] /\ tasks'[op'[c].task].state = "absent" /\ op'[c].at <= now'
        BY <1>3, <2>1, <2>2, <3>4
      <4>. QED BY <1>1, <4>1, <2>1, <3>1, <3>2, <3>4 DEF Reserved
    <3>. QED BY <3>3, <3>4
  <2>. QED BY <2>1, <2>3, <2>4
<1>. QED BY <1>5, <1>6, <1>7 DEF ClientNext

\* Between the check of a reference and the call the task stays or is deleted.
LEMMA CheckedStep ==
    ASSUME ClientInv, [ClientNext]_clientVars
    PROVE  Checked'
<1>1. ShapeInv /\ TypeOK /\ ClientTypeOK /\ Reserved /\ Checked /\ now \in Nat
  BY DEF ClientInv, ShapeInv, TypeOK
<1>2. \A t \in Tasks : tasks[t] \in Row /\ RowShape(tasks[t]) /\ RowNext(tasks[t], tasks'[t], now)
  BY <1>1, ClientRowSteps DEF ShapeInv, TypeOK
<1>. DEFINE Good(c) ==
       /\ op[c].pc \in {"cancel", "retry", "result"} => ref[c].held
       /\ op[c].pc \in {"cancel", "retry"} =>
            /\ tasks[ref[c].task].state # "absent"
            /\ Live(tasks[ref[c].task]) => tasks[ref[c].task].req.name = ref[c].name
<1>3. \A c \in Clients : Good(c)
  BY <1>1 DEF Checked
<1>4. ASSUME NEW c \in Clients, op'[c] = op[c], ref'[c] = ref[c]
      PROVE  Good(c)'
  <2>1. CASE op[c].pc \in {"cancel", "retry"}
    <3>1. ref[c].task \in Tasks
      BY <1>1, <1>3, <2>1, ClientTyped
    <3>2. /\ tasks'[ref[c].task].state # "absent"
          /\ Live(tasks'[ref[c].task]) => tasks'[ref[c].task].req.name = ref[c].name
      BY <1>1, <1>2, <1>3, <2>1, <3>1, RowStays
    <3>. QED BY <1>3, <1>4, <2>1, <3>2
  <2>2. CASE op[c].pc \notin {"cancel", "retry"}
    BY <1>3, <1>4, <2>2
  <2>. QED BY <2>1, <2>2
<1>5. ASSUME NEW c \in Clients, Call(c)
      PROVE  Good(c)'
  <2>1. CASE op'[c].pc \in {"resting", "submitting"}
    BY <2>1
  <2>2. CASE /\ op'[c].pc \in {"cancel", "retry"} /\ ref' = ref /\ ref[c].held
             /\ Ensured(c) /\ UNCHANGED tasks
    <3>1. ref[c].task \in Tasks /\ tasks[ref[c].task] \in Row
      BY <1>1, <1>2, <2>2, ClientTyped
    <3>2. Live(tasks[ref[c].task]) /\ tasks[ref[c].task].req.name = ref[c].name
      BY <2>2, <3>1, SnapshotTyped DEF Ensured, SeenBy
    <3>3. tasks[ref[c].task].state # "absent"
      BY <3>2 DEF Live
    <3>4. /\ tasks'[ref'[c].task].state # "absent" /\ ref'[c].held
          /\ tasks'[ref'[c].task].req.name = ref'[c].name
      BY <2>2, <3>2, <3>3, Zenon
    <3>. QED BY <3>4, Zenon
  <2>3. CASE op'[c].pc = "result" /\ ref' = ref /\ ref[c].held
    BY <2>3
  <2>. HIDE DEF Good
  <2>4. \/ op'[c].pc \in {"resting", "submitting"}
        \/ /\ op'[c].pc \in {"cancel", "retry"} /\ ref' = ref /\ ref[c].held
           /\ Ensured(c) /\ UNCHANGED tasks
        \/ op'[c].pc = "result" /\ ref' = ref /\ ref[c].held
    <3>1. ASSUME NEW t \in Tasks, NEW req \in Requests,
                 op'[c] = [pc |-> "submitting", task |-> t, req |-> req, at |-> now]
          PROVE  op'[c].pc = "submitting"
      BY <3>1
    <3>. QED BY <1>1, <1>5, <3>1, CallFrame, Zenon
  <2>. QED BY <2>1, <2>2, <2>3, <2>4
<1>6. \A c \in Clients : Good(c)'
  <2>1. ASSUME NEW d \in Clients, Call(d), NEW c \in Clients
        PROVE  Good(c)'
    <3>1. c # d => op'[c] = op[c] /\ ref'[c] = ref[c]
      BY <1>1, <2>1, CallFrame
    <3>. HIDE DEF Good
    <3>. QED BY <1>4, <1>5, <2>1, <3>1
  <2>2. Execution \/ UNCHANGED clientVars => op' = op /\ ref' = ref
    BY DEF Execution, clientOnly, clientVars
  <2>. HIDE DEF Good
  <2>. QED BY <1>4, <2>1, <2>2 DEF ClientNext
<1>. QED BY <1>6 DEF Checked

\* An outcome is told of a row that has it, and only retry() takes such a row out
\* of it before retention does.
LEMMA ToldStep ==
    ASSUME ClientInv, [ClientNext]_clientVars
    PROVE  ToldOutcomes'
<1>1. /\ ShapeInv /\ TypeOK /\ ClientTypeOK /\ Reserved /\ Checked /\ ToldOutcomes
      /\ told \in [Tasks -> SUBSET Terminal]
  BY DEF ClientInv, ShapeInv, TypeOK, ClientTypeOK
<1>2. ASSUME NEW t \in Tasks, Settled(t), told'[t] = told[t]
      PROVE  \A o \in told'[t] : tasks'[t].state \in {o, "deleted"}
  BY <1>1, <1>2 DEF ToldOutcomes, Settled, Active, Terminal
<1>3. ASSUME NEW c \in Clients, ref[c].held, Tell(c, SeenBy(c)), UNCHANGED tasks
      PROVE  ToldOutcomes'
  <2>. DEFINE u == ref[c].task
              seen == SeenBy(c)
  <2>1. u \in Tasks /\ tasks[u] \in Row
    BY <1>1, <1>3, ClientTyped DEF TypeOK
  <2>2. seen \in Terminal => tasks[u].state = seen
    BY <2>1, SnapshotTyped DEF SeenBy
  <2>3. \A t \in Tasks : told'[t] = IF t = u THEN told[t] \cup ({seen} \cap Terminal) ELSE told[t]
    BY <1>1, <1>3, <2>1 DEF Tell
  <2>. HIDE DEF u, seen
  <2>. SUFFICES ASSUME NEW t \in Tasks, NEW o \in told'[t]
                PROVE  tasks[t].state \in {o, "deleted"}
    BY <1>3 DEF ToldOutcomes
  <2>4. CASE o \in told[t]
    BY <1>1, <2>4 DEF ToldOutcomes
  <2>5. CASE o \notin told[t]
    <3>1. t = u /\ o \in {seen} \cap Terminal
      BY <2>3, <2>5, Zenon
    <3>. QED BY <2>2, <3>1
  <2>. QED BY <2>4, <2>5
<1>4. ASSUME NEW c \in Clients, Call(c)
      PROVE  \/ told' = told
             \/ ref[c].held /\ Tell(c, SeenBy(c)) /\ UNCHANGED tasks
             \/ \E t \in Tasks : Reopens(c, t)
  <2>1. ASSUME TakeSnapshot(c) \/ ResultTold(c)
        PROVE  ref[c].held /\ Tell(c, SeenBy(c)) /\ UNCHANGED tasks
    <3>1. Tell(c, SeenBy(c)) /\ UNCHANGED tasks
      BY <2>1 DEF TakeSnapshot, ResultTold, vars
    <3>2. ref[c].held
      BY <1>1, <2>1, Zenon DEF TakeSnapshot, ResultTold, Checked
    <3>. QED BY <3>1, <3>2
  <2>2. ASSUME NEW t \in Tasks, NEW req \in Requests, Spawn(c, t, req) \/ Submit(c, t, req)
        PROVE  told' = told
    BY <2>2 DEF Spawn, Submit
  <2>3. ASSUME \/ Commit(c) \/ Rollback(c) \/ AwaitResult(c) \/ ResultTimesOut(c) \/ GiveUp(c)
               \/ \E p \in {"cancel", "retry"} : EnsureTaskRef(c, p)
               \/ \E t \in Tasks, name \in Names : Attach(c, t, name)
               \/ \E at \in ReadBefore(ref[c].task) : Cancel(c, at)
        PROVE  told' = told
    BY <2>3 DEF Commit, Rollback, AwaitResult, ResultTimesOut, GiveUp, EnsureTaskRef, Attach,
                Cancel
  <2>4. ASSUME ref[c].held, NEW at \in ReadBefore(ref[c].task), Retry(c, at)
        PROVE  told' = told \/ \E t \in Tasks : Reopens(c, t)
    <3>1. ref[c].task \in Tasks
      BY <1>1, <2>4, ClientTyped
    <3>2. \/ told' = told
          \/ /\ RetryTask(ref[c].task, at)
             /\ told' = [told EXCEPT ![ref[c].task] = @ \ {"failed"}]
             /\ stopped' = [stopped EXCEPT ![ref[c].task] = FALSE]
      BY <2>4 DEF Retry
    <3>. QED BY <2>4, <3>1, <3>2 DEF Reopens
  <2>. QED BY <1>4, <2>1, <2>2, <2>3, <2>4 DEF Call
<1>5. ASSUME NEW c \in Clients, Call(c), NEW u \in Tasks, Reopens(c, u)
      PROVE  ToldOutcomes'
  <2>1. PICK at \in ReadBefore(u) : RetryTask(u, at)
    BY <1>5 DEF Reopens
  <2>2. tasks[u].state = "failed" /\ \A t \in Tasks \ {u} : tasks'[t] = tasks[t]
    BY <1>1, <2>1 DEF RetryTask, Update, TypeOK
  <2>3. told'[u] = told[u] \ {"failed"} /\ \A t \in Tasks \ {u} : told'[t] = told[t]
    BY <1>1, <1>5 DEF Reopens
  <2>4. told'[u] = {}
    BY <1>1, <2>2, <2>3 DEF ToldOutcomes
  <2>. QED BY <1>1, <2>2, <2>3, <2>4 DEF ToldOutcomes
<1>6. ASSUME NEW c \in Clients, Call(c), told' = told
      PROVE  ToldOutcomes'
  <2>. SUFFICES ASSUME NEW t \in Tasks, NEW o \in told[t]
                PROVE  tasks'[t].state \in {o, "deleted"}
    BY <1>6 DEF ToldOutcomes
  <2>1. tasks[t].state # "absent"
    BY <1>1 DEF ToldOutcomes, Terminal
  <2>2. ~Starts(c, t)
    BY <1>1, <2>1 DEF Starts, Spawn, SpawnTask, Commit, Reserved
  <2>3. Reopens(c, t) => ToldOutcomes'
    BY <1>5, <1>6
  <2>4. Settled(t) => tasks'[t].state \in {o, "deleted"}
    BY <1>2, <1>6
  <2>. QED BY <1>1, <1>6, <2>2, <2>3, <2>4, CallSettled DEF ToldOutcomes
<1>7. CASE Execution
  <2>1. told' = told /\ \A t \in Tasks : Settled(t)
    BY <1>1, <1>7, ExecutionSettled DEF Execution, clientOnly
  <2>. QED BY <1>2, <2>1 DEF ToldOutcomes
<1>8. CASE UNCHANGED clientVars
  BY <1>1, <1>8 DEF clientVars, ToldOutcomes
<1>. QED BY <1>3, <1>4, <1>5, <1>6, <1>7, <1>8 DEF ClientNext

\* Only retry() takes a cancelled task out of the states cancel() left it in.
LEMMA StoppedStep ==
    ASSUME ClientInv, [ClientNext]_clientVars
    PROVE  CancelIsDurable'
<1>1. /\ ShapeInv /\ TypeOK /\ ClientTypeOK /\ Reserved /\ CancelIsDurable
      /\ tasks \in [Tasks -> Row] /\ stopped \in [Tasks -> BOOLEAN]
  BY DEF ClientInv, ShapeInv, TypeOK, ClientTypeOK
<1>2. ASSUME NEW t \in Tasks, Settled(t), stopped[t]
      PROVE  tasks'[t].state \in Terminal \cup {"deleted"}
  BY <1>1, <1>2 DEF CancelIsDurable, Settled, Active, Terminal
<1>3. ASSUME NEW c \in Clients, Call(c), NEW t \in Tasks, stopped'[t]
      PROVE  stopped[t] \/ tasks'[t].state \in Terminal
  <2>1. ASSUME NEW at \in ReadBefore(ref[c].task), ref[c].held, Cancel(c, at)
        PROVE  stopped[t] \/ tasks'[t].state \in Terminal
    <3>1. CASE stopped' = stopped
      BY <1>3, <3>1
    <3>2. CASE CancelTask(ref[c].task, at) /\ stopped' = [stopped EXCEPT ![ref[c].task] = TRUE]
      <4>1. t # ref[c].task => stopped'[t] = stopped[t]
        BY <1>1, <3>2
      <4>2. t = ref[c].task => tasks'[t] = Cancelled(tasks[t], at)
        BY <1>1, <3>2 DEF CancelTask, Update
      <4>3. Cancelled(tasks[t], at).state \in Terminal
        BY <1>1 DEF Cancelled, Row, Terminal
      <4>. QED BY <1>3, <4>1, <4>2, <4>3
    <3>. QED BY <2>1, <3>1, <3>2 DEF Cancel
  <2>2. ASSUME NEW at \in ReadBefore(ref[c].task), ref[c].held, Retry(c, at)
        PROVE  stopped[t]
    <3>1. stopped' = stopped \/ stopped' = [stopped EXCEPT ![ref[c].task] = FALSE]
      BY <2>2 DEF Retry
    <3>. QED BY <1>1, <1>3, <3>1
  <2>3. ASSUME NEW u \in Tasks, NEW req \in Requests, Spawn(c, u, req) \/ Submit(c, u, req)
        PROVE  stopped' = stopped
    BY <2>3 DEF Spawn, Submit
  <2>4. ASSUME \/ Commit(c) \/ Rollback(c) \/ AwaitResult(c) \/ ResultTimesOut(c) \/ GiveUp(c)
               \/ TakeSnapshot(c) \/ ResultTold(c)
               \/ \E p \in {"cancel", "retry"} : EnsureTaskRef(c, p)
               \/ \E u \in Tasks, name \in Names : Attach(c, u, name)
        PROVE  stopped' = stopped
    BY <2>4 DEF Commit, Rollback, AwaitResult, ResultTimesOut, GiveUp, EnsureTaskRef, Attach,
                TakeSnapshot, ResultTold
  <2>. QED BY <1>3, <2>1, <2>2, <2>3, <2>4 DEF Call
<1>4. ASSUME NEW c \in Clients, Call(c), NEW t \in Tasks, stopped'[t]
      PROVE  tasks'[t].state \in Terminal \cup {"deleted"}
  <2>1. SUFFICES ASSUME stopped[t] PROVE tasks'[t].state \in Terminal \cup {"deleted"}
    BY <1>3, <1>4
  <2>2. tasks[t].state # "absent"
    BY <1>1, <2>1 DEF CancelIsDurable, Terminal
  <2>3. ~Starts(c, t)
    BY <1>1, <2>2 DEF Starts, Spawn, SpawnTask, Commit, Reserved
  <2>4. ~Reopens(c, t)
    <3>1. Reopens(c, t) => stopped'[t] = FALSE
      BY <1>1 DEF Reopens
    <3>. QED BY <1>4, <3>1
  <2>. QED BY <1>1, <1>2, <1>4, <2>1, <2>3, <2>4, CallSettled
<1>5. CASE Execution
  BY <1>1, <1>2, <1>5, ExecutionSettled DEF Execution, clientOnly, CancelIsDurable
<1>6. CASE UNCHANGED clientVars
  BY <1>1, <1>6 DEF clientVars, CancelIsDurable
<1>. QED BY <1>4, <1>5, <1>6 DEF ClientNext, CancelIsDurable

-----------------------------------------------------------------------------
(* The theorems.                                                           *)

\* The inductive invariant of the clients and the queue together.
LEMMA ClientInductive == ClientSpec => []ClientInv
<1>1. ClientInit => ClientInv
  <2>. SUFFICES ASSUME ClientInit PROVE ClientInv
    OBVIOUS
  <2>1. ShapeInv
    BY NoTaskTyped, NoTaskShape, BoundsAssumption DEF ClientInit, Init, TypeOK, ShapeInv
  <2>2. ClientTypeOK
    BY <2>1 DEF ClientInit, ClientTypeOK, ShapeInv, Answers
  <2>3. Reserved /\ Checked
    BY DEF ClientInit, Reserved, Checked, Resting
  <2>4. ToldOutcomes /\ CancelIsDurable
    BY DEF ClientInit, ToldOutcomes, CancelIsDurable
  <2>. QED BY <2>1, <2>2, <2>3, <2>4 DEF ClientInv
<1>2. ClientInv /\ [ClientNext]_clientVars => ClientInv'
  <2>. SUFFICES ASSUME ClientInv, [ClientNext]_clientVars PROVE ClientInv'
    OBVIOUS
  <2>1. ShapeInv'
    BY ClientRowSteps DEF ClientInv
  <2>2. ClientTypeOK'
    BY <2>1, ClientTypeStep
  <2>. QED BY <2>1, <2>2, ReservedStep, CheckedStep, ToldStep, StoppedStep DEF ClientInv
<1>. QED BY <1>1, <1>2, PTL DEF ClientSpec

\* However many handles ask, and whenever they ask, the outcome one of them was
\* told stays the task's: completed and cancelled for good, failed until a retry().
THEOREM OutcomesAgreeHolds == ClientSpec => []OutcomesAgree
<1>1. ClientInv => OutcomesAgree
  BY DEF ClientInv, ToldOutcomes, OutcomesAgree
<1>. QED BY <1>1, ClientInductive, PTL

\* Once cancel() returned Ok the task stays ended, whatever its worker, its
\* retries and maintenance do, until a client retries it.
THEOREM CancelIsDurableHolds == ClientSpec => []CancelIsDurable
<1>1. ClientInv => CancelIsDurable
  BY DEF ClientInv
<1>. QED BY <1>1, ClientInductive, PTL

\* A handle of one task definition never cancels or retries a task of another
\* one: the check one statement earlier is enough, because a task keeps its name
\* and a deleted task accepts neither call.
THEOREM OnlyOwnTasksControlledHolds == ClientSpec => OnlyOwnTasksControlled
<1>1. ASSUME ClientInv, [ClientNext]_clientVars, NEW c \in Clients,
             op[c].pc \in {"cancel", "retry"}, op'[c] = Resting, tasks' # tasks
      PROVE  tasks[ref[c].task].req.name = ref[c].name
  <2>1. /\ ShapeInv /\ ClientTypeOK /\ Checked /\ ref[c].held
        /\ Live(tasks[ref[c].task]) => tasks[ref[c].task].req.name = ref[c].name
    BY <1>1 DEF ClientInv, Checked
  <2>2. op[c].pc # "resting" /\ op[c] # Resting /\ op'[c] # op[c]
    BY <1>1 DEF Resting
  <2>3. ~Execution /\ ~UNCHANGED clientVars
    BY <2>2 DEF Execution, clientOnly, clientVars
  <2>4. Call(c)
    BY <1>1, <2>1, <2>2, <2>3, CallFrame DEF ClientNext
  <2>5. ~\E t \in Tasks, req \in Requests : Spawn(c, t, req) \/ Submit(c, t, req)
    BY <2>2 DEF Spawn, Submit
  <2>6. /\ ~Commit(c) /\ ~Rollback(c) /\ ~GiveUp(c) /\ ~TakeSnapshot(c) /\ ~AwaitResult(c)
        /\ ~ResultTold(c) /\ ~ResultTimesOut(c)
        /\ ~\E t \in Tasks, name \in Names : Attach(c, t, name)
        /\ ~\E p \in {"cancel", "retry"} : EnsureTaskRef(c, p)
    BY <1>1, <2>2 DEF Commit, Rollback, GiveUp, TakeSnapshot, AwaitResult, ResultTold,
                      ResultTimesOut, Attach, EnsureTaskRef, vars, Begin
  <2>7. PICK at \in ReadBefore(ref[c].task) : Cancel(c, at) \/ Retry(c, at)
    BY <2>4, <2>5, <2>6 DEF Call
  <2>8. CancelTask(ref[c].task, at) \/ RetryTask(ref[c].task, at)
    BY <1>1, <2>7 DEF Cancel, Retry, vars
  <2>9. Live(tasks[ref[c].task])
    BY <2>8 DEF CancelTask, RetryTask, Live
  <2>. QED BY <2>1, <2>9
<1>2. ClientInv /\ [ClientNext]_clientVars =>
        [\A c \in Clients :
           (op[c].pc \in {"cancel", "retry"} /\ op'[c] = Resting /\ reply'[c] = "ok"
                /\ tasks' # tasks)
               => tasks[ref[c].task].req.name = ref[c].name]_clientVars
  BY <1>1
<1>. QED BY <1>2, ClientInductive, PTL DEF ClientSpec, OnlyOwnTasksControlled
=============================================================================
