----------------------------- MODULE StedaLocks -----------------------------
(***************************************************************************)
(* The functions of one task statement by statement, under READ COMMITTED  *)
(* and the row locks they take: the row of the task and the rows of its    *)
(* runs.  A statement reads a snapshot of what is committed when it        *)
(* starts; a row it has to lock is waited for and read again; SKIP LOCKED  *)
(* passes over a locked row.  Writes appear, and locks go, at commit.      *)
(* StedaQueue takes each function as one step: RowsAgree and               *)
(* CommitsAreAtomic are what entitles it to.  A run is pending until it is *)
(* first claimed, due or not, and a call is one transaction.               *)
(***************************************************************************)
EXTENDS Integers

CONSTANTS
    Callers,   \* sessions with the database
    MaxRuns,   \* bound on the attempts of the task
    NoCaller

ASSUME LocksAssumption == NoCaller \notin Callers /\ MaxRuns \in Nat \ {0}

VARIABLES
    db,     \* what is committed
    lock,   \* who holds a row: Task, or the number of a run
    call    \* the statement a session is at, and the run it is about

vars == <<db, lock, call>>

Task == 0
Runs == 1 .. MaxRuns
Rows == {Task} \cup Runs
Claimable == {"pending", "sleeping"}
Active == Claimable \cup {"running"}
Terminal == {"completed", "failed", "cancelled"}

Idle == [op |-> "none", at |-> "idle", run |-> 0]

LocksInit ==
    /\ db = [task |-> "pending", last |-> 1,
             runs |-> [r \in Runs |-> IF r = 1 THEN "pending" ELSE "none"]]
    /\ lock = [row \in Rows |-> NoCaller]
    /\ call = [p \in Callers |-> Idle]

-----------------------------------------------------------------------------
(* What the functions write, given the rows as they are.                   *)

Gone == [task |-> "none", last |-> 0, runs |-> [r \in Runs |-> "none"]]
ActiveRuns(d) == { r \in Runs : d.runs[r] \in Active }

ActiveRun(d) == CHOOSE r \in ActiveRuns(d) : TRUE

Moved(d, r, state) == [d EXCEPT !.task = state, !.runs[r] = state]

\* The next run of a task that has room for it.
NextRun(d) == [Moved(d, d.last + 1, "pending") EXCEPT !.last = d.last + 1]

Cancelled(d, runs) ==
    [d EXCEPT !.task = "cancelled",
              !.runs = [r \in Runs |-> IF r \in runs THEN "cancelled" ELSE d.runs[r]]]

\* UPDATE ... WHERE task.id = ...: the task as it is now is not compared.
Claimed(d, r) == [Moved(d, r, "running") EXCEPT !.last = r]

Retries(d) == IF d.last < MaxRuns THEN {NextRun(d)} ELSE {}

\* complete_run(), schedule_run(), fail_run(), supervise_run(), set_checkpoint().
AttemptOutcomes(d, r) ==
    IF d.task = "running" /\ d.last = r /\ d.runs[r] = "running"
    THEN {d, Moved(d, r, "completed"), Moved(d, r, "sleeping"), Moved(d, r, "failed"),
          Cancelled(d, {r})} \cup Retries([d EXCEPT !.runs[r] = "failed"])
    ELSE {d}

-----------------------------------------------------------------------------
(* Sessions, locks and transactions.                                       *)

Free(p, row) == lock[row] \in {NoCaller, p}
Hold(p, row) == lock' = [lock EXCEPT ![row] = p]
At(p, op, at, run) == call' = [call EXCEPT ![p] = [op |-> op, at |-> at, run |-> run]]

Commit(p, new) ==
    /\ db' = new
    /\ lock' = [row \in Rows |-> IF lock[row] = p THEN NoCaller ELSE lock[row]]
    /\ call' = [call EXCEPT ![p] = Idle]

\* A worker acts on a run it claimed once; the run may be long over.
CallAttempt(p) ==
    /\ call[p] = Idle
    /\ \E r \in Runs : db.runs[r] \notin {"none", "pending"} /\ At(p, "attempt", "run", r)
    /\ UNCHANGED <<db, lock>>

\* The first statement of claim_tasks(), of reap_expired_runs() and of
\* cancel_expired_tasks() finds the run in its snapshot...
CallMaintenance(p) ==
    /\ call[p] = Idle
    /\ \/ db.task \in Claimable /\ db.runs[db.last] \in Claimable /\ At(p, "claim", "reserve", db.last)
       \/ db.task = "running" /\ db.runs[db.last] = "running" /\ At(p, "reap", "reserve", db.last)
       \/ db.task \in Active /\ db.runs[db.last] \in Active /\ At(p, "expire", "reserve", db.last)
    /\ UNCHANGED <<db, lock>>

Eligible(op) ==
    CASE op = "claim" -> Claimable [] op = "reap" -> {"running"} [] op = "expire" -> Active

\* Mutant: the row is taken as the snapshot showed it.
UncheckedReserved(p) == lock[call[p].run] = NoCaller

\* ... and locks it unless somebody else does, or it changed in between.
Reserved(p) ==
    /\ lock[call[p].run] = NoCaller
    /\ db.runs[call[p].run] \in Eligible(call[p].op)

\* Mutant: the task is reserved rather than its run.
ReserveTask(p) ==
    /\ call[p].at = "reserve"
    /\ IF Reserved(p) /\ lock[Task] = NoCaller
       THEN /\ Hold(p, IF call[p].op = "claim" THEN call[p].run ELSE Task)
            /\ At(p, call[p].op, IF call[p].op = "claim" THEN "task" ELSE "run", call[p].run)
            /\ db' = db
       ELSE Commit(p, db)

Reserve(p) ==
    /\ call[p].at = "reserve"
    /\ IF Reserved(p)
       THEN /\ Hold(p, call[p].run)
            /\ At(p, call[p].op, IF call[p].op = "claim" THEN "task" ELSE "run", call[p].run)
            /\ db' = db
       ELSE Commit(p, db)

\* cancel_task() and its first statement, SELECT ... FOR UPDATE.
CallCancel(p) ==
    /\ call[p] = Idle
    /\ IF ActiveRuns(db) = {} THEN At(p, "cancel", "task", 0)
       ELSE At(p, "cancel", "run", ActiveRun(db))
    /\ UNCHANGED <<db, lock>>

CallRetry(p) == call[p] = Idle /\ At(p, "retry", "task", 0) /\ UNCHANGED <<db, lock>>

\* lock_attempt_context(), first statement; cancel_task() goes on without the run.
LockRun(p) ==
    /\ call[p].at = "run" /\ Free(p, call[p].run)
    /\ IF call[p].op \in {"attempt", "reap"} /\ db.runs[call[p].run] = "none" THEN Commit(p, db)
       ELSE Hold(p, call[p].run) /\ At(p, call[p].op, "task", call[p].run) /\ db' = db

\* The last statement of cancel_task() has a snapshot of its own.
RunToCancel(p) == IF ActiveRuns(db) = {} THEN Task ELSE ActiveRun(db)

\* With the task locked nobody else can end its runs or add one.
LockTask(p) ==
    /\ call[p].at = "task" /\ Free(p, Task)
    /\ CASE call[p].op \in {"attempt", "reap"} ->
              \E new \in AttemptOutcomes(db, call[p].run) : Commit(p, new)
         [] call[p].op = "claim" -> Commit(p, Claimed(db, call[p].run))
         [] call[p].op = "retry" ->
              \E new \in IF db.task = "failed" THEN Retries(db) \cup {db} ELSE {db} : Commit(p, new)
         [] call[p].op \in {"cancel", "expire"} ->
              IF db.task \notin Active THEN Commit(p, db)
              ELSE Hold(p, Task) /\ At(p, call[p].op, "update", RunToCancel(p)) /\ db' = db

UpdateRun(p) ==
    /\ call[p].at = "update" /\ Free(p, call[p].run)
    /\ Commit(p, Cancelled(db, {call[p].run}))

\* cleanup_tasks(): the task is locked first, its runs by ON DELETE CASCADE.
CallCleanup(p) ==
    /\ call[p] = Idle
    /\ db.task \in Terminal /\ lock[Task] = NoCaller
    /\ Hold(p, Task) /\ At(p, "cleanup", "cascade", 1) /\ db' = db

Cascade(p) ==
    /\ call[p].at = "cascade" /\ Free(p, call[p].run)
    /\ IF call[p].run = db.last THEN Commit(p, Gone)
       ELSE Hold(p, call[p].run) /\ At(p, "cleanup", "cascade", call[p].run + 1) /\ db' = db

-----------------------------------------------------------------------------
(* PostgreSQL aborts a transaction of every cycle of waits (40P01).        *)

Wanted(p) == IF call[p].at = "task" THEN Task ELSE call[p].run

Waits(p) ==
    call[p].at \in {"run", "task", "update", "cascade"} /\ lock[Wanted(p)] \notin {NoCaller, p}

Cycles == { S \in (SUBSET Callers) \ {{}} : \A p \in S : Waits(p) /\ lock[Wanted(p)] \in S }

Abort(p) == (\E S \in Cycles : p \in S) /\ Commit(p, db)

LocksNext ==
    \E p \in Callers :
        \/ CallAttempt(p) \/ CallMaintenance(p) \/ CallCancel(p) \/ CallRetry(p) \/ CallCleanup(p)
        \/ Reserve(p) \/ LockRun(p) \/ LockTask(p) \/ UpdateRun(p) \/ Cascade(p) \/ Abort(p)

LocksSpec == LocksInit /\ [][LocksNext]_vars

-----------------------------------------------------------------------------
(* Properties.                                                             *)

\* What is locked is locked by a call under way; one that waits for the task in
\* order to change a run holds that run, and one that writes the task's runs
\* holds the task.
LocksTypeOK ==
    /\ \A row \in Rows : lock[row] # NoCaller => call[lock[row]] # Idle
    /\ \A p \in Callers :
         /\ call[p].at = "task" /\ call[p].op \in {"attempt", "reap", "claim"} => lock[call[p].run] = p
         /\ call[p].at \in {"update", "cascade"} => lock[Task] = p

\* Whatever the statements of several calls interleave to, what is committed is
\* a task whose last run, and no other, is active with it in the same state.
RowsAgree ==
    /\ ActiveRuns(db) = IF db.task \in Active THEN {db.last} ELSE {}
    /\ db.task \in Active => db.runs[db.last] = db.task

\* The transitions of the functions taken as one step each.
Steps(d) ==
    LET r == d.last
    IN  (IF d.task \in Claimable THEN {Moved(d, r, "running")} ELSE {})
        \cup (IF d.task \in Active THEN {Cancelled(d, {r})} ELSE {})
        \cup (IF d.task = "running" THEN AttemptOutcomes(d, r) ELSE {})
        \cup (IF d.task = "failed" THEN Retries(d) ELSE {})
        \cup (IF d.task \in Terminal THEN {Gone} ELSE {})

\* No statement acts on what it read before it waited: every commit is one
\* function's whole transition of the rows as they are at that moment.
CommitsAreAtomic == [][db' # db => db' \in Steps(db)]_vars

\* Attempts, supervision, reaping, deadlines, claims and retries never wait for
\* each other in a cycle: a deadlock takes a client's cancellation or a cleanup.
CyclesNeedCancelOrCleanup ==
    \A S \in Cycles : \E p \in S : call[p].op \in {"cancel", "cleanup"}
=============================================================================
