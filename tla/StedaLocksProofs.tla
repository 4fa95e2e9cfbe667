-------------------------- MODULE StedaLocksProofs --------------------------
(***************************************************************************)
(* For any number of sessions and attempts: the statements of the          *)
(* functions commit as if each function were one step, and a cycle of      *)
(* waits contains a client's cancellation or a cleanup.  The invariant     *)
(* says which rows a session at a given statement holds, and what nobody   *)
(* else can have changed because of that.                                  *)
(***************************************************************************)
EXTENDS StedaLocks, TLAPS

RunStates == Active \cup Terminal \cup {"none"}

Tables == [task : RunStates, last : {0} \cup Runs, runs : [Runs -> RunStates]]

\* The rows of a task in a committed state.
RowsOK(d) ==
    /\ d \in Tables
    /\ d.task # "none" => d.last \in Runs
    /\ \A r \in Runs : d.runs[r] \in Active <=> d.task \in Active /\ r = d.last
    /\ d.task \in Active => d.runs[d.last] = d.task

Calls ==
    [op : {"none", "claim", "reap", "expire", "attempt", "cancel", "retry", "cleanup"},
     at : {"idle", "reserve", "run", "task", "update", "cascade"}, run : Rows]

\* What a session at its statement knows of the rows, whoever else is at work.
CallOK(p, d) ==
    LET c == call[p]
    IN  /\ c.at = "reserve" => c.op \in {"claim", "reap", "expire"} /\ c.run \in Runs
        /\ c.at = "run" => c.op \in {"attempt", "reap", "cancel", "expire"} /\ c.run \in Runs
        /\ c.at = "run" /\ c.op \in {"reap", "expire"} => lock[c.run] = p
        /\ c.at = "task" => c.op \in {"attempt", "reap", "claim", "cancel", "expire", "retry"}
        /\ c.at = "task" /\ c.op \in {"attempt", "reap", "claim", "expire"}
             => c.run \in Runs /\ lock[c.run] = p
        /\ c.at = "task" /\ c.op = "claim" => d.runs[c.run] \in Claimable
        /\ c.at \in {"run", "task"} /\ c.op = "expire" => d.runs[c.run] \in Active
        /\ c.at = "update" => /\ c.op \in {"cancel", "expire"} /\ lock[Task] = p
                              /\ d.task \in Active /\ c.run = d.last
        /\ c.at = "update" /\ c.op = "expire" => lock[c.run] = p
        /\ c.at = "cascade" => /\ c.op = "cleanup" /\ lock[Task] = p
                               /\ d.task \in Terminal /\ c.run \in 1 .. d.last

\* What a session that holds a row is at.
HolderOK(p) ==
    /\ lock[Task] = p => call[p].at \in {"update", "cascade"}
    /\ \A r \in Runs : lock[r] = p =>
         \/ call[p].at \in {"task", "update", "cascade"}
         \/ call[p].at = "run" /\ call[p].op \in {"reap", "expire"} /\ call[p].run = r

LocksInv ==
    /\ RowsOK(db)
    /\ lock \in [Rows -> Callers \cup {NoCaller}]
    /\ call \in [Callers -> Calls]
    /\ \A p \in Callers : CallOK(p, db) /\ HolderOK(p)

-----------------------------------------------------------------------------
(* The writes.                                                             *)

\* The numbers of the rows: the task is row 0, the runs count from 1.
LEMMA Constants ==
    /\ Task = 0 /\ Runs \subseteq Nat \ {0} /\ Rows \subseteq Nat
    /\ Task \notin Runs /\ Task \in Rows /\ Runs \subseteq Rows /\ NoCaller \notin Callers
    /\ 1 \in Runs /\ MaxRuns \in Nat
    /\ \A n \in {0} \cup Runs : n < MaxRuns => n + 1 \in Runs /\ n # n + 1
BY LocksAssumption DEF Task, Runs, Rows

\* Moving the task and its active run to one state keeps them in agreement.
LEMMA MovedOK ==
    ASSUME NEW d, RowsOK(d), d.task \in Active,
           NEW state \in RunStates \ {"none"}
    PROVE  RowsOK(Moved(d, d.last, state))
<1> DEFINE e == Moved(d, d.last, state)
<1>1. d \in Tables /\ d.last \in Runs
  BY DEF RowsOK, Active, Claimable
<1>2. e \in Tables /\ e.task = state /\ e.last = d.last
  BY <1>1 DEF Moved, Tables
<1>3. \A r \in Runs : e.runs[r] = IF r = d.last THEN state ELSE d.runs[r]
  BY <1>1 DEF Moved, Tables
<1> QED
  BY <1>1, <1>2, <1>3 DEF RowsOK

\* A new pending run becomes the only active one.
LEMMA NextRunOK ==
    ASSUME NEW d \in Tables, d.last < MaxRuns,
           \A r \in Runs : d.runs[r] \notin Active
    PROVE  RowsOK(NextRun(d))
<1> DEFINE e == NextRun(d)
<1>1. d.last \in {0} \cup Runs /\ d.last + 1 \in Runs
  BY Constants DEF Tables
<1>2. "pending" \in RunStates /\ "pending" \in Active /\ "pending" # "none"
  BY DEF RunStates, Active, Claimable
<1>3. e \in Tables /\ e.task = "pending" /\ e.last = d.last + 1
  BY <1>1, <1>2 DEF NextRun, Moved, Tables
<1>4. \A r \in Runs : e.runs[r] = IF r = d.last + 1 THEN "pending" ELSE d.runs[r]
  BY <1>1 DEF NextRun, Moved, Tables
<1> QED
  BY <1>1, <1>2, <1>3, <1>4 DEF RowsOK

\* A cancellation leaves no active run.
LEMMA CancelledOK ==
    ASSUME NEW d, RowsOK(d), d.task \in Active
    PROVE  RowsOK(Cancelled(d, {d.last}))
<1> DEFINE e == Cancelled(d, {d.last})
<1>1. d \in Tables /\ d.last \in Runs
  BY DEF RowsOK, Active, Claimable
<1>2. "cancelled" \in RunStates /\ "cancelled" \notin Active
  BY DEF RunStates, Active, Claimable, Terminal
<1>3. e \in Tables /\ e.task = "cancelled" /\ e.last = d.last
  BY <1>1, <1>2 DEF Cancelled, Tables
<1>4. \A r \in Runs : e.runs[r] = IF r = d.last THEN "cancelled" ELSE d.runs[r]
  BY <1>1 DEF Cancelled, Tables
<1> QED
  BY <1>1, <1>2, <1>3, <1>4 DEF RowsOK

\* A fenced function changes nothing, or the running run of a running task.
LEMMA AttemptOK ==
    ASSUME NEW d, RowsOK(d), NEW r, NEW e \in AttemptOutcomes(d, r)
    PROVE  RowsOK(e) /\ (e # d => d.task = "running" /\ d.last = r /\ e \in AttemptOutcomes(d, d.last))
<1>1. CASE ~(d.task = "running" /\ d.last = r /\ d.runs[r] = "running")
  BY <1>1 DEF AttemptOutcomes
<1>2. CASE d.task = "running" /\ d.last = r /\ d.runs[r] = "running"
  <2> DEFINE f == [d EXCEPT !.runs[r] = "failed"]
  <2>1. d.task \in Active /\ d \in Tables /\ r \in Runs
    BY <1>2 DEF Active, RowsOK
  <2>2. {"completed", "sleeping", "failed"} \subseteq RunStates \ {"none"}
    BY DEF RunStates, Active, Claimable, Terminal
  <2>3. f \in Tables /\ f.last = d.last
    BY <2>1, <2>2 DEF Tables
  <2>4. \A q \in Runs : f.runs[q] \notin Active
    BY <1>2, <2>1 DEF Tables, RowsOK, Active, Claimable
  <2>5. \/ e \in {d, Moved(d, r, "completed"), Moved(d, r, "sleeping"), Moved(d, r, "failed"),
                  Cancelled(d, {r})}
        \/ e = NextRun(f) /\ f.last < MaxRuns
    BY <1>2 DEF AttemptOutcomes, Retries
  <2>6. RowsOK(Moved(d, r, "completed")) /\ RowsOK(Moved(d, r, "sleeping"))
          /\ RowsOK(Moved(d, r, "failed")) /\ RowsOK(Cancelled(d, {r}))
    BY <1>2, <2>1, <2>2, MovedOK, CancelledOK
  <2>7. f.last < MaxRuns => RowsOK(NextRun(f))
    BY <2>3, <2>4, NextRunOK
  <2> HIDE DEF f
  <2>8. RowsOK(e)
    BY <2>5, <2>6, <2>7
  <2> QED
    BY <2>8, <1>2
<1> QED
  BY <1>1, <1>2

-----------------------------------------------------------------------------
(* A session that commits, and one that goes on to its next statement.     *)

\* A commit keeps the invariant when it writes rows that agree and breaks nobody's reading.
LEMMA CommitOK ==
    ASSUME LocksInv, NEW p \in Callers, NEW new, RowsOK(new),
           \A q \in Callers \ {p} : CallOK(q, new),
           Commit(p, new)
    PROVE  LocksInv'
<1>1. /\ lock \in [Rows -> Callers \cup {NoCaller}] /\ call \in [Callers -> Calls]
      /\ \A q \in Callers : HolderOK(q)
  BY DEF LocksInv
<1>2. Idle \in Calls
  BY Constants DEF Idle, Calls
<1>3. db' = new /\ call' = [call EXCEPT ![p] = Idle]
  BY DEF Commit
<1>4. call' \in [Callers -> Calls] /\ call'[p] = Idle
        /\ \A q \in Callers \ {p} : call'[q] = call[q]
  BY <1>1, <1>2, <1>3
<1>5. lock' \in [Rows -> Callers \cup {NoCaller}]
  BY <1>1 DEF Commit
<1>6. \A row \in Rows : lock'[row] = IF lock[row] = p THEN NoCaller ELSE lock[row]
  BY DEF Commit
<1>7. \A row \in Rows : lock'[row] # p /\ \A q \in Callers \ {p} : lock'[row] = q <=> lock[row] = q
  BY <1>6, Constants
<1>8. ASSUME NEW q \in Callers PROVE (CallOK(q, db) /\ HolderOK(q))'
  <2>1. CASE q = p
    BY <2>1, <1>4, <1>7, Constants DEF CallOK, HolderOK, Idle
  <2>2. CASE q # p
    <3>1. CallOK(q, new) /\ HolderOK(q) /\ call'[q] = call[q] /\ call[q].run \in Rows
      BY <2>2, <1>1, <1>4 DEF Calls
    <3>2. CallOK(q, db)'
      BY <3>1, <1>3, <1>7, <2>2, Constants DEF CallOK
    <3>3. HolderOK(q)'
      BY <3>1, <1>7, <2>2, Constants DEF HolderOK
    <3> QED
      BY <3>2, <3>3
  <2> QED
    BY <2>1, <2>2
<1> QED
  BY <1>3, <1>4, <1>5, <1>8 DEF LocksInv, RowsOK

\* A statement that takes at most one free lock and writes nothing keeps the invariant.
LEMMA GoesOn ==
    ASSUME LocksInv, NEW p \in Callers, NEW c \in Calls,
           call' = [call EXCEPT ![p] = c], db' = db,
           lock' = lock \/ \E row \in Rows : Free(p, row) /\ Hold(p, row),
           CallOK(p, db)', HolderOK(p)'
    PROVE  LocksInv'
<1>1. /\ lock \in [Rows -> Callers \cup {NoCaller}] /\ call \in [Callers -> Calls]
      /\ \A q \in Callers : CallOK(q, db) /\ HolderOK(q)
  BY DEF LocksInv
<1>2. call' \in [Callers -> Calls] /\ \A q \in Callers \ {p} : call'[q] = call[q]
  BY <1>1
<1>3. lock' \in [Rows -> Callers \cup {NoCaller}]
  BY <1>1 DEF Hold
<1>4. \A row \in Rows, q \in Callers \ {p} : lock'[row] = q <=> lock[row] = q
  BY <1>1, Constants DEF Hold, Free
<1>5. ASSUME NEW q \in Callers PROVE (CallOK(q, db) /\ HolderOK(q))'
  <2>1. CASE q = p
    BY <2>1
  <2>2. CASE q # p
    <3>1. CallOK(q, db) /\ HolderOK(q) /\ call'[q] = call[q] /\ call[q].run \in Rows
      BY <2>2, <1>1, <1>2 DEF Calls
    <3>2. CallOK(q, db)'
      BY <3>1, <1>4, <2>2, Constants DEF CallOK
    <3>3. HolderOK(q)'
      BY <3>1, <1>4, <2>2, Constants DEF HolderOK
    <3> QED
      BY <3>2, <3>3
  <2> QED
    BY <2>1, <2>2
<1> QED
  BY <1>2, <1>3, <1>5 DEF LocksInv, RowsOK

\* Every transition of a function leads to rows that agree.
LEMMA StepsOK ==
    ASSUME NEW d, RowsOK(d), NEW e \in Steps(d)
    PROVE  RowsOK(e)
<1>1. CASE d.task \in Claimable /\ e = Moved(d, d.last, "running")
  BY <1>1, MovedOK DEF Active, RunStates
<1>2. CASE d.task \in Active /\ e = Cancelled(d, {d.last})
  BY <1>2, CancelledOK
<1>3. CASE e \in AttemptOutcomes(d, d.last)
  BY <1>3, AttemptOK
<1>4. CASE d.task = "failed" /\ e \in Retries(d)
  <2>1. \A r \in Runs : d.runs[r] \notin Active
    BY <1>4 DEF RowsOK, Active, Claimable
  <2>2. d \in Tables /\ d.last < MaxRuns /\ e = NextRun(d)
    BY <1>4 DEF RowsOK, Retries
  <2> QED
    BY <2>1, <2>2, NextRunOK
<1>5. CASE e = Gone
  BY <1>5 DEF Gone, RowsOK, Tables, RunStates, Active, Claimable, Terminal
<1> QED
  BY <1>1, <1>2, <1>3, <1>4, <1>5 DEF Steps

\* Who holds the task, and its active run if there is one, changes nothing that
\* another session relies on.
LEMMA Undisturbed ==
    ASSUME LocksInv, NEW p \in Callers, Free(p, Task),
           db.task \in Active => Free(p, db.last), NEW new
    PROVE  \A q \in Callers \ {p} : CallOK(q, new)
<1> SUFFICES ASSUME NEW q \in Callers, q # p PROVE CallOK(q, new)
  OBVIOUS
<1>1. CallOK(q, db) /\ RowsOK(db)
  BY DEF LocksInv
<1>2. lock[Task] # q /\ (db.task \in Active => lock[db.last] # q)
  BY Constants DEF Free
<1>3. \A r \in Runs : db.runs[r] \in Active => lock[r] # q
  BY <1>1, <1>2 DEF RowsOK
<1>4. ~(call[q].at = "task" /\ call[q].op = "claim")
  BY <1>1, <1>3 DEF CallOK, Active
<1>5. ~(call[q].at \in {"run", "task"} /\ call[q].op = "expire")
  BY <1>1, <1>3 DEF CallOK
<1>6. call[q].at \notin {"update", "cascade"}
  BY <1>1, <1>2 DEF CallOK
<1> QED
  BY <1>1, <1>4, <1>5, <1>6 DEF CallOK

\* A commit of the whole transition, by a session that can hold what it writes.
LEMMA Commits ==
    ASSUME LocksInv, NEW p \in Callers, NEW new, Commit(p, new),
           \/ new = db
           \/ new \in Steps(db) /\ Free(p, Task) /\ (db.task \in Active => Free(p, db.last))
    PROVE  LocksInv' /\ (db' # db => db' \in Steps(db))
<1>1. db' = new
  BY DEF Commit
<1>2. RowsOK(new)
  BY StepsOK DEF LocksInv
<1>3. \A q \in Callers \ {p} : CallOK(q, new)
  <2>1. CASE new = db
    BY <2>1 DEF LocksInv
  <2>2. CASE new # db
    BY <2>2, Undisturbed
  <2> QED
    BY <2>1, <2>2
<1>4. LocksInv'
  BY <1>2, <1>3, CommitOK
<1> QED
  BY <1>1, <1>4

-----------------------------------------------------------------------------
(* The actions.                                                            *)

\* Initially nobody calls and no row is locked.
LEMMA InitOK ==
    LocksInit => LocksInv
<1> SUFFICES ASSUME LocksInit PROVE LocksInv
  OBVIOUS
<1>1. RowsOK(db)
  BY Constants DEF LocksInit, RowsOK, Tables, RunStates, Active, Claimable, Terminal
<1>2. lock \in [Rows -> Callers \cup {NoCaller}] /\ call \in [Callers -> Calls]
  BY Constants DEF LocksInit, Idle, Calls
<1>3. \A p \in Callers : CallOK(p, db) /\ HolderOK(p)
  BY Constants DEF LocksInit, Idle, CallOK, HolderOK
<1> QED
  BY <1>1, <1>2, <1>3 DEF LocksInv

\* A call begins: nothing is held yet.
LEMMA BeginsOK ==
    ASSUME LocksInv, NEW p \in Callers, call[p] = Idle, UNCHANGED <<db, lock>>,
           NEW c \in Calls, call' = [call EXCEPT ![p] = c],
           \/ c.at = "reserve" /\ c.op \in {"claim", "reap", "expire"} /\ c.run \in Runs
           \/ c.at = "run" /\ c.op \in {"attempt", "cancel"} /\ c.run \in Runs
           \/ c.at = "task" /\ c.op \in {"cancel", "retry"}
    PROVE  LocksInv'
<1>1. call'[p] = c /\ lock' = lock
  BY DEF LocksInv
<1>2. \A row \in Rows : lock[row] # p
  BY Constants DEF LocksInv, HolderOK, Idle, Rows
<1>3. CallOK(p, db)'
  BY <1>1 DEF CallOK
<1>4. HolderOK(p)'
  BY <1>1, <1>2, Constants DEF HolderOK
<1> QED
  BY <1>3, <1>4, <1>1, GoesOn

\* A call begins: it knows a run, and holds nothing.
LEMMA CallsBeginOK ==
    ASSUME LocksInv, NEW p \in Callers,
           CallAttempt(p) \/ CallMaintenance(p) \/ CallCancel(p) \/ CallRetry(p)
    PROVE  LocksInv' /\ db' = db
<1>1. RowsOK(db)
  BY DEF LocksInv
<1>2. call[p] = Idle /\ UNCHANGED <<db, lock>>
  BY DEF CallAttempt, CallMaintenance, CallCancel, CallRetry
<1>3. db.task \in Active => db.last \in Runs
  BY <1>1 DEF RowsOK, Active, Claimable
<1>4. ASSUME NEW op \in {"claim", "reap", "expire"}, NEW r \in Runs, At(p, op, "reserve", r)
      PROVE  LocksInv'
  BY <1>2, <1>4, BeginsOK, Constants DEF At, Calls
<1>5. ASSUME NEW op \in {"attempt", "cancel"}, NEW r \in Runs, At(p, op, "run", r)
      PROVE  LocksInv'
  BY <1>2, <1>5, BeginsOK, Constants DEF At, Calls
<1>6. ASSUME NEW op \in {"cancel", "retry"}, At(p, op, "task", 0)
      PROVE  LocksInv'
  BY <1>2, <1>6, BeginsOK, Constants DEF At, Calls
<1>7. CASE CallAttempt(p)
  BY <1>7, <1>5 DEF CallAttempt
<1>8. CASE CallMaintenance(p)
  BY <1>8, <1>3, <1>4 DEF CallMaintenance, Active
<1>9. CASE CallCancel(p)
  <2>1. ActiveRuns(db) # {} => ActiveRun(db) \in Runs
    BY DEF ActiveRun, ActiveRuns
  <2> QED
    BY <1>9, <2>1, <1>5, <1>6 DEF CallCancel
<1>10. CASE CallRetry(p)
  BY <1>10, <1>6 DEF CallRetry
<1> QED
  BY <1>2, <1>7, <1>8, <1>9, <1>10

\* cleanup_tasks() begins by locking the task it deletes.
LEMMA CallCleanupOK ==
    ASSUME LocksInv, NEW p \in Callers, CallCleanup(p)
    PROVE  LocksInv' /\ db' = db
<1> DEFINE c == [op |-> "cleanup", at |-> "cascade", run |-> 1]
<1>1. call[p] = Idle /\ db' = db /\ db.task \in Terminal /\ Free(p, Task) /\ Hold(p, Task)
        /\ call' = [call EXCEPT ![p] = c]
  BY DEF CallCleanup, At, Free
<1>2. call'[p] = c /\ lock'[Task] = p /\ c \in Calls
  BY <1>1, Constants DEF LocksInv, Hold, Calls
<1>3. 1 \in 1 .. db.last
  <2>1. db.last \in Runs
    BY <1>1 DEF LocksInv, RowsOK, Terminal
  <2> QED
    BY <2>1, LocksAssumption DEF Runs
<1>4. CallOK(p, db)'
  BY <1>1, <1>2, <1>3 DEF CallOK
<1>5. HolderOK(p)'
  BY <1>2 DEF HolderOK
<1>6. \E row \in Rows : Free(p, row) /\ Hold(p, row)
  BY <1>1, Constants
<1> HIDE DEF c
<1>7. LocksInv'
  BY <1>1, <1>2, <1>4, <1>5, <1>6, GoesOn
<1> QED
  BY <1>1, <1>7

\* FOR UPDATE SKIP LOCKED of claim, reaping and deadline cancellation.
LEMMA ReserveOK ==
    ASSUME LocksInv, NEW p \in Callers, Reserve(p)
    PROVE  LocksInv' /\ (db' # db => db' \in Steps(db))
<1> DEFINE r == call[p].run
           c == [op |-> call[p].op, at |-> IF call[p].op = "claim" THEN "task" ELSE "run", run |-> r]
<1>1. call[p].op \in {"claim", "reap", "expire"} /\ r \in Runs /\ call[p].at = "reserve"
  BY DEF LocksInv, CallOK, Reserve
<1>2. CASE ~Reserved(p)
  BY <1>2, Commits DEF Reserve
<1>3. CASE Reserved(p)
  <2>1. db' = db /\ Hold(p, r) /\ call' = [call EXCEPT ![p] = c] /\ Free(p, r)
    BY <1>3 DEF Reserve, At, Reserved, Free
  <2>2. db.runs[r] \in Eligible(call[p].op)
    BY <1>3 DEF Reserved
  <2>3. c \in Calls
    BY <1>1, Constants DEF Calls
  <2>4. call'[p] = c /\ lock'[r] = p /\ \A row \in Rows \ {r} : lock'[row] = lock[row]
    BY <2>1, <1>1, Constants DEF LocksInv, Hold
  <2>5. /\ call[p].op = "claim" => db.runs[r] \in Claimable
        /\ call[p].op = "expire" => db.runs[r] \in Active
    BY <2>2 DEF Eligible
  <2>6. \A row \in Rows : lock[row] # p
    BY <1>1 DEF LocksInv, HolderOK, Rows
  <2>7. CallOK(p, db)'
    BY <1>1, <2>1, <2>4, <2>5 DEF CallOK
  <2>8. HolderOK(p)'
    <3>1. lock'[Task] # p /\ \A q \in Runs : lock'[q] = p => q = r
      BY <1>1, <2>4, <2>6, Constants
    <3>2. \/ call'[p].at = "task"
          \/ call'[p].at = "run" /\ call'[p].op \in {"reap", "expire"} /\ call'[p].run = r
      BY <1>1, <2>4
    <3> QED
      BY <3>1, <3>2 DEF HolderOK
  <2>9. \E row \in Rows : Free(p, row) /\ Hold(p, row)
    BY <2>1, <1>1, Constants
  <2> HIDE DEF c
  <2>10. LocksInv'
    BY <2>1, <2>3, <2>7, <2>8, <2>9, GoesOn
  <2> QED
    BY <2>1, <2>10
<1> QED
  BY <1>2, <1>3

\* The lock of the run, and what the statement finds once it has it.
LEMMA LockRunOK ==
    ASSUME LocksInv, NEW p \in Callers, LockRun(p)
    PROVE  LocksInv' /\ (db' # db => db' \in Steps(db))
<1> DEFINE r == call[p].run
           c == [op |-> call[p].op, at |-> "task", run |-> r]
<1>1. /\ call[p].op \in {"attempt", "reap", "cancel", "expire"} /\ r \in Runs
      /\ call[p].at = "run" /\ Free(p, r) /\ CallOK(p, db)
  BY DEF LocksInv, CallOK, LockRun
<1>2. CASE Commit(p, db)
  BY <1>2, Commits
<1>3. CASE Hold(p, r) /\ At(p, call[p].op, "task", r) /\ db' = db
  <2>1. call' = [call EXCEPT ![p] = c] /\ c \in Calls
    BY <1>1, <1>3, Constants DEF At, Calls
  <2>2. call'[p] = c /\ lock'[r] = p /\ lock'[Task] = lock[Task]
    BY <2>1, <1>1, <1>3, Constants DEF LocksInv, Hold
  <2>3. CallOK(p, db)'
    BY <1>1, <1>3, <2>2 DEF CallOK
  <2>4. HolderOK(p)'
    BY <1>1, <2>2 DEF HolderOK, LocksInv
  <2> HIDE DEF c
  <2> QED
    BY <1>1, <1>3, <2>1, <2>3, <2>4, GoesOn, Constants
<1> QED
  BY <1>2, <1>3 DEF LockRun

\* Under the lock of the task: an attempt ends, a claim or a retry is written.
LEMMA LockTaskOK ==
    ASSUME LocksInv, NEW p \in Callers, LockTask(p)
    PROVE  LocksInv' /\ (db' # db => db' \in Steps(db))
<1> DEFINE r == call[p].run
<1>1. RowsOK(db) /\ CallOK(p, db) /\ call[p].at = "task" /\ Free(p, Task)
  BY DEF LocksInv, LockTask
<1>2. call[p].op \in {"attempt", "reap", "claim", "cancel", "expire", "retry"}
  BY <1>1 DEF CallOK
<1>3. CASE call[p].op \in {"attempt", "reap"}
  <2>1. PICK new \in AttemptOutcomes(db, r) : Commit(p, new)
    BY <1>3 DEF LockTask
  <2>2. new # db => db.task = "running" /\ db.last = r /\ new \in AttemptOutcomes(db, db.last)
    BY <1>1, <2>1, AttemptOK
  <2>3. new # db => new \in Steps(db) /\ Free(p, db.last)
    BY <2>2, <1>1, <1>3 DEF Steps, CallOK, Free
  <2> QED
    BY <2>1, <2>3, <1>1, Commits
<1>4. CASE call[p].op = "claim"
  <2>1. Commit(p, Claimed(db, r))
    BY <1>4 DEF LockTask
  <2>2. r \in Runs /\ lock[r] = p /\ db.runs[r] \in Claimable
    BY <1>1, <1>4 DEF CallOK
  <2>3. db.last = r /\ db.task \in Claimable /\ db \in Tables
    BY <1>1, <2>2 DEF RowsOK, Active
  <2>4. Claimed(db, r) = Moved(db, db.last, "running")
    BY <2>3 DEF Claimed, Moved, Tables
  <2>5. Claimed(db, r) \in Steps(db) /\ Free(p, db.last)
    BY <2>2, <2>3, <2>4 DEF Steps, Free
  <2> QED
    BY <2>1, <2>5, <1>1, Commits
<1>5. CASE call[p].op = "retry"
  <2>1. PICK new : Commit(p, new) /\ (new # db => db.task = "failed" /\ new \in Retries(db))
    BY <1>5 DEF LockTask
  <2>2. new # db => new \in Steps(db) /\ db.task \notin Active
    BY <2>1 DEF Steps, Active, Claimable
  <2> QED
    BY <2>1, <2>2, <1>1, Commits
<1>6. CASE call[p].op \in {"cancel", "expire"}
  <2> DEFINE c == [op |-> call[p].op, at |-> "update", run |-> RunToCancel(p)]
  <2>1. CASE db.task \notin Active
    <3>1. Commit(p, db)
      BY <1>6, <2>1 DEF LockTask
    <3> QED
      BY <3>1, Commits
  <2>2. CASE db.task \in Active
    <3>1. Hold(p, Task) /\ db' = db /\ call' = [call EXCEPT ![p] = c]
      BY <1>6, <2>2 DEF LockTask, At
    <3>2. db.last \in Runs /\ ActiveRuns(db) = {db.last}
      BY <1>1, <2>2 DEF RowsOK, ActiveRuns, Active, Claimable
    <3>3. RunToCancel(p) = db.last
      BY <3>2 DEF RunToCancel, ActiveRun
    <3>4. c \in Calls
      BY <1>6, <3>2, <3>3, Constants DEF Calls
    <3>5. call'[p] = c /\ lock'[Task] = p /\ \A row \in Runs : lock'[row] = lock[row]
      BY <3>1, Constants DEF LocksInv, Hold
    <3>6. call[p].op = "expire" => lock[db.last] = p
      BY <1>1, <3>2 DEF CallOK, RowsOK
    <3>7. CallOK(p, db)'
      BY <1>6, <2>2, <3>1, <3>2, <3>3, <3>5, <3>6 DEF CallOK
    <3>8. HolderOK(p)'
      BY <3>5 DEF HolderOK
    <3>9. \E row \in Rows : Free(p, row) /\ Hold(p, row)
      BY <3>1, <1>1, Constants
    <3> HIDE DEF c
    <3>10. LocksInv'
      BY <3>1, <3>4, <3>7, <3>8, <3>9, GoesOn
    <3> QED
      BY <3>1, <3>10
  <2> QED
    BY <2>1, <2>2
<1> QED
  BY <1>2, <1>3, <1>4, <1>5, <1>6

\* cancel_task() updates a run it had not locked before the task.
LEMMA UpdateRunOK ==
    ASSUME LocksInv, NEW p \in Callers, UpdateRun(p)
    PROVE  LocksInv' /\ (db' # db => db' \in Steps(db))
<1>1. /\ call[p].run = db.last /\ db.task \in Active /\ Free(p, Task) /\ Free(p, db.last)
      /\ Commit(p, Cancelled(db, {db.last}))
  BY DEF LocksInv, CallOK, UpdateRun, Free
<1>2. Cancelled(db, {db.last}) \in Steps(db)
  BY <1>1 DEF Steps
<1> QED
  BY <1>1, <1>2, Commits

\* The cascade of a deletion locks the runs one by one, then the task is gone.
LEMMA CascadeOK ==
    ASSUME LocksInv, NEW p \in Callers, Cascade(p)
    PROVE  LocksInv' /\ (db' # db => db' \in Steps(db))
<1> DEFINE r == call[p].run
           c == [op |-> "cleanup", at |-> "cascade", run |-> r + 1]
<1>1. /\ call[p].op = "cleanup" /\ lock[Task] = p /\ db.task \in Terminal /\ r \in 1 .. db.last
      /\ Free(p, r) /\ db.last \in Runs
  BY DEF LocksInv, CallOK, Cascade, RowsOK, Terminal
<1>2. CASE Commit(p, Gone)
  <2>1. Gone \in Steps(db) /\ db.task \notin Active /\ Free(p, Task)
    BY <1>1 DEF Steps, Terminal, Active, Claimable, Free
  <2> QED
    BY <1>2, <2>1, Commits
<1>3. CASE r # db.last /\ Hold(p, r) /\ At(p, "cleanup", "cascade", r + 1) /\ db' = db
  <2>1. r \in Runs /\ r + 1 \in Runs /\ r + 1 \in 1 .. db.last
    BY <1>1, <1>3, LocksAssumption DEF Runs
  <2>2. call' = [call EXCEPT ![p] = c] /\ c \in Calls
    BY <1>3, <2>1, Constants DEF At, Calls
  <2>3. call'[p] = c /\ lock'[Task] = p
    BY <1>1, <1>3, <2>1, <2>2, Constants DEF LocksInv, Hold
  <2>4. CallOK(p, db)'
    BY <1>1, <1>3, <2>1, <2>3 DEF CallOK
  <2>5. HolderOK(p)'
    BY <2>3 DEF HolderOK
  <2>6. \E row \in Rows : Free(p, row) /\ Hold(p, row)
    BY <1>1, <1>3, <2>1, Constants
  <2> HIDE DEF c
  <2>7. LocksInv'
    BY <1>3, <2>2, <2>4, <2>5, <2>6, GoesOn
  <2> QED
    BY <1>3, <2>7
<1> QED
  BY <1>2, <1>3 DEF Cascade

\* Every statement keeps the invariant, and commits a whole transition if any.
LEMMA NextOK ==
    ASSUME LocksInv, LocksNext
    PROVE  LocksInv' /\ (db' # db => db' \in Steps(db))
<1>1. PICK p \in Callers :
        \/ CallAttempt(p) \/ CallMaintenance(p) \/ CallCancel(p) \/ CallRetry(p) \/ CallCleanup(p)
        \/ Reserve(p) \/ LockRun(p) \/ LockTask(p) \/ UpdateRun(p) \/ Cascade(p) \/ Abort(p)
  BY DEF LocksNext
<1>2. CASE CallAttempt(p) \/ CallMaintenance(p) \/ CallCancel(p) \/ CallRetry(p)
  BY <1>2, CallsBeginOK
<1>3. CASE CallCleanup(p)
  BY <1>3, CallCleanupOK
<1>4. CASE Reserve(p)
  BY <1>4, ReserveOK
<1>5. CASE LockRun(p)
  BY <1>5, LockRunOK
<1>6. CASE LockTask(p)
  BY <1>6, LockTaskOK
<1>7. CASE UpdateRun(p)
  BY <1>7, UpdateRunOK
<1>8. CASE Cascade(p)
  BY <1>8, CascadeOK
<1>9. CASE Abort(p)
  BY <1>9, Commits DEF Abort
<1> QED
  BY <1>1, <1>2, <1>3, <1>4, <1>5, <1>6, <1>7, <1>8, <1>9

\* A stuttering step changes nothing.
LEMMA StutterOK ==
    ASSUME LocksInv, UNCHANGED vars
    PROVE  LocksInv'
BY DEF vars, LocksInv, RowsOK, CallOK, HolderOK

-----------------------------------------------------------------------------
(* The theorems.                                                           *)

\* The invariant holds in every reachable state, for any number of sessions that
\* call the functions of one task.
THEOREM LocksInvariance == LocksSpec => []LocksInv
<1>1. LocksInv /\ [LocksNext]_vars => LocksInv'
  BY NextOK, StutterOK
<1> QED
  BY InitOK, <1>1, PTL DEF LocksSpec

\* Rows are locked by calls under way, and a call that is about to write a run or
\* the runs of a task holds what it needs for that.
THEOREM LocksTypeCorrect == LocksSpec => []LocksTypeOK
<1>1. LocksInv => LocksTypeOK
  <2> SUFFICES ASSUME LocksInv PROVE LocksTypeOK
    OBVIOUS
  <2>1. ASSUME NEW row \in Rows, lock[row] # NoCaller PROVE call[lock[row]] # Idle
    <3>1. PICK p \in Callers : p = lock[row]
      BY <2>1 DEF LocksInv
    <3> QED
      BY <3>1 DEF LocksInv, HolderOK, Idle, Rows
  <2>2. ASSUME NEW p \in Callers
        PROVE  /\ call[p].at = "task" /\ call[p].op \in {"attempt", "reap", "claim"}
                    => lock[call[p].run] = p
               /\ call[p].at \in {"update", "cascade"} => lock[Task] = p
    BY DEF LocksInv, CallOK
  <2> QED
    BY <2>1, <2>2 DEF LocksTypeOK
<1> QED
  BY LocksInvariance, <1>1, PTL

\* Whatever the statements of cancel_task(), claim_tasks(), fail_run() and the
\* others interleave to, the committed task and its runs agree.
THEOREM RowsAgreeHolds == LocksSpec => []RowsAgree
<1>1. LocksInv => RowsAgree
  BY DEF LocksInv, RowsOK, RowsAgree, ActiveRuns, Active, Claimable
<1> QED
  BY LocksInvariance, <1>1, PTL

\* Every commit is the whole transition of one function, of the rows as they are
\* at the commit: the functions may be taken as single steps.
THEOREM CommitsAreAtomicHolds == LocksSpec => CommitsAreAtomic
<1>1. LocksInv /\ [LocksNext]_vars => [db' # db => db' \in Steps(db)]_vars
  BY NextOK DEF vars
<1> QED
  BY LocksInvariance, <1>1, PTL DEF LocksSpec, CommitsAreAtomic

\* A cycle of waits, however long, contains a cancel_task() called by a client or
\* a cleanup_tasks(): the run -> task order of the others excludes it.
THEOREM CyclesNeedCancelOrCleanupHolds == LocksSpec => []CyclesNeedCancelOrCleanup
<1>1. LocksInv => CyclesNeedCancelOrCleanup
  <2> SUFFICES ASSUME LocksInv, NEW S \in Cycles
               PROVE  \E p \in S : call[p].op \in {"cancel", "cleanup"}
    BY DEF CyclesNeedCancelOrCleanup
  <2>1. S \subseteq Callers /\ S # {} /\ \A p \in S : Waits(p) /\ lock[Wanted(p)] \in S
    BY DEF Cycles
  <2>2. \A p \in S : /\ CallOK(p, db) /\ HolderOK(p)
                    /\ call[p].at \in {"run", "task", "update", "cascade"}
                    /\ lock[Wanted(p)] # p
    BY <2>1 DEF LocksInv, Waits
  <2>3. ASSUME NEW p \in S, call[p].at \in {"update", "cascade"}
        PROVE  call[p].op \in {"cancel", "cleanup"}
    BY <2>2, <2>3 DEF CallOK, Wanted
  <2>4. ASSUME NEW p \in S, call[p].at = "task"
        PROVE  \E q \in S : call[q].op \in {"cancel", "cleanup"}
    <3>1. lock[Task] \in S
      BY <2>1, <2>4 DEF Wanted
    <3>2. call[lock[Task]].at \in {"update", "cascade"}
      BY <2>2, <3>1 DEF HolderOK
    <3> QED
      BY <2>3, <3>1, <3>2
  <2>5. ASSUME NEW p \in S, call[p].at = "run"
        PROVE  \E q \in S : call[q].op \in {"cancel", "cleanup"}
    <3>1. Wanted(p) = call[p].run /\ call[p].run \in Runs
      BY <2>2, <2>5 DEF Wanted, CallOK
    <3>2. PICK q \in S : q = lock[call[p].run]
      BY <2>1, <3>1
    <3>3. call[q].at # "run"
      BY <2>2, <3>1, <3>2 DEF HolderOK, Wanted
    <3> QED
      BY <2>2, <2>3, <2>4, <3>3
  <2> QED
    BY <2>1, <2>2, <2>3, <2>4, <2>5
<1> QED
  BY LocksInvariance, <1>1, PTL
=============================================================================
