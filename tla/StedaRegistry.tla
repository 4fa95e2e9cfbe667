---------------------------- MODULE StedaRegistry ---------------------------
(***************************************************************************)
(* The queues of one installation: create, delete, policy and retention    *)
(* cleanup (0002_queue_management.sql, 0008_cleanup.sql, src/queue.rs,     *)
(* src/steda.rs).                                                          *)
(*                                                                         *)
(* Every operation is a transaction whose first statement takes the        *)
(* advisory lock of the queue's name, and whose later statements each read *)
(* what is committed at that moment (READ COMMITTED).  What it wrote is    *)
(* seen by others when it commits.  cleanup_all_queues() collects the      *)
(* locks of all queues, in name order, in one transaction.                 *)
(***************************************************************************)
EXTENDS Integers, FiniteSets, FiniteSetsExt

CONSTANTS
    Queues,          \* queue names, ordered as ORDER BY name does: a set of numbers
    LockOf,          \* [Queues -> lock keys]: hashtext(), which may collide
    Sessions,
    Nobody,
    DefaultTtl, DefaultLimit,
    Ttls, Limits,    \* requested values; not every one is accepted
    MaxDone          \* bound: terminal tasks past their ttl in one queue

Null == -1
OrNull(S) == S \cup {Null}

ASSUME RegistryAssumption ==
    /\ Queues \subseteq Nat
    /\ Nobody \notin Sessions
    /\ DefaultTtl \in Nat /\ DefaultLimit \in Nat \ {0}
    /\ Ttls \subseteq Nat /\ Limits \subseteq Nat
    /\ MaxDone \in Nat

VARIABLES
    queues,    \* [Queues -> policy or NoQueue]: the rows of steda.queues
    storage,   \* [Queues -> BOOLEAN]: the three tables of the queue exist
    done,      \* [Queues -> 0 .. MaxDone]: tasks that retention may delete
    lock,      \* [lock keys -> Sessions \cup {Nobody}]
    tx,        \* [Sessions -> transaction]
    wanted     \* [Queues -> policy or NoQueue]: what acknowledged calls asked for

registryVars == <<queues, storage, done, lock, tx, wanted>>

NoQueue == [exists |-> FALSE]
Policy == [exists : {TRUE}, ttl : Nat, limit : Nat \ {0}]
DefaultPolicy == [exists |-> TRUE, ttl |-> DefaultTtl, limit |-> DefaultLimit]

\* QueuePolicyOptions: Null is None.
Options == [ttl : OrNull(Ttls), limit : OrNull(Limits)]
NoOptions == [ttl |-> Null, limit |-> Null]

\* `left` are the queues the transaction has still to visit, `found` the row it
\* read, `deleted` what it has deleted.  pc names the next statement.
Resting == [pc |-> "resting"]
Transaction ==
    [pc      : {"lock", "read", "tables", "policy", "commit"},
     kind    : {"create", "delete", "set_policy", "cleanup", "cleanup_all"},
     queue   : Queues,
     left    : SUBSET Queues,
     options : Options,
     found   : Policy \cup {NoQueue},
     deleted : [Queues -> 0 .. MaxDone]]

RegistryInit ==
    /\ queues = [q \in Queues |-> NoQueue]
    /\ storage = [q \in Queues |-> FALSE]
    /\ done = [q \in Queues |-> 0]
    /\ lock = [k \in { LockOf[q] : q \in Queues } |-> Nobody]
    /\ tx = [s \in Sessions |-> Resting]
    /\ wanted = [q \in Queues |-> NoQueue]

-----------------------------------------------------------------------------
(* Calls.                                                                  *)

\* database_positive_i32(); a ttl is a Duration and cannot be negative.
Accepted(options) == options.limit # 0

Begin(s, kind, q, left, options) ==
    /\ tx[s] = Resting
    /\ tx' = [tx EXCEPT ![s] =
                [pc |-> "lock", kind |-> kind, queue |-> q, left |-> left,
                 options |-> options, found |-> NoQueue,
                 deleted |-> [p \in Queues |-> 0]]]
    /\ UNCHANGED <<queues, storage, done, lock, wanted>>

\* Queue::create() is create_with_policy() without options.
Create(s, q, options) == Accepted(options) /\ Begin(s, "create", q, {}, options)

Delete(s, q) == Begin(s, "delete", q, {}, NoOptions)

SetPolicy(s, q, options) == Accepted(options) /\ Begin(s, "set_policy", q, {}, options)

Cleanup(s, q) == Begin(s, "cleanup", q, {}, NoOptions)

\* FOR cleanup_queue_name IN SELECT ... ORDER BY name: the names are read once.
FirstByName(S) == Min(S)

Registered == { q \in Queues : queues[q].exists }

\* Mutant: without ORDER BY the loop starts with any queue.
CleanupAllUnordered(s) ==
    \E first \in Registered : Begin(s, "cleanup_all", first, Registered \ {first}, NoOptions)

\* Steda::cleanup()
CleanupAll(s) ==
    /\ Registered # {}
    /\ LET first == FirstByName(Registered)
       IN  Begin(s, "cleanup_all", first, Registered \ {first}, NoOptions)

-----------------------------------------------------------------------------
(* How a transaction goes on.                                              *)

Goto(s, pc) == tx' = [tx EXCEPT ![s].pc = pc]

Released(s) == [k \in DOMAIN lock |-> IF lock[k] = s THEN Nobody ELSE lock[k]]

\* Rollback: the locks go, nothing is written.
Raise(s) ==
    /\ tx' = [tx EXCEPT ![s] = Resting]
    /\ lock' = Released(s)
    /\ UNCHANGED <<queues, storage, done, wanted>>

CommitWith(s, q, row, exists, left) ==
    /\ queues' = [queues EXCEPT ![q] = row]
    /\ storage' = [storage EXCEPT ![q] = exists]
    /\ done' = [done EXCEPT ![q] = left]
    /\ tx' = [tx EXCEPT ![s] = Resting]
    /\ lock' = Released(s)

\* Mutant: nobody waits for the lock.
LockIgnored(s) == TRUE

\* pg_advisory_xact_lock(): the transaction may hold the key already, through
\* another queue whose name has the same hash.
LockFree(s) == lock[LockOf[tx[s].queue]] \in {Nobody, s}

TakeLock(s) ==
    /\ tx[s].pc = "lock"
    /\ LockFree(s)
    /\ lock' = [lock EXCEPT ![LockOf[tx[s].queue]] = s]
    /\ Goto(s, "read")
    /\ UNCHANGED <<queues, storage, done, wanted>>

Overridden(row, options) ==
    [row EXCEPT !.ttl = IF options.ttl = Null THEN @ ELSE options.ttl,
                !.limit = IF options.limit = Null THEN @ ELSE options.limit]

\* The row of steda.queues: the conflict of the INSERT, or the SELECT.  Without
\* a row, drop_queue() returns and the others raise; nothing is written.
ReadRow(s) ==
    LET row == queues[tx[s].queue]
    IN  /\ tx[s].pc = "read"
        /\ \/ /\ ~row.exists /\ tx[s].kind # "create"
              /\ Raise(s)
           \/ /\ row.exists \/ tx[s].kind = "create"
              /\ tx' = [tx EXCEPT ![s].found = row,
                                  ![s].pc = IF tx[s].kind = "set_policy" THEN "policy" ELSE "tables"]
              /\ UNCHANGED <<queues, storage, done, lock, wanted>>

Batch(s) == Min({tx[s].found.limit, done[tx[s].queue] - tx[s].deleted[tx[s].queue]})

\* create_queue_tables() or verify_queue_storage(), DROP TABLE, or the DELETE of
\* cleanup_tasks(), which fails if its tables are not there.
UseTables(s) ==
    LET q == tx[s].queue
    IN  /\ tx[s].pc = "tables"
        /\ \/ /\ tx[s].kind = "create"
              /\ \/ /\ tx[s].found.exists # storage[q]
                    /\ Raise(s)
                 \/ /\ tx[s].found.exists = storage[q]
                    /\ Goto(s, IF tx[s].options = NoOptions THEN "commit" ELSE "policy")
                    /\ UNCHANGED <<queues, storage, done, lock, wanted>>
           \/ /\ tx[s].kind = "delete"
              /\ Goto(s, "commit")
              /\ UNCHANGED <<queues, storage, done, lock, wanted>>
           \/ /\ tx[s].kind \in {"cleanup", "cleanup_all"}
              /\ ~storage[q]
              /\ Raise(s)
           \/ /\ tx[s].kind \in {"cleanup", "cleanup_all"}
              /\ storage[q]
              /\ tx' = [tx EXCEPT ![s].deleted[q] = @ + Batch(s),
                                  ![s].queue = IF tx[s].left = {} THEN @ ELSE FirstByName(tx[s].left),
                                  ![s].left = IF @ = {} THEN @ ELSE @ \ {FirstByName(@)},
                                  ![s].pc = IF tx[s].left = {} THEN "commit" ELSE "lock"]
              /\ UNCHANGED <<queues, storage, done, lock, wanted>>

\* Mutant: a value that is not requested falls back to the default.
ChooseFromDefaults(s) ==
    /\ tx[s].pc = "policy"
    /\ tx' = [tx EXCEPT ![s].found = Overridden(DefaultPolicy, tx[s].options), ![s].pc = "commit"]
    /\ UNCHANGED <<queues, storage, done, lock, wanted>>

\* set_queue_policy(): a value that is not requested keeps what was read.  The
\* function tests the values again; Accepted has refused what it would refuse.
ChoosePolicy(s) ==
    LET row == IF tx[s].found.exists THEN tx[s].found ELSE DefaultPolicy
    IN  /\ tx[s].pc = "policy"
        /\ tx' = [tx EXCEPT ![s].found = Overridden(row, tx[s].options), ![s].pc = "commit"]
        /\ UNCHANGED <<queues, storage, done, lock, wanted>>

-----------------------------------------------------------------------------
(* Commits.                                                                *)

CommitCreate(s) ==
    LET q == tx[s].queue
        row == IF tx[s].found.exists THEN tx[s].found ELSE DefaultPolicy
        before == IF queues[q].exists THEN wanted[q] ELSE DefaultPolicy
    IN  /\ tx[s].pc = "commit" /\ tx[s].kind = "create"
        /\ CommitWith(s, q, row, TRUE, done[q])
        /\ wanted' = [wanted EXCEPT ![q] = Overridden(before, tx[s].options)]

CommitDelete(s) ==
    /\ tx[s].pc = "commit" /\ tx[s].kind = "delete"
    /\ CommitWith(s, tx[s].queue, NoQueue, FALSE, 0)
    /\ wanted' = [wanted EXCEPT ![tx[s].queue] = NoQueue]

CommitPolicy(s) ==
    LET q == tx[s].queue
        update(row, new) == IF row.exists THEN new ELSE row
    IN  /\ tx[s].pc = "commit" /\ tx[s].kind = "set_policy"
        /\ CommitWith(s, q, update(queues[q], tx[s].found), storage[q], done[q])
        /\ wanted' = [wanted EXCEPT ![q] = update(@, Overridden(@, tx[s].options))]

CommitCleanup(s) ==
    /\ tx[s].pc = "commit" /\ tx[s].kind \in {"cleanup", "cleanup_all"}
    /\ done' = [q \in Queues |-> done[q] - tx[s].deleted[q]]
    /\ tx' = [tx EXCEPT ![s] = Resting]
    /\ lock' = Released(s)
    /\ UNCHANGED <<queues, storage, wanted>>

\* The session dies; PostgreSQL rolls back.
Lost(s) == tx[s] # Resting /\ Raise(s)

Work(s) ==
    \/ ReadRow(s) \/ UseTables(s) \/ ChoosePolicy(s)
    \/ CommitCreate(s) \/ CommitDelete(s) \/ CommitPolicy(s) \/ CommitCleanup(s)

Call(s) ==
    \/ \E q \in Queues, options \in Options : Create(s, q, options) \/ SetPolicy(s, q, options)
    \/ \E q \in Queues : Delete(s, q) \/ Cleanup(s, q)
    \/ CleanupAll(s)

\* Tasks of the queue end and grow older than its ttl.
TaskExpires(q) ==
    /\ storage[q]
    /\ done[q] < MaxDone
    /\ done' = [done EXCEPT ![q] = @ + 1]
    /\ UNCHANGED <<queues, storage, lock, tx, wanted>>

RegistryNext ==
    \/ \E s \in Sessions : Call(s) \/ TakeLock(s) \/ Work(s) \/ Lost(s)
    \/ \E q \in Queues : TaskExpires(q)

\* PostgreSQL grants a lock in the order of the requests and executes the
\* statements it is sent.
Fairness ==
    \A s \in Sessions : SF_registryVars(TakeLock(s)) /\ WF_registryVars(Work(s))

RegistrySpec == RegistryInit /\ [][RegistryNext]_registryVars /\ Fairness

-----------------------------------------------------------------------------
(* Properties.                                                             *)

\* Rows, locks and transactions have their shapes, and every stored policy is
\* one that queue_policy_from_row() accepts.
RegistryTypeOK ==
    /\ queues \in [Queues -> Policy \cup {NoQueue}]
    /\ storage \in [Queues -> BOOLEAN]
    /\ done \in [Queues -> 0 .. MaxDone]
    /\ lock \in [{ LockOf[q] : q \in Queues } -> Sessions \cup {Nobody}]
    /\ tx \in [Sessions -> Transaction \cup {Resting}]

\* Metadata and tables are one unit: no operation, however it meets the others,
\* finds a registered queue without its tables or tables without their row
\* (the raises of verify_queue_storage() and of a missing relation).
MetadataMeetsStorage ==
    /\ RegistryTypeOK
    /\ \A q \in Queues : queues[q].exists <=> storage[q]
    /\ \A s \in Sessions :
         tx[s].pc = "tables" => (tx[s].found.exists <=> storage[tx[s].queue])

\* A policy value stays as the last acknowledged call that asked for it left it:
\* concurrent calls that set one value each do not undo each other.
NoLostPolicy == queues = wanted

\* Every call is answered: the cleanup of all queues and the operations on
\* single queues never wait for each other's locks in a circle.
EveryCallEnds == \A s \in Sessions : tx[s] # Resting ~> tx[s] = Resting
=============================================================================
