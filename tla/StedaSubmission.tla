--------------------------- MODULE StedaSubmission --------------------------
(***************************************************************************)
(* spawn_task() with an idempotency key, statement by statement, while     *)
(* other clients submit the same key, operators retry and cleanup deletes. *)
(*                                                                         *)
(* The function is one transaction but, at READ COMMITTED, each of its     *)
(* statements sees its own snapshot: the INSERT ... ON CONFLICT DO NOTHING *)
(* that meets a task with the key, and the SELECT that then reads it, are  *)
(* two steps.  StedaQueue models the life of the task that is created.     *)
(***************************************************************************)
EXTENDS Integers

CONSTANTS
    Clients,         \* sessions that submit
    Keys,            \* idempotency keys
    Params,          \* task name and parameters of a request
    DefaultAttempts, \* attempt budget of a request that names none
    MaxAttempts,     \* bound: largest attempt budget, manual retries included
    MaxIds           \* bound: number of task ids drawn

ASSUME SubmissionAssumption ==
    /\ MaxAttempts \in Nat
    /\ DefaultAttempts \in 1 .. MaxAttempts
    /\ MaxIds \in Nat

\* What a client sends.  Headers may be left out or be an empty object, and
\* the attempt budget may be left out (0).
RawRequest ==
    [params : Params, headers : {"omitted", "empty", "given"}, max_attempts : 0 .. DefaultAttempts]

\* What spawn_task() stores and compares.
Request ==
    [params : Params, headers : {"null", "given"}, max_attempts : 1 .. DefaultAttempts]

Normalized(raw) ==
    [params       |-> raw.params,
     headers      |-> IF raw.headers = "given" THEN "given" ELSE "null",
     max_attempts |-> IF raw.max_attempts = 0 THEN DefaultAttempts ELSE raw.max_attempts]

VARIABLES
    rows,      \* [Keys -> row or NoRow]: the unique index on idempotency_key
    calls,     \* [Clients -> call]
    ids,       \* task ids drawn so far
    submitted  \* [Keys -> SUBSET Request]: requests that ever created a task

vars == <<rows, calls, ids, submitted>>

NoRow == [id |-> 0]
NoCall == [pc |-> "idle", reply |-> "none"]

\* `initial` is the request as submitted, `max_attempts` the effective budget;
\* `committed` is false while the inserting transaction is open, and
\* `terminal` once the task may be cleaned up.
Row == [id : 1 .. MaxIds, initial : Request, max_attempts : 1 .. MaxAttempts,
        committed : BOOLEAN, terminal : BOOLEAN]

SpawnCall == [pc : {"inserting", "inserted", "selecting"}, key : Keys, request : Request]

\* `id` is the task that was inserted or that the SELECT read, 0 if it was gone.
Reply == [pc : {"idle"}, reply : {"created", "existing", "conflict"},
          key : Keys, request : Request, id : 0 .. MaxIds]

Init ==
    /\ rows = [k \in Keys |-> NoRow]
    /\ calls = [c \in Clients |-> NoCall]
    /\ ids = 0
    /\ submitted = [k \in Keys |-> {}]

Answer(c, reply, id) ==
    calls' = [calls EXCEPT ![c] = [pc |-> "idle", reply |-> reply, key |-> @.key,
                                   request |-> @.request, id |-> id]]

\* The call arrives and its options are validated and normalised.
Spawn(c, k, raw) ==
    /\ calls[c].pc = "idle"
    /\ calls' = [calls EXCEPT ![c] = [pc |-> "inserting", key |-> k, request |-> Normalized(raw)]]
    /\ UNCHANGED <<rows, ids, submitted>>

\* INSERT: no task has the key.
Insert(c) ==
    LET k == calls[c].key
    IN  /\ calls[c].pc = "inserting"
        /\ rows[k] = NoRow
        /\ ids < MaxIds
        /\ ids' = ids + 1
        /\ rows' = [rows EXCEPT ![k] = [id |-> ids + 1, initial |-> calls[c].request,
                                        max_attempts |-> calls[c].request.max_attempts,
                                        committed |-> FALSE, terminal |-> FALSE]]
        /\ calls' = [calls EXCEPT ![c].pc = "inserted"]
        /\ UNCHANGED submitted

\* INSERT: a committed task has the key, nothing is inserted.  An open insert
\* of the key makes the statement wait for its end.
InsertConflicts(c) ==
    /\ calls[c].pc = "inserting"
    /\ rows[calls[c].key] # NoRow
    /\ rows[calls[c].key].committed
    /\ calls' = [calls EXCEPT ![c].pc = "selecting"]
    /\ UNCHANGED <<rows, ids, submitted>>

\* The first run is inserted and the transaction commits.
Commit(c) ==
    LET k == calls[c].key
    IN  /\ calls[c].pc = "inserted"
        /\ rows' = [rows EXCEPT ![k].committed = TRUE]
        /\ submitted' = [submitted EXCEPT ![k] = @ \cup {calls[c].request}]
        /\ Answer(c, "created", rows[k].id)
        /\ UNCHANGED ids

\* The session breaks before its commit: its insert is rolled back.
Abort(c) ==
    /\ calls[c].pc # "idle"
    /\ calls' = [calls EXCEPT ![c] = NoCall]
    /\ rows' = IF calls[c].pc = "inserted" THEN [rows EXCEPT ![calls[c].key] = NoRow] ELSE rows
    /\ UNCHANGED <<ids, submitted>>

\* Mutant: the comparison uses the effective budget.
SameEffectiveRequest(row, request) ==
    row # NoRow /\ [row.initial EXCEPT !.max_attempts = row.max_attempts] = request

\* Mutant: only the key is compared.
SameKey(row, request) == row # NoRow

\* The comparison after the SELECT; a task that is no longer there reads as
\* NULLs, which are distinct from every request.
SameRequest(row, request) == row # NoRow /\ row.initial = request

\* A statement does not see the insert of an open transaction.
Visible(k) == IF rows[k] # NoRow /\ rows[k].committed THEN rows[k] ELSE NoRow

Select(c) ==
    LET row == Visible(calls[c].key)
    IN  /\ calls[c].pc = "selecting"
        /\ IF SameRequest(row, calls[c].request)
           THEN Answer(c, "existing", row.id)
           ELSE Answer(c, "conflict", row.id)
        /\ UNCHANGED <<rows, ids, submitted>>

\* The task reaches a terminal state, or a manual retry reopens it and extends
\* its effective budget if the task had used it up.
Finish(k) ==
    /\ rows[k] # NoRow /\ rows[k].committed /\ ~rows[k].terminal
    /\ rows' = [rows EXCEPT ![k].terminal = TRUE]
    /\ UNCHANGED <<calls, ids, submitted>>

ManualRetry(k) ==
    /\ rows[k] # NoRow /\ rows[k].committed /\ rows[k].terminal
    /\ \E budget \in {rows[k].max_attempts, rows[k].max_attempts + 1} :
         /\ budget <= MaxAttempts
         /\ rows' = [rows EXCEPT ![k].terminal = FALSE, ![k].max_attempts = budget]
    /\ UNCHANGED <<calls, ids, submitted>>

\* cleanup_tasks() deletes the terminal task and frees its key.
CleanupRow(k) ==
    /\ rows[k] # NoRow /\ rows[k].committed /\ rows[k].terminal
    /\ rows' = [rows EXCEPT ![k] = NoRow]
    /\ UNCHANGED <<calls, ids, submitted>>

Next ==
    \/ \E c \in Clients :
         \/ \E k \in Keys, raw \in RawRequest : Spawn(c, k, raw)
         \/ Insert(c) \/ InsertConflicts(c) \/ Commit(c) \/ Abort(c) \/ Select(c)
    \/ \E k \in Keys : Finish(k) \/ ManualRetry(k) \/ CleanupRow(k)

Spec == Init /\ [][Next]_vars

-----------------------------------------------------------------------------
(* Properties.                                                             *)

\* Stored and compared requests are normalised, budgets stay within the column's
\* checks, and every call is at a statement of spawn_task() or has its answer.
SubmissionTypeOK ==
    /\ rows \in [Keys -> Row \cup {NoRow}]
    /\ calls \in [Clients -> SpawnCall \cup Reply \cup {NoCall}]
    /\ ids \in 0 .. MaxIds
    /\ submitted \in [Keys -> SUBSET Request]

\* IdempotencyConflict about a task that is there is raised only when the key was
\* used for a different request, however the task was retried since: "Replaying
\* the same key with the same task name, params, headers, retry policy, original
\* attempt budget, and cancellation policy returns the existing task"
\* (spawn_task).  A replay whose task cleanup deletes between the two statements
\* reads id 0 and is answered with a conflict all the same.
ConflictIsReal ==
    \A c \in Clients :
        calls[c].pc = "idle" /\ calls[c].reply = "conflict" /\ calls[c].id # 0 =>
            \E request \in submitted[calls[c].key] : request # calls[c].request

\* Two callers that were answered with one task id sent the same request, and
\* at most one of them was told that it created the task.
OneCreator ==
    /\ SubmissionTypeOK
    /\ \A c, d \in Clients :
         /\ c # d
         /\ calls[c].pc = "idle" /\ calls[c].reply \in {"created", "existing"}
         /\ calls[d].pc = "idle" /\ calls[d].reply \in {"created", "existing"}
         /\ calls[c].id = calls[d].id
         => /\ calls[c].key = calls[d].key /\ calls[c].request = calls[d].request
            /\ ~(calls[c].reply = "created" /\ calls[d].reply = "created")
=============================================================================
