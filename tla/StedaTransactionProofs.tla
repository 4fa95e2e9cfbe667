----------------------- MODULE StedaTransactionProofs -----------------------
(***************************************************************************)
(* Theorems about the transactions that change a queue from outside its    *)
(* runs, statement by statement.                                           *)
(*                                                                         *)
(* StedaSubmission, for every number of clients, keys and task ids,        *)
(* whatever the interleaving of the statements of spawn_task() with        *)
(* aborts, manual retries and cleanup.  An answer outlives the row it was  *)
(* given for, so the invariant ties the answers to the rows that are still *)
(* there by their id: an id is drawn once, a row that is not committed was *)
(* answered to nobody, and a row that was answered carries the request of  *)
(* every caller it was answered to.                                        *)
(*                                                                         *)
(* StedaRegistry, for every set of queues, every hash of their names to    *)
(* lock keys, colliding or not, and every number of sessions.  No          *)
(* transaction reads a row and writes it in one statement, so nothing      *)
(* holds without the locks.  The invariant says what the holder of a lock  *)
(* may rely on: what it read of a queue is still true, and what it means   *)
(* to delete is still there.                                               *)
(***************************************************************************)
EXTENDS StedaSubmission, StedaRegistry, WellFoundedInduction, TLAPS

-----------------------------------------------------------------------------
(* StedaSubmission.                                                        *)

Answered(call) == call.pc = "idle" /\ call.reply \in {"created", "existing"}

\* An open insert owns the uncommitted row of its key.
OpenInserts ==
    \A c \in Clients : calls[c].pc = "inserted" =>
        /\ rows[calls[c].key] # NoRow
        /\ ~rows[calls[c].key].committed
        /\ rows[calls[c].key].initial = calls[c].request
        /\ \A d \in Clients : calls[d].pc = "inserted" /\ calls[d].key = calls[c].key => d = c

\* A row carries an id of its own, and once committed a submitted request.
KnownRows ==
    \A k \in Keys : rows[k] # NoRow =>
        /\ rows[k].id <= ids
        /\ rows[k].committed => rows[k].initial \in submitted[k]
        /\ \A l \in Keys : rows[l] # NoRow /\ rows[l].id = rows[k].id => l = k

\* A row that was answered is committed and carries the caller's request.
AnswersMatch ==
    \A c \in Clients : Answered(calls[c]) =>
        /\ calls[c].id \in 1 .. ids
        /\ \A k \in Keys : rows[k] # NoRow /\ rows[k].id = calls[c].id =>
             k = calls[c].key /\ rows[k].initial = calls[c].request /\ rows[k].committed

SubmissionInv ==
    OneCreator /\ ConflictIsReal /\ OpenInserts /\ KnownRows /\ AnswersMatch

-----------------------------------------------------------------------------
(* Types.                                                                  *)

\* A call at a statement of spawn_task() has a key and a request.
LEMMA CallTyped ==
    ASSUME SubmissionTypeOK, NEW c \in Clients
    PROVE  /\ calls[c].pc # "idle" => calls[c] \in SpawnCall
           /\ Answered(calls[c]) => calls[c] \in Reply
           /\ calls[c].pc = "idle" /\ calls[c].reply = "conflict" => calls[c] \in Reply
BY DEF SubmissionTypeOK, SpawnCall, Reply, NoCall, Answered

\* A row that is there is a record of Row.
LEMMA RowTyped ==
    ASSUME SubmissionTypeOK, NEW k \in Keys, rows[k] # NoRow
    PROVE  rows[k] \in Row
BY DEF SubmissionTypeOK

\* A record of Row is a row.
LEMMA RowIsThere ==
    ASSUME NEW row \in Row
    PROVE  row # NoRow
BY DEF Row, NoRow

\* Normalisation leaves a request of the stored form.
LEMMA NormalizedTyped ==
    ASSUME NEW raw \in RawRequest
    PROVE  Normalized(raw) \in Request
BY SubmissionAssumption DEF RawRequest, Request, Normalized

-----------------------------------------------------------------------------
(* One lemma per action.                                                   *)

\* A call that begins forgets its last answer.
LEMMA SpawnKeeps ==
    ASSUME SubmissionInv, NEW c \in Clients, NEW k \in Keys, NEW raw \in RawRequest,
           Spawn(c, k, raw)
    PROVE  SubmissionInv'
<1>. DEFINE call == [pc |-> "inserting", key |-> k, request |-> Normalized(raw)]
<1>1. SubmissionTypeOK
  BY DEF SubmissionInv, OneCreator
<1>2. /\ call \in SpawnCall /\ call.pc = "inserting"
  BY NormalizedTyped DEF SpawnCall
<1>3. /\ calls'[c] = call /\ \A d \in Clients \ {c} : calls'[d] = calls[d]
      /\ rows' = rows /\ ids' = ids /\ submitted' = submitted
      /\ calls' \in [Clients -> SpawnCall \cup Reply \cup {NoCall}]
  BY <1>1, <1>2 DEF Spawn, SubmissionTypeOK
<1>. HIDE DEF call
<1>4. SubmissionTypeOK'
  BY <1>1, <1>3 DEF SubmissionTypeOK
<1>5. OneCreator' /\ ConflictIsReal'
  BY <1>2, <1>3, <1>4 DEF SubmissionInv, OneCreator, ConflictIsReal
<1>6. OpenInserts' /\ KnownRows' /\ AnswersMatch'
  BY <1>2, <1>3 DEF SubmissionInv, OpenInserts, KnownRows, AnswersMatch, Answered
<1>. QED BY <1>5, <1>6 DEF SubmissionInv

\* A new row takes an id nobody was answered with.
LEMMA InsertKeeps ==
    ASSUME SubmissionInv, NEW c \in Clients, Insert(c)
    PROVE  SubmissionInv'
<1>. DEFINE k == calls[c].key
            row == [id |-> ids + 1, initial |-> calls[c].request,
                    max_attempts |-> calls[c].request.max_attempts,
                    committed |-> FALSE, terminal |-> FALSE]
            call == [calls[c] EXCEPT !.pc = "inserted"]
<1>1. SubmissionTypeOK /\ ids \in Nat
  BY SubmissionAssumption DEF SubmissionInv, OneCreator, SubmissionTypeOK
<1>2. calls[c] \in SpawnCall /\ k \in Keys /\ rows[k] = NoRow
  BY <1>1, CallTyped DEF Insert, SpawnCall
<1>3. call \in SpawnCall /\ call.pc = "inserted" /\ call.key = k /\ call.request = calls[c].request
  BY <1>2 DEF SpawnCall
<1>4. row \in Row /\ row.id = ids + 1 /\ ~row.committed /\ row.initial = calls[c].request
  BY <1>1, <1>2, SubmissionAssumption DEF Row, Insert, SpawnCall, Request
<1>5. /\ calls'[c] = call /\ \A d \in Clients \ {c} : calls'[d] = calls[d]
      /\ rows'[k] = row /\ \A l \in Keys \ {k} : rows'[l] = rows[l]
      /\ ids' = ids + 1 /\ ids' \in 0 .. MaxIds /\ submitted' = submitted
      /\ calls' \in [Clients -> SpawnCall \cup Reply \cup {NoCall}]
      /\ rows' \in [Keys -> Row \cup {NoRow}]
  BY <1>1, <1>2, <1>3, <1>4, SubmissionAssumption DEF Insert, SubmissionTypeOK
<1>6. row # NoRow
  BY <1>4, RowIsThere
<1>. HIDE DEF row, call, k
<1>7. SubmissionTypeOK'
  BY <1>1, <1>5 DEF SubmissionTypeOK
<1>8. OneCreator' /\ ConflictIsReal'
  BY <1>3, <1>5, <1>7 DEF SubmissionInv, OneCreator, ConflictIsReal
<1>9. OpenInserts'
  BY <1>2, <1>3, <1>4, <1>5, <1>6, CallTyped, <1>1 DEF SubmissionInv, OpenInserts, k, SpawnCall
<1>10. \A l \in Keys : rows[l] # NoRow => rows[l].id \in Nat /\ rows[l].id <= ids
  BY <1>1, RowTyped DEF SubmissionInv, KnownRows, Row
<1>11. KnownRows'
  BY <1>1, <1>4, <1>5, <1>6, <1>10 DEF SubmissionInv, KnownRows
<1>12. AnswersMatch'
  <2>. SUFFICES ASSUME NEW d \in Clients, Answered(calls'[d])
                PROVE  /\ calls'[d].id \in 1 .. ids'
                       /\ \A l \in Keys : rows'[l] # NoRow /\ rows'[l].id = calls'[d].id =>
                            l = calls'[d].key /\ rows'[l].initial = calls'[d].request
                              /\ rows'[l].committed
    BY DEF AnswersMatch
  <2>1. d # c /\ calls'[d] = calls[d]
    BY <1>3, <1>5 DEF Answered
  <2>2. /\ calls[d].id \in 1 .. ids
        /\ \A l \in Keys : rows[l] # NoRow /\ rows[l].id = calls[d].id =>
             l = calls[d].key /\ rows[l].initial = calls[d].request /\ rows[l].committed
    BY <2>1 DEF SubmissionInv, AnswersMatch
  <2>. QED BY <2>1, <2>2, <1>1, <1>4, <1>5
<1>. QED BY <1>8, <1>9, <1>11, <1>12 DEF SubmissionInv

\* A call that only moves on, to the SELECT or to its failure, changes no row.
LEMMA InsertConflictsKeeps ==
    ASSUME SubmissionInv, NEW c \in Clients, InsertConflicts(c)
    PROVE  SubmissionInv'
<1>. DEFINE call == [calls[c] EXCEPT !.pc = "selecting"]
<1>1. SubmissionTypeOK
  BY DEF SubmissionInv, OneCreator
<1>2. calls[c] \in SpawnCall
  BY <1>1, CallTyped DEF InsertConflicts
<1>3. call \in SpawnCall /\ call.pc = "selecting"
  BY <1>2 DEF SpawnCall
<1>4. /\ calls'[c] = call /\ \A d \in Clients \ {c} : calls'[d] = calls[d]
      /\ rows' = rows /\ ids' = ids /\ submitted' = submitted
      /\ calls' \in [Clients -> SpawnCall \cup Reply \cup {NoCall}]
  BY <1>1, <1>3 DEF InsertConflicts, SubmissionTypeOK
<1>. HIDE DEF call
<1>5. SubmissionTypeOK'
  BY <1>1, <1>4 DEF SubmissionTypeOK
<1>6. OneCreator' /\ ConflictIsReal'
  BY <1>3, <1>4, <1>5 DEF SubmissionInv, OneCreator, ConflictIsReal
<1>7. OpenInserts' /\ KnownRows' /\ AnswersMatch'
  BY <1>3, <1>4 DEF SubmissionInv, OpenInserts, KnownRows, AnswersMatch, Answered
<1>. QED BY <1>6, <1>7 DEF SubmissionInv

\* The creator is answered with a row that was answered to nobody before.
LEMMA CommitKeeps ==
    ASSUME SubmissionInv, NEW c \in Clients, Commit(c)
    PROVE  SubmissionInv'
<1>. DEFINE k == calls[c].key
            row == [rows[k] EXCEPT !.committed = TRUE]
            call == [pc |-> "idle", reply |-> "created", key |-> k,
                     request |-> calls[c].request, id |-> rows[k].id]
<1>1. SubmissionTypeOK /\ ids \in Nat
  BY SubmissionAssumption DEF SubmissionInv, OneCreator, SubmissionTypeOK
<1>2. calls[c] \in SpawnCall /\ k \in Keys
  BY <1>1, CallTyped DEF Commit, SpawnCall
<1>3. /\ rows[k] # NoRow /\ ~rows[k].committed /\ rows[k].initial = calls[c].request
      /\ \A d \in Clients : calls[d].pc = "inserted" /\ calls[d].key = k => d = c
  BY DEF SubmissionInv, OpenInserts, Commit
<1>4. rows[k] \in Row /\ rows[k].id <= ids
  BY <1>1, <1>2, <1>3, RowTyped DEF SubmissionInv, KnownRows
<1>5. /\ row \in Row /\ row.id = rows[k].id /\ row.committed
      /\ row.initial = calls[c].request
  BY <1>3, <1>4 DEF Row
<1>6. /\ call \in Reply /\ call.pc = "idle" /\ call.reply = "created" /\ call.key = k
      /\ call.request = calls[c].request /\ call.id = rows[k].id /\ call.id \in 1 .. ids
  BY <1>1, <1>2, <1>4 DEF Reply, SpawnCall, Row
<1>7. /\ calls'[c] = call /\ \A d \in Clients \ {c} : calls'[d] = calls[d]
      /\ rows'[k] = row /\ \A l \in Keys \ {k} : rows'[l] = rows[l]
      /\ ids' = ids
      /\ submitted'[k] = submitted[k] \cup {calls[c].request}
      /\ \A l \in Keys \ {k} : submitted'[l] = submitted[l]
      /\ calls' \in [Clients -> SpawnCall \cup Reply \cup {NoCall}]
      /\ rows' \in [Keys -> Row \cup {NoRow}]
      /\ submitted' \in [Keys -> SUBSET Request]
  <2>1. calls' = [calls EXCEPT ![c] = call]
    BY DEF Commit, Answer
  <2>2. rows' = [rows EXCEPT ![k] = row]
    BY DEF Commit
  <2>3. submitted' = [submitted EXCEPT ![k] = @ \cup {calls[c].request}] /\ ids' = ids
    BY DEF Commit
  <2>. HIDE DEF call, row, k
  <2>4. calls[c].request \in Request
    BY <1>2 DEF SpawnCall
  <2>. QED BY <2>1, <2>2, <2>3, <2>4, <1>1, <1>2, <1>5, <1>6 DEF SubmissionTypeOK
<1>8. row # NoRow
  BY <1>5, RowIsThere
<1>9. \A d \in Clients : Answered(calls[d]) => calls[d].id # rows[k].id
  BY <1>2, <1>3 DEF SubmissionInv, AnswersMatch
<1>. HIDE DEF row, call, k
<1>10. SubmissionTypeOK'
  BY <1>1, <1>7 DEF SubmissionTypeOK
<1>11. OneCreator'
  BY <1>6, <1>7, <1>9, <1>10 DEF SubmissionInv, OneCreator, Answered
<1>12. ConflictIsReal'
  <2>1. \A d \in Clients : calls[d].pc = "idle" /\ calls[d].reply = "conflict" => calls[d].key \in Keys
    BY <1>1, CallTyped DEF Reply
  <2>. QED BY <2>1, <1>2, <1>6, <1>7 DEF SubmissionInv, ConflictIsReal
<1>13. OpenInserts'
  <2>1. \A d \in Clients : calls[d].pc = "inserted" => calls[d].key \in Keys
    BY <1>1, CallTyped DEF SpawnCall
  <2>. QED BY <2>1, <1>3, <1>6, <1>7 DEF SubmissionInv, OpenInserts
<1>14. KnownRows'
  BY <1>2, <1>3, <1>5, <1>7, <1>8 DEF SubmissionInv, KnownRows
<1>15. AnswersMatch'
  <2>. SUFFICES ASSUME NEW d \in Clients, Answered(calls'[d])
                PROVE  /\ calls'[d].id \in 1 .. ids'
                       /\ \A l \in Keys : rows'[l] # NoRow /\ rows'[l].id = calls'[d].id =>
                            l = calls'[d].key /\ rows'[l].initial = calls'[d].request
                              /\ rows'[l].committed
    BY DEF AnswersMatch
  <2>1. CASE d = c
    BY <2>1, <1>2, <1>3, <1>5, <1>6, <1>7 DEF SubmissionInv, KnownRows
  <2>2. CASE d # c
    <3>1. /\ calls'[d] = calls[d] /\ calls[d].id \in 1 .. ids /\ calls[d].id # rows[k].id
          /\ \A l \in Keys : rows[l] # NoRow /\ rows[l].id = calls[d].id =>
               l = calls[d].key /\ rows[l].initial = calls[d].request /\ rows[l].committed
      BY <2>2, <1>7, <1>9 DEF SubmissionInv, AnswersMatch
    <3>. QED BY <3>1, <1>5, <1>7
  <2>. QED BY <2>1, <2>2
<1>. QED BY <1>11, <1>12, <1>13, <1>14, <1>15 DEF SubmissionInv

\* The SELECT answers with a committed row or with none.
LEMMA SelectKeeps ==
    ASSUME SubmissionInv, NEW c \in Clients, Select(c)
    PROVE  SubmissionInv'
<1>. DEFINE k == calls[c].key
            row == Visible(k)
            reply == IF SameRequest(row, calls[c].request) THEN "existing" ELSE "conflict"
            call == [pc |-> "idle", reply |-> reply, key |-> k,
                     request |-> calls[c].request, id |-> row.id]
<1>1. SubmissionTypeOK /\ ids \in Nat
  BY SubmissionAssumption DEF SubmissionInv, OneCreator, SubmissionTypeOK
<1>2. calls[c] \in SpawnCall /\ k \in Keys
  BY <1>1, CallTyped DEF Select, SpawnCall
<1>3. \/ row = NoRow /\ row.id = 0
      \/ /\ row = rows[k] /\ rows[k] # NoRow /\ rows[k].committed /\ row \in Row
         /\ row.id \in 1 .. ids /\ row.initial \in submitted[k]
  BY <1>1, <1>2, RowTyped DEF Visible, NoRow, SubmissionInv, KnownRows, Row
<1>4. row.id \in 0 .. MaxIds
  BY <1>1, <1>3, SubmissionAssumption DEF SubmissionTypeOK
<1>5. reply \in {"existing", "conflict"} /\ (reply = "existing" <=> SameRequest(row, calls[c].request))
  OBVIOUS
<1>. HIDE DEF row, reply
<1>6. /\ call \in Reply /\ call.pc = "idle" /\ call.reply = reply /\ call.key = k
      /\ call.request = calls[c].request /\ call.id = row.id
  BY <1>2, <1>4, <1>5 DEF Reply, SpawnCall
<1>7. /\ calls'[c] = call /\ \A d \in Clients \ {c} : calls'[d] = calls[d]
      /\ rows' = rows /\ ids' = ids /\ submitted' = submitted
      /\ calls' \in [Clients -> SpawnCall \cup Reply \cup {NoCall}]
  <2>1. calls' = [calls EXCEPT ![c] = call]
    BY DEF Select, Answer, row, reply
  <2>. HIDE DEF call
  <2>. QED BY <2>1, <1>1, <1>6 DEF SubmissionTypeOK, Select
<1>. HIDE DEF call, k
<1>8. SubmissionTypeOK'
  BY <1>1, <1>7 DEF SubmissionTypeOK
<1>9. Answered(call) =>
        /\ call.reply = "existing" /\ row = rows[k] /\ rows[k] # NoRow /\ rows[k].committed
        /\ rows[k].initial = calls[c].request /\ call.id = rows[k].id /\ call.id \in 1 .. ids
  BY <1>3, <1>5, <1>6 DEF Answered, SameRequest
<1>10. OneCreator'
  <2>1. \A d \in Clients : Answered(calls[d]) /\ Answered(call) /\ calls[d].id = call.id =>
          calls[d].key = call.key /\ calls[d].request = call.request
    BY <1>2, <1>6, <1>9 DEF SubmissionInv, AnswersMatch
  <2>2. Answered(call) => call.reply # "created"
    BY <1>9
  <2>. QED BY <2>1, <2>2, <1>6, <1>7, <1>8 DEF SubmissionInv, OneCreator, Answered
<1>11. ConflictIsReal'
  <2>1. call.reply = "conflict" /\ call.id # 0 =>
          \E request \in submitted[call.key] : request # call.request
    BY <1>3, <1>5, <1>6 DEF SameRequest
  <2>. QED BY <2>1, <1>7 DEF SubmissionInv, ConflictIsReal
<1>12. OpenInserts' /\ KnownRows'
  BY <1>6, <1>7 DEF SubmissionInv, OpenInserts, KnownRows
<1>13. AnswersMatch'
  <2>. SUFFICES ASSUME NEW d \in Clients, Answered(calls'[d])
                PROVE  /\ calls'[d].id \in 1 .. ids
                       /\ \A l \in Keys : rows[l] # NoRow /\ rows[l].id = calls'[d].id =>
                            l = calls'[d].key /\ rows[l].initial = calls'[d].request
                              /\ rows[l].committed
    BY <1>7 DEF AnswersMatch
  <2>1. CASE d = c
    <3>1. Answered(call) /\ calls'[d] = call
      BY <2>1, <1>7
    <3>. QED BY <3>1, <1>2, <1>6, <1>9 DEF SubmissionInv, KnownRows
  <2>2. CASE d # c
    BY <2>2, <1>7 DEF SubmissionInv, AnswersMatch
  <2>. QED BY <2>1, <2>2
<1>. QED BY <1>10, <1>11, <1>12, <1>13 DEF SubmissionInv

\* A rollback removes only the row nobody was answered with.
LEMMA AbortKeeps ==
    ASSUME SubmissionInv, NEW c \in Clients, Abort(c)
    PROVE  SubmissionInv'
<1>. DEFINE k == calls[c].key
<1>1. SubmissionTypeOK
  BY DEF SubmissionInv, OneCreator
<1>2. calls[c] \in SpawnCall /\ k \in Keys
  BY <1>1, CallTyped DEF Abort, SpawnCall
<1>3. /\ calls'[c] = NoCall /\ \A d \in Clients \ {c} : calls'[d] = calls[d]
      /\ calls' \in [Clients -> SpawnCall \cup Reply \cup {NoCall}]
      /\ ids' = ids /\ submitted' = submitted
  BY <1>1 DEF Abort, SubmissionTypeOK
<1>4. /\ \A l \in Keys : rows'[l] \in {rows[l], NoRow}
      /\ \A l \in Keys : rows'[l] # rows[l] => l = k /\ calls[c].pc = "inserted"
      /\ rows' \in [Keys -> Row \cup {NoRow}]
  BY <1>1, <1>2 DEF Abort, SubmissionTypeOK
<1>5. NoCall.pc = "idle" /\ NoCall.reply = "none"
  BY DEF NoCall
<1>. HIDE DEF k
<1>6. SubmissionTypeOK'
  BY <1>1, <1>3, <1>4 DEF SubmissionTypeOK
<1>7. OneCreator' /\ ConflictIsReal'
  BY <1>3, <1>5, <1>6 DEF SubmissionInv, OneCreator, ConflictIsReal
<1>8. OpenInserts'
  <2>. SUFFICES ASSUME NEW d \in Clients, calls'[d].pc = "inserted"
                PROVE  /\ rows'[calls'[d].key] # NoRow
                       /\ ~rows'[calls'[d].key].committed
                       /\ rows'[calls'[d].key].initial = calls'[d].request
                       /\ \A e \in Clients : calls'[e].pc = "inserted" /\ calls'[e].key = calls'[d].key
                            => e = d
    BY DEF OpenInserts
  <2>1. d # c /\ calls'[d] = calls[d] /\ calls[d].key \in Keys
    BY <1>1, <1>3, <1>5, CallTyped DEF SpawnCall
  <2>2. rows'[calls[d].key] = rows[calls[d].key]
    BY <2>1, <1>4 DEF SubmissionInv, OpenInserts, k
  <2>. QED BY <2>1, <2>2, <1>3, <1>5 DEF SubmissionInv, OpenInserts
<1>9. KnownRows'
  BY <1>3, <1>4 DEF SubmissionInv, KnownRows
<1>10. AnswersMatch'
  BY <1>3, <1>4, <1>5 DEF SubmissionInv, AnswersMatch, Answered
<1>. QED BY <1>7, <1>8, <1>9, <1>10 DEF SubmissionInv

\* A task that ends, is retried or is cleaned up keeps its id and request as
\* long as it is there.
LEMMA TaskChangeKeeps ==
    ASSUME SubmissionInv, NEW k \in Keys, Finish(k) \/ ManualRetry(k) \/ CleanupRow(k)
    PROVE  SubmissionInv'
<1>1. SubmissionTypeOK
  BY DEF SubmissionInv, OneCreator
<1>2. /\ rows[k] # NoRow /\ rows[k].committed /\ rows[k] \in Row
      /\ calls' = calls /\ ids' = ids /\ submitted' = submitted
  BY <1>1, RowTyped DEF Finish, ManualRetry, CleanupRow
<1>3. PICK row : /\ rows' = [rows EXCEPT ![k] = row]
                 /\ \/ row = NoRow
                    \/ /\ row \in Row /\ row.id = rows[k].id /\ row.initial = rows[k].initial
                       /\ row.committed
  <2>1. CASE Finish(k)
    <3>1. rows' = [rows EXCEPT ![k] = [rows[k] EXCEPT !.terminal = TRUE]]
      BY <2>1 DEF Finish
    <3>2. LET new == [rows[k] EXCEPT !.terminal = TRUE]
          IN  new \in Row /\ new.id = rows[k].id /\ new.initial = rows[k].initial /\ new.committed
      BY <1>2 DEF Row
    <3>. QED BY <3>1, <3>2
  <2>2. CASE ManualRetry(k)
    <3>1. PICK budget \in {rows[k].max_attempts, rows[k].max_attempts + 1} :
            /\ budget <= MaxAttempts
            /\ rows' = [rows EXCEPT ![k].terminal = FALSE, ![k].max_attempts = budget]
      BY <2>2 DEF ManualRetry
    <3>2. rows' = [rows EXCEPT ![k] = [rows[k] EXCEPT !.terminal = FALSE, !.max_attempts = budget]]
      BY <3>1, <1>1 DEF SubmissionTypeOK
    <3>3. budget \in 1 .. MaxAttempts
      BY <3>1, <1>2, SubmissionAssumption DEF Row
    <3>4. LET new == [rows[k] EXCEPT !.terminal = FALSE, !.max_attempts = budget]
          IN  new \in Row /\ new.id = rows[k].id /\ new.initial = rows[k].initial /\ new.committed
      BY <3>3, <1>2 DEF Row
    <3>. QED BY <3>2, <3>4
  <2>3. CASE CleanupRow(k)
    BY <2>3 DEF CleanupRow
  <2>. QED BY <2>1, <2>2, <2>3
<1>4. /\ rows'[k] = row /\ \A l \in Keys \ {k} : rows'[l] = rows[l]
      /\ rows' \in [Keys -> Row \cup {NoRow}]
  BY <1>1, <1>3 DEF SubmissionTypeOK
<1>5. SubmissionTypeOK'
  BY <1>1, <1>2, <1>4 DEF SubmissionTypeOK
<1>6. OneCreator' /\ ConflictIsReal'
  BY <1>2, <1>5 DEF SubmissionInv, OneCreator, ConflictIsReal
<1>7. OpenInserts'
  <2>1. \A d \in Clients : calls[d].pc = "inserted" => calls[d].key \in Keys \ {k}
    BY <1>1, <1>2, CallTyped DEF SpawnCall, SubmissionInv, OpenInserts
  <2>. QED BY <2>1, <1>2, <1>4 DEF SubmissionInv, OpenInserts
<1>8. KnownRows'
  BY <1>2, <1>3, <1>4 DEF SubmissionInv, KnownRows
<1>9. AnswersMatch'
  BY <1>2, <1>3, <1>4 DEF SubmissionInv, AnswersMatch
<1>. QED BY <1>6, <1>7, <1>8, <1>9 DEF SubmissionInv

\* The inductive invariant.
LEMMA SubmissionInductive == Spec => []SubmissionInv
<1>1. Init => SubmissionInv
  <2>. SUFFICES ASSUME Init PROVE SubmissionInv
    OBVIOUS
  <2>1. SubmissionTypeOK
    BY SubmissionAssumption DEF Init, SubmissionTypeOK
  <2>2. \A c \in Clients : calls[c].pc = "idle" /\ calls[c].reply = "none"
    BY DEF Init, NoCall
  <2>3. \A k \in Keys : rows[k] = NoRow
    BY DEF Init
  <2>. QED BY <2>1, <2>2, <2>3
           DEF SubmissionInv, OneCreator, ConflictIsReal, OpenInserts, KnownRows, AnswersMatch, Answered
<1>2. SubmissionInv /\ [Next]_vars => SubmissionInv'
  <2>. SUFFICES ASSUME SubmissionInv, [Next]_vars PROVE SubmissionInv'
    OBVIOUS
  <2>1. CASE UNCHANGED vars
    BY <2>1 DEF vars, SubmissionInv, SubmissionTypeOK, OneCreator, ConflictIsReal, OpenInserts,
                KnownRows, AnswersMatch, Answered
  <2>. QED
    BY <2>1, SpawnKeeps, InsertKeeps, InsertConflictsKeeps, CommitKeeps, AbortKeeps, SelectKeeps,
       TaskChangeKeeps DEF Next
<1>. QED BY <1>1, <1>2, PTL DEF Spec

\* An IdempotencyConflict about a task that is there always has its reason: some
\* call created a task under this key with a different request.
THEOREM ConflictIsRealHolds == Spec => []ConflictIsReal
<1>1. SubmissionInv => ConflictIsReal
  BY DEF SubmissionInv
<1>. QED BY <1>1, SubmissionInductive, PTL

\* However many clients race for a key, one task id stands for one key and one
\* request, and one caller at most is told that it created the task.
THEOREM OneCreatorHolds == Spec => []OneCreator
<1>1. SubmissionInv => OneCreator
  BY DEF SubmissionInv
<1>. QED BY <1>1, SubmissionInductive, PTL

-----------------------------------------------------------------------------
(* StedaRegistry.                                                          *)

\* The row a create writes before its options apply.
BaseRow(row) == IF row.exists THEN row ELSE DefaultPolicy

\* A transaction t of session s past its lock statement holds the lock of its
\* queue, and the lock of every queue it has deleted tasks of.
LocksHeld(t, s, locks) ==
    /\ t.pc # "lock" => locks[LockOf[t.queue]] = s
    /\ \A p \in Queues : t.deleted[p] > 0 => locks[LockOf[p]] = s

\* What it means to delete is there.
DeletesExist(t, tasks) == \A p \in Queues : t.deleted[p] <= tasks[p]

\* What it read, or chose from what it read, is still what it should write.
ReadsHold(t, row) ==
    /\ t.options.limit # 0
    /\ t.pc \in {"tables", "policy"} => t.found = row
    /\ t.pc = "tables" => t.kind # "set_policy"
    /\ t.pc = "policy" => t.kind \in {"create", "set_policy"}
    /\ t.pc \in {"tables", "policy"} /\ t.kind # "create" => t.found.exists
    /\ t.pc = "commit" /\ t.kind = "create" =>
         BaseRow(t.found) = Overridden(BaseRow(row), t.options)
    /\ t.pc = "commit" /\ t.kind = "set_policy" =>
         row.exists /\ t.found = Overridden(row, t.options)

RegistryInv ==
    /\ RegistryTypeOK
    /\ NoLostPolicy
    /\ \A q \in Queues : queues[q].exists <=> storage[q]
    /\ \A s \in Sessions : tx[s] # Resting =>
         /\ LocksHeld(tx[s], s, lock)
         /\ DeletesExist(tx[s], done)
         /\ ReadsHold(tx[s], queues[tx[s].queue])

-----------------------------------------------------------------------------
(* Operators.                                                              *)

\* A set of queue names has a first one.
LEMMA FirstByNameIsMember ==
    ASSUME NEW S \in SUBSET Queues, S # {}
    PROVE  FirstByName(S) \in S
<1>1. S \subseteq Nat
  BY RegistryAssumption
<1>. DEFINE R == OpToRel(<, Nat)
<1>2. IsWellFoundedOn(R, Nat)
  BY NatLessThanWellFounded
<1>3. \A x, y \in Nat : y < x => <<y, x>> \in R
  BY DEF OpToRel
<1>. HIDE DEF R
<1>4. PICK x \in S : \A y \in S : ~(<<y, x>> \in R)
  BY ONLY <1>1, <1>2, S # {}, WFMin, Zenon
<1>5. \A y \in S : x <= y
  <2>. TAKE y \in S
  <2>1. ~(y < x)
    BY <1>1, <1>3, <1>4
  <2>. QED BY <2>1, <1>1
<1>. QED BY <1>5 DEF FirstByName, Min

\* The smaller of two numbers.
LEMMA MinOfTwo ==
    ASSUME NEW m \in Nat, NEW n \in Nat
    PROVE  Min({m, n}) \in Nat /\ Min({m, n}) <= n /\ Min({m, n}) <= m
<1>1. \E x \in {m, n} : \A y \in {m, n} : x <= y
  <2>1. CASE m <= n
    BY <2>1
  <2>2. CASE n <= m
    BY <2>2
  <2>. QED BY <2>1, <2>2
<1>. QED BY <1>1 DEF Min

\* A row with accepted options applied is a policy.
LEMMA OverriddenTyped ==
    ASSUME NEW row \in Policy, NEW options \in Options, options.limit # 0
    PROVE  Overridden(row, options) \in Policy
<1>1. /\ options.ttl \in Nat \cup {Null} /\ options.limit \in (Nat \ {0}) \cup {Null}
  BY RegistryAssumption DEF Options, OrNull
<1>. QED BY <1>1 DEF Overridden, Policy

\* Without options nothing is overridden.
LEMMA NoOptionsKeep ==
    ASSUME NEW row \in Policy
    PROVE  Overridden(row, NoOptions) = row
BY DEF Overridden, NoOptions, Policy

\* A policy exists; the missing row does not.
LEMMA ExistsIsPolicy ==
    ASSUME NEW row \in Policy \cup {NoQueue}
    PROVE  row.exists \in BOOLEAN /\ (row.exists <=> row \in Policy) /\ (~row.exists <=> row = NoQueue)
<1>1. ASSUME row \in Policy PROVE row.exists = TRUE
  BY <1>1 DEF Policy
<1>2. NoQueue.exists = FALSE
  BY DEF NoQueue
<1>. QED BY <1>1, <1>2, Zenon

\* A create starts from a policy.
LEMMA BaseRowTyped ==
    ASSUME NEW row \in Policy \cup {NoQueue}
    PROVE  BaseRow(row) \in Policy
<1>1. DefaultPolicy \in Policy
  BY RegistryAssumption DEF DefaultPolicy, Policy
<1>. QED BY <1>1, ExistsIsPolicy DEF BaseRow

\* A transaction that is not at rest is a record of Transaction.
LEMMA TransactionTyped ==
    ASSUME RegistryTypeOK, NEW s \in Sessions
    PROVE  /\ tx[s] # Resting => tx[s] \in Transaction
           /\ tx[s].pc # "resting" => tx[s] \in Transaction /\ tx[s] # Resting
BY DEF RegistryTypeOK, Transaction, Resting

\* Releasing the locks of s keeps the others.
LEMMA ReleasedKeeps ==
    ASSUME RegistryTypeOK, NEW s \in Sessions
    PROVE  /\ Released(s) \in [{ LockOf[q] : q \in Queues } -> Sessions \cup {Nobody}]
           /\ \A q \in Queues, u \in Sessions \ {s} :
                lock[LockOf[q]] = u => Released(s)[LockOf[q]] = u
BY DEF RegistryTypeOK, Released

-----------------------------------------------------------------------------
(* The two kinds of step.                                                  *)

\* A step of one transaction that commits nothing.
LEMMA LocalStep ==
    ASSUME RegistryInv, NEW s \in Sessions, NEW t,
           tx' = [tx EXCEPT ![s] = t], UNCHANGED <<queues, storage, done, wanted>>,
           lock' \in [{ LockOf[q] : q \in Queues } -> Sessions \cup {Nobody}],
           \A q \in Queues, u \in Sessions \ {s} : lock[LockOf[q]] = u => lock'[LockOf[q]] = u,
           \/ t = Resting
           \/ /\ t \in Transaction
              /\ LocksHeld(t, s, lock') /\ DeletesExist(t, done) /\ ReadsHold(t, queues[t.queue])
    PROVE  RegistryInv'
<1>1. RegistryTypeOK
  BY DEF RegistryInv
<1>2. tx'[s] = t /\ \A u \in Sessions \ {s} : tx'[u] = tx[u]
  BY <1>1 DEF RegistryTypeOK
<1>3. RegistryTypeOK'
  BY <1>1 DEF RegistryTypeOK
<1>4. ASSUME NEW u \in Sessions, tx'[u] # Resting
      PROVE  /\ LocksHeld(tx'[u], u, lock') /\ DeletesExist(tx'[u], done')
             /\ ReadsHold(tx'[u], queues'[tx'[u].queue])
  <2>1. CASE u = s
    BY <2>1, <1>2, <1>4
  <2>2. CASE u # s
    <3>1. /\ tx'[u] = tx[u] /\ tx[u] \in Transaction /\ LocksHeld(tx[u], u, lock)
          /\ DeletesExist(tx[u], done) /\ ReadsHold(tx[u], queues[tx[u].queue])
      BY <2>2, <1>1, <1>2, <1>4, TransactionTyped DEF RegistryInv
    <3>2. LocksHeld(tx[u], u, lock')
      BY <2>2, <3>1 DEF LocksHeld, Transaction
    <3>. QED BY <3>1, <3>2
  <2>. QED BY <2>1, <2>2
<1>. QED BY <1>3, <1>4 DEF RegistryInv, NoLostPolicy

\* A commit writes only queues whose locks it holds.
LEMMA CommitStep ==
    ASSUME RegistryInv, NEW s \in Sessions, tx' = [tx EXCEPT ![s] = Resting],
           lock' = Released(s), RegistryTypeOK', NoLostPolicy',
           \A q \in Queues : (queues'[q].exists <=> storage'[q]),
           \A q \in Queues : queues'[q] # queues[q] \/ done'[q] # done[q] => lock[LockOf[q]] = s
    PROVE  RegistryInv'
<1>1. RegistryTypeOK
  BY DEF RegistryInv
<1>2. tx'[s] = Resting /\ \A u \in Sessions \ {s} : tx'[u] = tx[u]
  BY <1>1 DEF RegistryTypeOK
<1>3. ASSUME NEW u \in Sessions, tx'[u] # Resting
      PROVE  /\ LocksHeld(tx'[u], u, lock') /\ DeletesExist(tx'[u], done')
             /\ ReadsHold(tx'[u], queues'[tx'[u].queue])
  <2>1. u # s
    BY <1>2, <1>3
  <2>2. /\ tx'[u] = tx[u] /\ tx[u] \in Transaction /\ LocksHeld(tx[u], u, lock)
        /\ DeletesExist(tx[u], done) /\ ReadsHold(tx[u], queues[tx[u].queue])
    BY <2>1, <1>1, <1>2, <1>3, TransactionTyped DEF RegistryInv
  <2>3. tx[u].queue \in Queues /\ \A p \in Queues : tx[u].deleted[p] \in Nat /\ done'[p] \in Nat
    BY <2>2, RegistryAssumption DEF Transaction, RegistryTypeOK
  <2>4. LocksHeld(tx[u], u, lock')
    <3>1. \A q \in Queues : lock[LockOf[q]] = u => lock'[LockOf[q]] = u
      BY <2>1, <1>1, ReleasedKeeps
    <3>. QED BY <3>1, <2>2, <2>3 DEF LocksHeld
  <2>5. DeletesExist(tx[u], done')
    <3>. SUFFICES ASSUME NEW p \in Queues PROVE tx[u].deleted[p] <= done'[p]
      BY DEF DeletesExist
    <3>1. CASE tx[u].deleted[p] > 0
      BY <3>1, <2>1, <2>2 DEF LocksHeld, DeletesExist
    <3>2. CASE ~(tx[u].deleted[p] > 0)
      BY <3>2, <2>3
    <3>. QED BY <3>1, <3>2
  <2>6. ReadsHold(tx[u], queues'[tx[u].queue])
    <3>1. CASE tx[u].pc = "lock"
      BY <3>1, <2>2 DEF ReadsHold
    <3>2. CASE tx[u].pc # "lock"
      BY <3>2, <2>1, <2>2, <2>3 DEF LocksHeld
    <3>. QED BY <3>1, <3>2
  <2>. QED BY <2>2, <2>4, <2>5, <2>6
<1>. QED BY <1>3 DEF RegistryInv

-----------------------------------------------------------------------------
(* One lemma per action.                                                   *)

\* A new transaction relies on nothing yet.
LEMMA BeginKeeps ==
    ASSUME RegistryInv, NEW s \in Sessions, NEW q \in Queues, NEW left \in SUBSET Queues,
           NEW kind \in {"create", "delete", "set_policy", "cleanup", "cleanup_all"},
           NEW options \in Options, options.limit # 0, Begin(s, kind, q, left, options)
    PROVE  RegistryInv'
<1>. DEFINE t == [pc |-> "lock", kind |-> kind, queue |-> q, left |-> left,
                  options |-> options, found |-> NoQueue, deleted |-> [p \in Queues |-> 0]]
<1>1. RegistryTypeOK
  BY DEF RegistryInv
<1>2. /\ t \in Transaction /\ t.pc = "lock" /\ t.options = options
      /\ \A p \in Queues : t.deleted[p] = 0
  BY RegistryAssumption DEF Transaction
<1>3. tx' = [tx EXCEPT ![s] = t] /\ UNCHANGED <<queues, storage, done, wanted, lock>>
  BY DEF Begin
<1>. HIDE DEF t
<1>4. LocksHeld(t, s, lock') /\ DeletesExist(t, done) /\ ReadsHold(t, queues[t.queue])
  BY <1>1, <1>2, RegistryAssumption DEF LocksHeld, DeletesExist, ReadsHold, RegistryTypeOK
<1>. QED BY <1>1, <1>2, <1>3, <1>4, LocalStep DEF RegistryTypeOK

\* Every call begins without a lock and without having read anything.
LEMMA CallKeeps ==
    ASSUME RegistryInv, NEW s \in Sessions, Call(s)
    PROVE  RegistryInv'
<1>1. NoOptions \in Options /\ NoOptions.limit # 0
  BY DEF NoOptions, Options, OrNull, Null
<1>2. ASSUME NEW q \in Queues, NEW options \in Options, Create(s, q, options) \/ SetPolicy(s, q, options)
      PROVE  RegistryInv'
  BY <1>2, BeginKeeps DEF Create, SetPolicy, Accepted
<1>3. ASSUME NEW q \in Queues, Delete(s, q) \/ Cleanup(s, q)
      PROVE  RegistryInv'
  BY <1>1, <1>3, BeginKeeps DEF Delete, Cleanup
<1>4. CASE CleanupAll(s)
  <2>1. Registered \in SUBSET Queues /\ FirstByName(Registered) \in Queues
    BY <1>4, FirstByNameIsMember DEF CleanupAll, Registered
  <2>. QED BY <1>1, <1>4, <2>1, BeginKeeps DEF CleanupAll
<1>. QED BY <1>2, <1>3, <1>4 DEF Call

\* A rollback changes nothing but the locks of its session.
LEMMA RaiseKeeps ==
    ASSUME RegistryInv, NEW s \in Sessions, Raise(s)
    PROVE  RegistryInv'
<1>1. RegistryTypeOK
  BY DEF RegistryInv
<1>. QED BY <1>1, ReleasedKeeps, LocalStep DEF Raise

\* pg_advisory_xact_lock() takes no lock away.
LEMMA TakeLockKeeps ==
    ASSUME RegistryInv, NEW s \in Sessions, TakeLock(s)
    PROVE  RegistryInv'
<1>. DEFINE t == [tx[s] EXCEPT !.pc = "read"]
            q == tx[s].queue
<1>1. RegistryTypeOK
  BY DEF RegistryInv
<1>2. tx[s] \in Transaction /\ tx[s] # Resting /\ q \in Queues /\ tx[s].pc = "lock"
  BY <1>1, TransactionTyped DEF TakeLock, Transaction
<1>3. /\ t \in Transaction /\ t.pc = "read" /\ t.queue = q /\ t.deleted = tx[s].deleted
      /\ t.options = tx[s].options
  BY <1>2 DEF Transaction
<1>4. /\ tx' = [tx EXCEPT ![s] = t] /\ lock' = [lock EXCEPT ![LockOf[q]] = s]
      /\ UNCHANGED <<queues, storage, done, wanted>>
  BY DEF TakeLock, Goto
<1>5. /\ lock' \in [{ LockOf[p] : p \in Queues } -> Sessions \cup {Nobody}]
      /\ lock'[LockOf[q]] = s
      /\ \A p \in Queues : LockOf[p] # LockOf[q] => lock'[LockOf[p]] = lock[LockOf[p]]
  BY <1>1, <1>2, <1>4 DEF RegistryTypeOK
<1>6. lock[LockOf[q]] \in {Nobody, s}
  BY DEF TakeLock, LockFree
<1>7. \A p \in Queues, u \in Sessions \ {s} : lock[LockOf[p]] = u => lock'[LockOf[p]] = u
  BY <1>5, <1>6, RegistryAssumption
<1>8. LocksHeld(tx[s], s, lock) /\ DeletesExist(tx[s], done) /\ ReadsHold(tx[s], queues[q])
  BY <1>2 DEF RegistryInv
<1>. HIDE DEF t, q
<1>9. LocksHeld(t, s, lock') /\ DeletesExist(t, done) /\ ReadsHold(t, queues[t.queue])
  BY <1>3, <1>5, <1>8 DEF LocksHeld, DeletesExist, ReadsHold
<1>. QED BY <1>3, <1>4, <1>5, <1>7, <1>9, LocalStep

\* What the SELECT reads is the row as the lock protects it.
LEMMA ReadRowKeeps ==
    ASSUME RegistryInv, NEW s \in Sessions, ReadRow(s)
    PROVE  RegistryInv'
<1>. DEFINE q == tx[s].queue
            row == queues[q]
            pc == IF tx[s].kind = "set_policy" THEN "policy" ELSE "tables"
            t == [tx[s] EXCEPT !.found = row, !.pc = pc]
<1>1. RegistryTypeOK
  BY DEF RegistryInv
<1>2. /\ tx[s] \in Transaction /\ tx[s] # Resting /\ q \in Queues /\ tx[s].pc = "read"
      /\ row \in Policy \cup {NoQueue}
  BY <1>1, TransactionTyped DEF ReadRow, Transaction, RegistryTypeOK
<1>3. LocksHeld(tx[s], s, lock) /\ DeletesExist(tx[s], done) /\ ReadsHold(tx[s], row)
  BY <1>2 DEF RegistryInv
<1>4. /\ t \in Transaction /\ t.pc = pc /\ t.queue = q /\ t.deleted = tx[s].deleted
      /\ t.options = tx[s].options /\ t.found = row /\ t.kind = tx[s].kind
  BY <1>2 DEF Transaction
<1>5. CASE ~row.exists /\ tx[s].kind # "create" /\ Raise(s)
  BY <1>5, RaiseKeeps
<1>6. CASE /\ row.exists \/ tx[s].kind = "create"
           /\ tx' = [tx EXCEPT ![s].found = row, ![s].pc = pc]
           /\ UNCHANGED <<queues, storage, done, lock, wanted>>
  <2>1. tx' = [tx EXCEPT ![s] = t]
    BY <1>1, <1>6 DEF RegistryTypeOK
  <2>2. pc = "policy" <=> tx[s].kind = "set_policy"
    OBVIOUS
  <2>3. pc \in {"tables", "policy"}
    OBVIOUS
  <2>. HIDE DEF t, pc, row, q
  <2>4. LocksHeld(t, s, lock') /\ DeletesExist(t, done)
    BY <1>2, <1>3, <1>4, <1>6, <2>3 DEF LocksHeld, DeletesExist, q
  <2>5. ReadsHold(t, row)
    BY <1>3, <1>4, <1>6, <2>2, <2>3 DEF ReadsHold
  <2>6. row = queues[t.queue]
    BY <1>4 DEF row
  <2>7. /\ UNCHANGED <<queues, storage, done, wanted, lock>>
        /\ lock' \in [{ LockOf[p] : p \in Queues } -> Sessions \cup {Nobody}]
    BY <1>1, <1>6 DEF RegistryTypeOK
  <2>. QED BY <1>4, <2>1, <2>4, <2>5, <2>6, <2>7, LocalStep
<1>. QED BY <1>5, <1>6 DEF ReadRow

\* The tables of the queue are as the row says; a cleanup deletes no more than
\* there is, and moves to the next queue without giving up its locks.
LEMMA UseTablesKeeps ==
    ASSUME RegistryInv, NEW s \in Sessions, UseTables(s)
    PROVE  RegistryInv'
<1>. DEFINE q == tx[s].queue
            row == queues[q]
            u == tx[s]
<1>1. RegistryTypeOK
  BY DEF RegistryInv
<1>2. /\ u \in Transaction /\ u # Resting /\ q \in Queues /\ u.pc = "tables"
      /\ row \in Policy \cup {NoQueue}
  BY <1>1, TransactionTyped DEF UseTables, Transaction, RegistryTypeOK
<1>3. LocksHeld(u, s, lock) /\ DeletesExist(u, done) /\ ReadsHold(u, row)
  BY <1>2 DEF RegistryInv
<1>4. ASSUME Raise(s) PROVE RegistryInv'
  BY <1>4, RaiseKeeps
<1>5. ASSUME NEW pc \in {"policy", "commit"}, Goto(s, pc),
             UNCHANGED <<queues, storage, done, lock, wanted>>,
             \/ u.kind = "create" /\ (pc = "commit" => u.options = NoOptions)
             \/ u.kind = "delete" /\ pc = "commit"
      PROVE  RegistryInv'
  <2>. DEFINE t == [u EXCEPT !.pc = pc]
  <2>1. /\ t \in Transaction /\ t.pc = pc /\ t.queue = q /\ t.deleted = u.deleted
        /\ t.options = u.options /\ t.found = u.found /\ t.kind = u.kind
    BY <1>2 DEF Transaction
  <2>2. tx' = [tx EXCEPT ![s] = t]
    BY <1>5 DEF Goto
  <2>3. UNCHANGED <<queues, storage, done, wanted, lock>>
    BY <1>5
  <2>4. lock' \in [{ LockOf[p] : p \in Queues } -> Sessions \cup {Nobody}]
    BY <1>1, <2>3 DEF RegistryTypeOK
  <2>5. u.kind = "create" => u.found = row /\ Overridden(BaseRow(row), NoOptions) = BaseRow(row)
    BY <1>2, <1>3, BaseRowTyped, NoOptionsKeep DEF ReadsHold
  <2>. HIDE DEF t
  <2>6. LocksHeld(t, s, lock') /\ DeletesExist(t, done)
    BY <1>2, <1>3, <2>1, <2>3 DEF LocksHeld, DeletesExist
  <2>7. ReadsHold(t, queues[t.queue])
    <3>. HIDE DEF row, u, q
    <3>1. ReadsHold(t, row)
      BY <1>3, <1>5, <2>1, <2>5 DEF ReadsHold
    <3>. QED BY <3>1, <2>1 DEF row
  <2>. QED BY <2>1, <2>2, <2>3, <2>4, <2>6, <2>7, LocalStep
<1>6. ASSUME u.kind \in {"cleanup", "cleanup_all"},
             tx' = [tx EXCEPT ![s].deleted[q] = @ + Batch(s),
                              ![s].queue = IF u.left = {} THEN @ ELSE FirstByName(u.left),
                              ![s].left = IF @ = {} THEN @ ELSE @ \ {FirstByName(@)},
                              ![s].pc = IF u.left = {} THEN "commit" ELSE "lock"],
             UNCHANGED <<queues, storage, done, lock, wanted>>
      PROVE  RegistryInv'
  <2>. DEFINE deleted == [u.deleted EXCEPT ![q] = @ + Batch(s)]
              next == IF u.left = {} THEN q ELSE FirstByName(u.left)
              left == IF u.left = {} THEN u.left ELSE u.left \ {FirstByName(u.left)}
              pc == IF u.left = {} THEN "commit" ELSE "lock"
              t == [u EXCEPT !.deleted = deleted, !.queue = next, !.left = left, !.pc = pc]
  <2>1. /\ \A p \in Queues : u.deleted[p] \in Nat /\ done[p] \in 0 .. MaxDone
                               /\ u.deleted[p] <= done[p]
        /\ u.deleted \in [Queues -> 0 .. MaxDone] /\ u.left \in SUBSET Queues
    BY <1>1, <1>2, <1>3, RegistryAssumption DEF Transaction, DeletesExist, RegistryTypeOK
  <2>2. u.found \in Policy /\ u.found.limit \in Nat
    <3>1. u.found = row /\ u.found.exists
      BY <1>2, <1>3, <1>6 DEF ReadsHold
    <3>2. u.found \in Policy
      BY <3>1, <1>2, ExistsIsPolicy
    <3>. QED BY <3>2 DEF Policy
  <2>3. Batch(s) \in Nat /\ Batch(s) <= done[q] - u.deleted[q]
    <3>1. done[q] - u.deleted[q] \in Nat
      <4>1. u.deleted[q] \in Nat /\ done[q] \in Nat /\ u.deleted[q] <= done[q]
        BY <1>2, <2>1
      <4>. QED BY <4>1
    <3>. QED BY <3>1, <2>2, MinOfTwo DEF Batch
  <2>4. /\ deleted \in [Queues -> 0 .. MaxDone]
        /\ \A p \in Queues : /\ deleted[p] <= done[p]
                             /\ p # q => deleted[p] = u.deleted[p]
    <3>1. \A p \in Queues : deleted[p] = IF p = q THEN u.deleted[q] + Batch(s) ELSE u.deleted[p]
      BY <2>1
    <3>2. deleted = [p \in Queues |-> deleted[p]]
      BY <2>1
    <3>3. u.deleted[q] \in Nat /\ done[q] \in Nat /\ done[q] <= MaxDone
      <4>1. u.deleted[q] \in Nat /\ done[q] \in 0 .. MaxDone
        BY <1>2, <2>1
      <4>2. MaxDone \in Nat
        BY RegistryAssumption
      <4>. HIDE DEF u, q
      <4>. QED BY <4>1, <4>2
    <3>4. u.deleted[q] + Batch(s) \in 0 .. MaxDone /\ u.deleted[q] + Batch(s) <= done[q]
      BY <3>3, <2>3, RegistryAssumption
    <3>. HIDE DEF deleted
    <3>. QED BY <3>1, <3>2, <3>4, <2>1
  <2>5. next \in Queues /\ left \in SUBSET Queues /\ pc \in {"commit", "lock"}
        /\ (pc = "commit" => next = q)
    BY <1>2, <2>1, FirstByNameIsMember
  <2>6. tx' = [tx EXCEPT ![s] = t]
    BY <1>1, <1>2, <1>6 DEF RegistryTypeOK, Transaction
  <2>. HIDE DEF deleted, next, left, pc
  <2>7. /\ t \in Transaction /\ t.pc = pc /\ t.queue = next /\ t.deleted = deleted
        /\ t.options = u.options /\ t.kind = u.kind
    BY <1>2, <2>4, <2>5 DEF Transaction
  <2>. HIDE DEF t
  <2>8. LocksHeld(t, s, lock)
    BY <1>2, <1>3, <2>4, <2>5, <2>7 DEF LocksHeld
  <2>9. DeletesExist(t, done)
    BY <2>4, <2>7 DEF DeletesExist
  <2>10. ReadsHold(t, queues[t.queue])
    <3>. HIDE DEF row, u, q
    <3>. QED BY <1>3, <1>6, <2>5, <2>7 DEF ReadsHold
  <2>11. /\ UNCHANGED <<queues, storage, done, wanted, lock>>
         /\ lock' \in [{ LockOf[p] : p \in Queues } -> Sessions \cup {Nobody}]
    BY <1>1, <1>6 DEF RegistryTypeOK
  <2>. QED BY <2>6, <2>7, <2>8, <2>9, <2>10, <2>11, LocalStep
<1>. QED BY <1>4, <1>5, <1>6 DEF UseTables

\* The chosen policy is the stored one with the requested values.
LEMMA ChoosePolicyKeeps ==
    ASSUME RegistryInv, NEW s \in Sessions, ChoosePolicy(s)
    PROVE  RegistryInv'
<1>. DEFINE u == tx[s]
            q == tx[s].queue
            row == queues[q]
            new == Overridden(BaseRow(u.found), u.options)
            t == [u EXCEPT !.found = new, !.pc = "commit"]
<1>1. RegistryTypeOK
  BY DEF RegistryInv
<1>2. /\ u \in Transaction /\ u # Resting /\ q \in Queues /\ u.pc = "policy"
      /\ row \in Policy \cup {NoQueue} /\ u.options \in Options
  BY <1>1, TransactionTyped DEF ChoosePolicy, Transaction, RegistryTypeOK
<1>3. LocksHeld(u, s, lock) /\ DeletesExist(u, done) /\ ReadsHold(u, row)
  BY <1>2 DEF RegistryInv
<1>4. /\ u.found = row /\ u.options.limit # 0
      /\ u.kind \in {"create", "set_policy"} /\ (u.kind = "set_policy" => row.exists)
  BY <1>2, <1>3 DEF ReadsHold
<1>5. new \in Policy /\ BaseRow(new) = new
  <2>1. new \in Policy
    BY <1>2, <1>4, BaseRowTyped, OverriddenTyped
  <2>. QED BY <2>1, ExistsIsPolicy DEF BaseRow
<1>6. tx' = [tx EXCEPT ![s] = t] /\ UNCHANGED <<queues, storage, done, wanted, lock>>
  BY <1>1 DEF ChoosePolicy, BaseRow, RegistryTypeOK
<1>. HIDE DEF new
<1>7. /\ t \in Transaction /\ t.pc = "commit" /\ t.queue = q /\ t.deleted = u.deleted
      /\ t.options = u.options /\ t.found = new /\ t.kind = u.kind
  BY <1>2, <1>5 DEF Transaction
<1>. HIDE DEF t
<1>8. LocksHeld(t, s, lock) /\ DeletesExist(t, done)
  BY <1>2, <1>3, <1>7 DEF LocksHeld, DeletesExist
<1>9. new = Overridden(BaseRow(row), u.options) /\ (row.exists => BaseRow(row) = row)
  BY <1>4 DEF new, BaseRow
<1>10. ReadsHold(t, queues[t.queue])
  <2>. HIDE DEF row, u, q
  <2>1. ReadsHold(t, row)
    BY <1>3, <1>4, <1>5, <1>7, <1>9 DEF ReadsHold
  <2>. QED BY <2>1, <1>7 DEF row
<1>11. lock' \in [{ LockOf[p] : p \in Queues } -> Sessions \cup {Nobody}] /\ lock' = lock
  BY <1>1, <1>6 DEF RegistryTypeOK
<1>. QED BY <1>6, <1>7, <1>8, <1>10, <1>11, LocalStep

\* A commit of one queue, whose lock the session holds.
LEMMA CommitWithKeeps ==
    ASSUME RegistryInv, NEW s \in Sessions, NEW q \in Queues,
           NEW row \in Policy \cup {NoQueue}, NEW exists \in BOOLEAN, NEW left \in 0 .. MaxDone,
           CommitWith(s, q, row, exists, left), row.exists <=> exists,
           lock[LockOf[q]] = s, wanted' = [wanted EXCEPT ![q] = row]
    PROVE  RegistryInv'
<1>1. /\ RegistryTypeOK /\ queues = wanted
      /\ \A p \in Queues : queues[p].exists <=> storage[p]
  BY DEF RegistryInv, NoLostPolicy
<1>2. /\ queues' = [queues EXCEPT ![q] = row] /\ storage' = [storage EXCEPT ![q] = exists]
      /\ done' = [done EXCEPT ![q] = left] /\ tx' = [tx EXCEPT ![s] = Resting]
      /\ lock' = Released(s)
  BY DEF CommitWith
<1>3. RegistryTypeOK'
  BY <1>1, <1>2, ReleasedKeeps DEF RegistryTypeOK
<1>4. NoLostPolicy'
  BY <1>1, <1>2 DEF NoLostPolicy
<1>5. \A p \in Queues : queues'[p].exists <=> storage'[p]
  <2>. TAKE p \in Queues
  <2>1. CASE p = q
    <3>1. queues'[p] = row /\ storage'[p] = exists
      BY <2>1, <1>1, <1>2 DEF RegistryTypeOK
    <3>. QED BY <3>1, Zenon
  <2>2. CASE p # q
    <3>1. queues'[p] = queues[p] /\ storage'[p] = storage[p]
      BY <2>2, <1>1, <1>2 DEF RegistryTypeOK
    <3>. QED BY <3>1, <1>1, Zenon
  <2>. QED BY <2>1, <2>2
<1>6. \A p \in Queues : queues'[p] # queues[p] \/ done'[p] # done[p] => lock[LockOf[p]] = s
  BY <1>1, <1>2 DEF RegistryTypeOK
<1>. QED BY <1>2, <1>3, <1>4, <1>5, <1>6, CommitStep

\* What a transaction at its commit relies on.
LEMMA AtCommit ==
    ASSUME RegistryInv, NEW s \in Sessions, tx[s].pc = "commit"
    PROVE  /\ tx[s] \in Transaction /\ tx[s].queue \in Queues
           /\ lock[LockOf[tx[s].queue]] = s
           /\ LocksHeld(tx[s], s, lock) /\ DeletesExist(tx[s], done)
           /\ ReadsHold(tx[s], queues[tx[s].queue])
           /\ tx[s].options \in Options /\ tx[s].options.limit # 0
           /\ queues[tx[s].queue] \in Policy \cup {NoQueue}
           /\ storage[tx[s].queue] \in BOOLEAN /\ done[tx[s].queue] \in 0 .. MaxDone
<1>1. RegistryTypeOK
  BY DEF RegistryInv
<1>2. tx[s] \in Transaction /\ tx[s] # Resting
  BY <1>1, TransactionTyped
<1>3. LocksHeld(tx[s], s, lock) /\ DeletesExist(tx[s], done) /\ ReadsHold(tx[s], queues[tx[s].queue])
  BY <1>2 DEF RegistryInv
<1>4. tx[s].queue \in Queues /\ tx[s].options \in Options
  BY <1>2 DEF Transaction
<1>5. lock[LockOf[tx[s].queue]] = s /\ tx[s].options.limit # 0
  BY <1>3 DEF LocksHeld, ReadsHold
<1>. QED BY <1>1, <1>2, <1>3, <1>4, <1>5 DEF RegistryTypeOK

\* create writes the row it read, or a new one, with its options.
LEMMA CommitCreateKeeps ==
    ASSUME RegistryInv, NEW s \in Sessions, CommitCreate(s)
    PROVE  RegistryInv'
<1>. DEFINE q == tx[s].queue
            new == Overridden(BaseRow(queues[q]), tx[s].options)
<1>1. tx[s].pc = "commit" /\ tx[s].kind = "create"
  BY DEF CommitCreate
<1>2. /\ q \in Queues /\ lock[LockOf[q]] = s /\ ReadsHold(tx[s], queues[q])
      /\ tx[s].options \in Options /\ tx[s].options.limit # 0
      /\ queues[q] \in Policy \cup {NoQueue} /\ done[q] \in 0 .. MaxDone
  BY <1>1, AtCommit
<1>3. new \in Policy
  BY <1>2, BaseRowTyped, OverriddenTyped
<1>4. BaseRow(tx[s].found) = new
  BY <1>1, <1>2 DEF ReadsHold
<1>5. CommitWith(s, q, new, TRUE, done[q])
  BY <1>4 DEF CommitCreate, BaseRow
<1>6. wanted' = [wanted EXCEPT ![q] = new]
  <2>1. wanted = queues
    BY DEF RegistryInv, NoLostPolicy
  <2>. QED BY <2>1 DEF CommitCreate, BaseRow
<1>7. new.exists <=> TRUE
  BY <1>3, ExistsIsPolicy
<1>. HIDE DEF new, q
<1>. QED BY <1>2, <1>3, <1>5, <1>6, <1>7, CommitWithKeeps

\* drop_queue() removes row, tables and tasks together.
LEMMA CommitDeleteKeeps ==
    ASSUME RegistryInv, NEW s \in Sessions, CommitDelete(s)
    PROVE  RegistryInv'
<1>. DEFINE q == tx[s].queue
<1>1. tx[s].pc = "commit"
  BY DEF CommitDelete
<1>2. q \in Queues /\ lock[LockOf[q]] = s
  BY <1>1, AtCommit
<1>3. (NoQueue.exists <=> FALSE) /\ 0 \in 0 .. MaxDone
  BY RegistryAssumption DEF NoQueue
<1>4. CommitWith(s, q, NoQueue, FALSE, 0) /\ wanted' = [wanted EXCEPT ![q] = NoQueue]
  BY DEF CommitDelete
<1>. HIDE DEF q
<1>. QED BY <1>2, <1>3, <1>4, CommitWithKeeps

\* set_queue_policy() writes to the row it read.
LEMMA CommitPolicyKeeps ==
    ASSUME RegistryInv, NEW s \in Sessions, CommitPolicy(s)
    PROVE  RegistryInv'
<1>. DEFINE q == tx[s].queue
            new == Overridden(queues[q], tx[s].options)
<1>1. tx[s].pc = "commit" /\ tx[s].kind = "set_policy"
  BY DEF CommitPolicy
<1>2. /\ q \in Queues /\ lock[LockOf[q]] = s /\ ReadsHold(tx[s], queues[q])
      /\ tx[s].options \in Options /\ tx[s].options.limit # 0
      /\ queues[q] \in Policy \cup {NoQueue} /\ done[q] \in 0 .. MaxDone
      /\ storage[q] \in BOOLEAN
  BY <1>1, AtCommit
<1>3. queues[q].exists /\ tx[s].found = new /\ queues[q] \in Policy /\ storage[q]
  <2>1. queues[q].exists /\ tx[s].found = new
    BY <1>1, <1>2 DEF ReadsHold
  <2>2. storage[q]
    BY <1>2, <2>1 DEF RegistryInv
  <2>. QED BY <1>2, <2>1, <2>2, ExistsIsPolicy
<1>4. new \in Policy
  BY <1>2, <1>3, OverriddenTyped
<1>5. wanted = queues
  BY DEF RegistryInv, NoLostPolicy
<1>6. CommitWith(s, q, new, storage[q], done[q]) /\ wanted' = [wanted EXCEPT ![q] = new]
  BY <1>3, <1>5 DEF CommitPolicy
<1>7. new.exists <=> storage[q]
  BY <1>3, <1>4, ExistsIsPolicy
<1>. HIDE DEF new, q
<1>. QED BY <1>2, <1>4, <1>6, <1>7, CommitWithKeeps

\* A cleanup subtracts what it has deleted, and holds the locks of all of it.
LEMMA CommitCleanupKeeps ==
    ASSUME RegistryInv, NEW s \in Sessions, CommitCleanup(s)
    PROVE  RegistryInv'
<1>1. RegistryTypeOK /\ tx[s].pc = "commit"
  BY DEF RegistryInv, CommitCleanup
<1>2. tx[s] \in Transaction /\ LocksHeld(tx[s], s, lock) /\ DeletesExist(tx[s], done)
  BY <1>1, AtCommit
<1>3. /\ done' = [p \in Queues |-> done[p] - tx[s].deleted[p]]
      /\ tx' = [tx EXCEPT ![s] = Resting] /\ lock' = Released(s)
      /\ UNCHANGED <<queues, storage, wanted>>
  BY DEF CommitCleanup
<1>4. \A p \in Queues : /\ done'[p] \in 0 .. MaxDone
                        /\ done'[p] # done[p] => lock[LockOf[p]] = s
  <2>. TAKE p \in Queues
  <2>1. tx[s].deleted[p] \in 0 .. MaxDone /\ done[p] \in 0 .. MaxDone /\ tx[s].deleted[p] <= done[p]
    BY <1>1, <1>2 DEF Transaction, DeletesExist, RegistryTypeOK
  <2>2. MaxDone \in Nat
    BY RegistryAssumption
  <2>3. done'[p] = done[p] - tx[s].deleted[p]
    BY <1>3
  <2>4. done'[p] \in 0 .. MaxDone /\ (done'[p] # done[p] => tx[s].deleted[p] > 0)
    BY <2>1, <2>2, <2>3
  <2>. QED BY <2>4, <1>2 DEF LocksHeld
<1>5. RegistryTypeOK'
  BY <1>1, <1>3, <1>4, ReleasedKeeps DEF RegistryTypeOK
<1>6. NoLostPolicy' /\ \A p \in Queues : queues'[p].exists <=> storage'[p]
  BY <1>3 DEF RegistryInv, NoLostPolicy
<1>. QED BY <1>3, <1>4, <1>5, <1>6, CommitStep

\* More tasks to delete disturb nobody.
LEMMA TaskExpiresKeeps ==
    ASSUME RegistryInv, NEW q \in Queues, TaskExpires(q)
    PROVE  RegistryInv'
<1>1. RegistryTypeOK
  BY DEF RegistryInv
<1>2. \A p \in Queues : done[p] \in Nat /\ done'[p] \in 0 .. MaxDone /\ done[p] <= done'[p]
  <2>. TAKE p \in Queues
  <2>1. MaxDone \in Nat /\ done \in [Queues -> 0 .. MaxDone]
    BY <1>1, RegistryAssumption DEF RegistryTypeOK
  <2>2. done[q] < MaxDone /\ done' = [done EXCEPT ![q] = @ + 1]
    BY DEF TaskExpires
  <2>3. done[p] \in 0 .. MaxDone /\ done'[p] = IF p = q THEN done[p] + 1 ELSE done[p]
    BY <2>1, <2>2
  <2>. QED BY <2>1, <2>2, <2>3
<1>3. RegistryTypeOK'
  BY <1>1, <1>2 DEF RegistryTypeOK, TaskExpires
<1>4. ASSUME NEW s \in Sessions, tx[s] # Resting PROVE DeletesExist(tx[s], done')
  <2>1. DeletesExist(tx[s], done) /\ \A p \in Queues : tx[s].deleted[p] \in Nat
    BY <1>1, <1>4, TransactionTyped DEF RegistryInv, Transaction
  <2>2. \A p \in Queues : done'[p] \in Nat
    BY <1>2
  <2>. QED BY <1>2, <2>1, <2>2 DEF DeletesExist
<1>. QED BY <1>3, <1>4 DEF RegistryInv, NoLostPolicy, TaskExpires

\* The inductive invariant.
LEMMA RegistryInductive == RegistrySpec => []RegistryInv
<1>1. RegistryInit => RegistryInv
  BY RegistryAssumption DEF RegistryInit, RegistryInv, RegistryTypeOK, NoLostPolicy, NoQueue
<1>2. RegistryInv /\ [RegistryNext]_registryVars => RegistryInv'
  <2>. SUFFICES ASSUME RegistryInv, [RegistryNext]_registryVars PROVE RegistryInv'
    OBVIOUS
  <2>1. CASE UNCHANGED registryVars
    BY <2>1 DEF registryVars, RegistryInv, RegistryTypeOK, NoLostPolicy
  <2>2. ASSUME NEW s \in Sessions, Work(s)
        PROVE  RegistryInv'
    BY <2>2, ReadRowKeeps, UseTablesKeeps, ChoosePolicyKeeps, CommitCreateKeeps, CommitDeleteKeeps,
       CommitPolicyKeeps, CommitCleanupKeeps DEF Work
  <2>3. ASSUME NEW s \in Sessions, Call(s) \/ TakeLock(s) \/ Lost(s)
        PROVE  RegistryInv'
    BY <2>3, CallKeeps, TakeLockKeeps, RaiseKeeps DEF Lost
  <2>. QED BY <2>1, <2>2, <2>3, TaskExpiresKeeps DEF RegistryNext
<1>. QED BY <1>1, <1>2, PTL DEF RegistrySpec

\* The raises of verify_queue_storage() and of a missing relation are never
\* reached: under its lock every operation finds the row and the tables of a queue
\* together, whatever the sessions do and whichever names share a lock.
THEOREM MetadataMeetsStorageHolds == RegistrySpec => []MetadataMeetsStorage
<1>1. RegistryInv => MetadataMeetsStorage
  <2>. SUFFICES ASSUME RegistryInv PROVE MetadataMeetsStorage
    OBVIOUS
  <2>1. RegistryTypeOK /\ \A q \in Queues : queues[q].exists <=> storage[q]
    BY DEF RegistryInv
  <2>2. ASSUME NEW s \in Sessions, tx[s].pc = "tables"
        PROVE  tx[s].found.exists <=> storage[tx[s].queue]
    <3>1. tx[s] \in Transaction /\ tx[s] # Resting
      BY <2>1, <2>2, TransactionTyped
    <3>2. tx[s].queue \in Queues /\ tx[s].found = queues[tx[s].queue]
      BY <2>2, <3>1 DEF RegistryInv, ReadsHold, Transaction
    <3>. QED BY <3>2, <2>1
  <2>. QED BY <2>1, <2>2 DEF MetadataMeetsStorage
<1>. QED BY <1>1, RegistryInductive, PTL

\* Concurrent policy calls compose: the stored policy is always what the
\* acknowledged calls, one after the other, asked for.
THEOREM NoLostPolicyHolds == RegistrySpec => []NoLostPolicy
<1>1. RegistryInv => NoLostPolicy
  BY DEF RegistryInv
<1>. QED BY <1>1, RegistryInductive, PTL
=============================================================================
