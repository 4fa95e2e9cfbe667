---------------------------- MODULE StedaPolling ----------------------------
(***************************************************************************)
(* The maintenance of claim_tasks() (0006_task_claiming.sql) over an       *)
(* endless stream of work: each poll cancels, reaps and claims at most     *)
(* Quantity rows, oldest first.  Time is the order it puts rows into:      *)
(* runs wait in the order of available_at, the first `due` of them are     *)
(* due; leases stand in the order of claim_expires_at, the first           *)
(* `expired` of them have run out; tasks stand in the order of their ids.  *)
(* A task that ended for good may be submitted again, as a new one.        *)
(***************************************************************************)
EXTENDS Integers, Sequences, SequencesExt

CONSTANTS
    Tasks,
    Supported,   \* tasks whose name some polling worker registered
    Quantity     \* free slots of the worker that polls

ASSUME PollingAssumption == Supported \subseteq Tasks /\ Quantity \in Nat \ {0}

VARIABLE rows

Empty ==
    [ids |-> <<>>, ready |-> <<>>, due |-> 0, leased |-> <<>>, expired |-> 0, overdue |-> {}]

PollingInit == rows = Empty

Due(s) == SubSeq(s.ready, 1, s.due)
Expired(s) == SubSeq(s.leased, 1, s.expired)
ActiveTasks(s) == ToSet(s.ready) \cup ToSet(s.leased)

-----------------------------------------------------------------------------
(* What the functions of the queue do to the rows.                         *)

Without(seq, t) == SelectSeq(seq, LAMBDA u : u # t)
Placed(seq, i, t) == SubSeq(seq, 1, i - 1) \o <<t>> \o SubSeq(seq, i, Len(seq))

Unready(s, t) ==
    [s EXCEPT !.ready = Without(@, t), !.due = IF t \in ToSet(Due(s)) THEN @ - 1 ELSE @]

Unleased(s, t) ==
    [s EXCEPT !.leased = Without(@, t), !.expired = IF t \in ToSet(Expired(s)) THEN @ - 1 ELSE @]

\* cancel_task(), complete_run() or cleanup_tasks().
Gone(s, t) ==
    [Unready(Unleased(s, t), t) EXCEPT !.ids = Without(@, t), !.overdue = @ \ {t}]

\* A run with available_at = now comes after every run that is due already.
AvailableNow(s, t) ==
    [s EXCEPT !.ready = Placed(@, s.due + 1, t), !.due = @ + 1]

AvailableLater(s, t) ==
    { [s EXCEPT !.ready = Placed(@, i, t)] : i \in s.due + 1 .. Len(s.ready) + 1 }

\* A lease that starts or is renewed now ends after every lease that has ended.
Leased(s, t) ==
    { [s EXCEPT !.leased = Placed(@, i, t)] : i \in s.expired + 1 .. Len(s.leased) + 1 }

\* fail_run(): cancelled, failed for good, or retried now or later.
Failures(s, t) ==
    IF t \in s.overdue THEN {Gone(s, t)}
    ELSE LET failed == Unleased(s, t)
         IN  {Gone(s, t), failed, AvailableNow(failed, t)} \cup AvailableLater(failed, t)

-----------------------------------------------------------------------------
(* claim_tasks().                                                          *)

Limit(seq) == SubSeq(seq, 1, IF Len(seq) < Quantity THEN Len(seq) ELSE Quantity)

\* FOR UPDATE SKIP LOCKED
Unlocked(seq, locked) == SelectSeq(seq, LAMBDA t : t \notin locked)

\* Mutant: ORDER BY task.id DESC.
NewestOverdue(s, locked) ==
    Limit(Reverse(Unlocked(SelectSeq(s.ids, LAMBDA t : t \in s.overdue \cap ActiveTasks(s)), locked)))

\* cancel_expired_tasks()
Overdue(s, locked) ==
    Limit(Unlocked(SelectSeq(s.ids, LAMBDA t : t \in s.overdue \cap ActiveTasks(s)), locked))

\* Mutant: ORDER BY claim_expires_at DESC.
LastExpired(s, locked) == Limit(Reverse(Unlocked(Expired(s), locked)))

\* reap_expired_runs()
Orphans(s, locked) == Limit(Unlocked(Expired(s), locked))

\* Mutant: the limit applies before the names are compared.
FirstDue(s, locked) ==
    SelectSeq(Limit(Unlocked(Due(s), locked)), LAMBDA t : t \in Supported /\ t \notin s.overdue)

Runnable(s, locked) ==
    Limit(SelectSeq(Unlocked(Due(s), locked), LAMBDA t : t \in Supported /\ t \notin s.overdue))

\* The outcomes of step(_, t) for each t of seq in turn.
Each(step(_, _), s, seq) ==
    FoldLeft(LAMBDA outcomes, t : UNION { step(r, t) : r \in outcomes }, {s}, seq)

CancelPass(s, locked) == Each(LAMBDA r, t : {Gone(r, t)}, s, Overdue(s, locked))
ReapPass(s, locked) == Each(Failures, s, Orphans(s, locked))
ClaimPass(s, locked) == Each(LAMBDA r, t : Leased(Unready(r, t), t), s, Runnable(s, locked))

Poll(locked) ==
    \E checked \in CancelPass(rows, locked) : \E reaped \in ReapPass(checked, locked) :
        rows' \in ClaimPass(reaped, locked)

-----------------------------------------------------------------------------
(* Everybody else.                                                         *)

SpawnTask(t) ==
    /\ t \notin ToSet(rows.ids)
    /\ rows' = AvailableNow([rows EXCEPT !.ids = Append(@, t)], t)

\* The owner, while its lease lasts.
Owned(t) == t \in ToSet(rows.leased) \ ToSet(Expired(rows))

EndRun(t) == Owned(t) /\ (rows' = Gone(rows, t) \/ rows' \in Failures(rows, t))

ScheduleRun(t) ==
    Owned(t) /\ IF t \in rows.overdue THEN rows' = Gone(rows, t)
                ELSE rows' \in AvailableLater(Unleased(rows, t), t)

SuperviseRun(t) ==
    Owned(t) /\ IF t \in rows.overdue THEN rows' = Gone(rows, t)
                ELSE rows' \in Leased(Unleased(rows, t), t)

\* A failed task that is not overdue is retried at once, any task is cancelled,
\* and one that ended is deleted by retention.
Failed(t) == t \in ToSet(rows.ids) \ ActiveTasks(rows)
RetryTask(t) == Failed(t) /\ t \notin rows.overdue /\ rows' = AvailableNow(rows, t)
CancelTask(t) == t \in ActiveTasks(rows) /\ rows' = Gone(rows, t)
CleanupTask(t) == Failed(t) /\ rows' = Gone(rows, t)

Tick ==
    \/ rows.due < Len(rows.ready) /\ rows' = [rows EXCEPT !.due = @ + 1]
    \/ rows.expired < Len(rows.leased) /\ rows' = [rows EXCEPT !.expired = @ + 1]
    \/ \E t \in ToSet(rows.ids) : rows' = [rows EXCEPT !.overdue = @ \cup {t}]

PollingNext ==
    \/ \E locked \in SUBSET Tasks : Poll(locked)
    \/ \E t \in Tasks : SpawnTask(t) \/ EndRun(t) \/ ScheduleRun(t) \/ SuperviseRun(t)
                          \/ RetryTask(t) \/ CancelTask(t) \/ CleanupTask(t)
    \/ Tick

\* Some worker with a free slot polls for ever, every poll_interval at the
\* latest.  Row locks last no longer than the function that took them, so no task
\* is locked at every poll; whatever other rows are locked is left open.
PollingSpec ==
    /\ PollingInit /\ [][PollingNext]_rows
    /\ \A t \in Tasks : WF_rows(\E locked \in SUBSET (Tasks \ {t}) : Poll(locked))

-----------------------------------------------------------------------------
(* Properties.                                                             *)

\* A run whose owner disappeared is reaped by some poll, however many other
\* leases run out meanwhile: the bound on maintenance starves nobody.
OrphansReaped ==
    \A t \in Tasks : t \in ToSet(Expired(rows)) ~> t \notin ToSet(Expired(rows))

\* A due run whose task some worker registered is claimed (or ended) in the end,
\* however much other work arrives, of names nobody registered too.
RunnableClaimed ==
    \A t \in Supported : t \in ToSet(Due(rows)) ~> t \notin ToSet(Due(rows))

\* A task past its cancellation deadline ends, whoever does or does not own it.
DeadlinesEnforced ==
    \A t \in Tasks : t \in rows.overdue \cap ActiveTasks(rows)
                       ~> t \notin rows.overdue \cap ActiveTasks(rows)
=============================================================================
