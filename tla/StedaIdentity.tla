--------------------------- MODULE StedaIdentity ---------------------------
(***************************************************************************)
(* The persisted names of durable operations (src/context.rs): two         *)
(* operations of one task share a checkpoint exactly if their names are    *)
(* equal, so the encoding has to keep apart whatever the API keeps apart.  *)
(* A name is a sequence of bytes; the alphabet has a letter, a digit, a    *)
(* space and the separator of the encodings, the namespaces are one byte   *)
(* each, and so are task ids, which have a fixed length.                   *)
(***************************************************************************)
EXTENDS Naturals, Sequences, SequencesExt

CONSTANTS
    Texts,      \* the names, keys and queues a caller uses
    MaxStored   \* MAX_WORKFLOW_STORAGE_NAME_BYTES (1024)

Letters == {"a", "1", ":"}
Blank == " "

ASSUME IdentityAssumption ==
    /\ Texts \subseteq Seq(Letters \cup {Blank})
    /\ \A text \in Texts : Len(text) <= 9999
    /\ MaxStored \in Nat \ {0}

VARIABLE ran   \* the durable operations of one handler and their stored names

TaskIds == {"x", "y"}

Digits == <<"0", "1", "2", "3", "4", "5", "6", "7", "8", "9">>

\* The digits of a length, without leading zeros.  A name of more than four of
\* them would be longer than any stored name may be.
Digit(n) == Digits[(n % 10) + 1]
Decimal(n) ==
    IF n < 10 THEN <<Digit(n)>>
    ELSE IF n < 100 THEN <<Digit(n \div 10), Digit(n)>>
    ELSE IF n < 1000 THEN <<Digit(n \div 100), Digit(n \div 10), Digit(n)>>
    ELSE <<Digit(n \div 1000), Digit(n \div 100), Digit(n \div 10), Digit(n)>>

\* What identifies an operation for the caller: Step::new(name),
\* step.keyed(key), Sleep::new(name), or a TaskRef's queue and task id.
StepId == [kind : {"$step:", "$sleep:"}, name : Texts]
KeyedId == [kind : {"$step-keyed:"}, name : Texts, key : Texts]
WaitId == [kind : {"$await-task:"}, queue : Texts, id : TaskIds]
Identities == StepId \cup KeyedId \cup WaitId

\* name.trim().is_empty()
IsBlank(text) == \A i \in 1 .. Len(text) : text[i] = Blank

\* No name is stored: the call returns InvalidOptions.
Refused == <<>>

Fitting(stored) == IF Len(stored) > MaxStored THEN Refused ELSE stored

\* workflow_storage_name()
WorkflowStorageName(prefix, name) ==
    IF IsBlank(name) THEN Refused ELSE Fitting(<<prefix>> \o name)

\* Mutant: nothing delimits the length.
UndelimitedStorageName(prefix, name, key) ==
    IF IsBlank(name) \/ IsBlank(key) THEN Refused
    ELSE Fitting(<<prefix>> \o Decimal(Len(name)) \o name \o key)

\* The length of the name goes first.
Measure(name) == Decimal(Len(name)) \o <<":">>

\* keyed_workflow_storage_name()
KeyedWorkflowStorageName(prefix, name, key) ==
    IF IsBlank(name) \/ IsBlank(key) THEN Refused
    ELSE Fitting(<<prefix>> \o Measure(name) \o (name \o key))

\* await_task_ref(): queue names passed validate_queue_name().
TaskWaitName(queue, id) ==
    IF IsBlank(queue) THEN Refused ELSE <<"$await-task:">> \o queue \o <<":", id>>

StorageName(op) ==
    CASE op.kind \in {"$step:", "$sleep:"} -> WorkflowStorageName(op.kind, op.name)
      [] op.kind = "$step-keyed:" -> KeyedWorkflowStorageName(op.kind, op.name, op.key)
      [] op.kind = "$await-task:" -> TaskWaitName(op.queue, op.id)

IdentityInit == ran = <<>>

\* A handler reaches the checkpoint of another operation; two show every clash.
Run(op) ==
    /\ Len(ran) < 2
    /\ ran' = Append(ran, [op |-> op, name |-> StorageName(op)])

IdentityNext == \E op \in Identities : Run(op)

IdentitySpec == IdentityInit /\ [][IdentityNext]_ran

-----------------------------------------------------------------------------
(* Properties.                                                             *)

\* Two operations that are stored under one name are one operation: "arbitrary
\* UTF-8 keys cannot alias another `(name, key)` pair through separator
\* placement" (keyed_workflow_storage_name), and no replay of one step, sleep
\* or wait ever returns the value of another.
NamesAreInjective ==
    \A i, j \in 1 .. Len(ran) :
        ran[i].name = ran[j].name /\ ran[i].name # Refused => ran[i].op = ran[j].op
=============================================================================
