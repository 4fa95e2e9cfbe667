---------------------------- MODULE StedaOptions ----------------------------
(***************************************************************************)
(* The options of one submission on their way from the Spawn builder       *)
(* (src/task.rs) through normalize_spawn_options() (src/queue.rs) to the   *)
(* checks of spawn_task() (0003_task_submission.sql), with the widths of   *)
(* the integers on each side.  A Duration is a number of half seconds, of  *)
(* which an odd one stands for any subsecond part.                         *)
(***************************************************************************)
EXTENDS Integers

CONSTANTS
    MaxI32, MaxI64, MaxU32, MaxU64,   \* the integer widths
    Durations,                        \* what callers pass, in half seconds
    Keys,                             \* and the idempotency keys they choose
    SqlSpaces,                        \* what [[:space:]] matches in the database's collation
    DefaultAttempts                   \* coalesce(maximum_attempts, 5)

\* What both layers tell apart in a text.  Collations differ in the no-break
\* space (which str::trim() removes) and in the file separator (which it keeps).
Characters == {"letter", "space", "no-break space", "file separator", "NUL"}

ASSUME WidthAssumption ==
    /\ MaxI32 \in Nat \ {0} /\ MaxI64 \in Nat /\ MaxU32 \in Nat /\ MaxU64 \in Nat
    /\ MaxI32 < MaxI64 /\ MaxI32 < MaxU32 /\ MaxI64 < MaxU64
    /\ Durations \subseteq 0 .. 2 * MaxU64 + 1
    /\ Keys \subseteq [chars : SUBSET Characters, bytes : Nat]
    /\ SqlSpaces \subseteq Characters \ {"letter", "NUL"}
    /\ DefaultAttempts \in 1 .. MaxI32

VARIABLES
    config,   \* SpawnConfig: what the builder collected
    sent,     \* the options bound to spawn_task(), Nothing before, or an error
    stored    \* the columns of the new task, or Nothing

optionsVars == <<config, sent, stored>>

Nothing == [is |-> "nothing"]
InvalidOptions == [is |-> "InvalidOptions"]
Null == -1
OrNull(S) == S \cup {Null}

\* RetryStrategy; a factor is usable or not (zero, negative, infinite, NaN).
NoRetry == [kind |-> "none"]
RetryStrategy ==
    {NoRetry}
    \cup [kind : {"fixed"}, base : Durations]
    \cup [kind : {"exponential"}, base : Durations, factor : {"usable", "unusable"},
          max : OrNull(Durations)]

CancellationPolicy == [max_delay : OrNull(Durations), max_duration : OrNull(Durations)]

DefaultConfig ==
    [max_attempts |-> Null, retry_strategy |-> Nothing, headers |-> "none",
     cancellation |-> Nothing, idempotency_key |-> Nothing]

OptionsInit == config = DefaultConfig /\ sent = Nothing /\ stored = Nothing

-----------------------------------------------------------------------------
(* The Spawn builder: each call replaces what the last one set.            *)

Configure(field, value) ==
    /\ sent = Nothing
    /\ config' = [config EXCEPT ![field] = value]
    /\ UNCHANGED <<sent, stored>>

BuildOptions ==
    \/ \E n \in 0 .. MaxU32 : Configure("max_attempts", n)
    \/ \E strategy \in RetryStrategy : Configure("retry_strategy", strategy)
    \/ \E headers \in {"empty", "some", "NUL"} : Configure("headers", headers)
    \/ \E policy \in CancellationPolicy : Configure("cancellation", policy)
    \/ \E key \in Keys : Configure("idempotency_key", key)

-----------------------------------------------------------------------------
(* normalize_spawn_options().                                              *)

\* validate_retry_delay(): compared as a fraction, not rounded.
ValidDelay(d) == d <= 2 * MaxI32

\* validate_retry_strategy()
ValidStrategy(s) ==
    s # Nothing =>
        /\ s.kind \in {"fixed", "exponential"} => ValidDelay(s.base)
        /\ s.kind = "exponential" => s.factor = "usable" /\ ValidDelay(s.max)

\* database_positive_i32()
ValidAttempts(n) == n = Null \/ n \in 1 .. MaxI32

\* str::trim() removes the White_Space of Unicode.
Trimmed(key) == key.chars \ {"space", "no-break space"}

\* MAX_IDEMPOTENCY_KEY_BYTES
MaxKeyBytes == 1024

ValidKey(key) == key # Nothing => Trimmed(key) # {} /\ key.bytes <= MaxKeyBytes

\* as_secs() plus one for a subsecond part.
SecondsRoundedUp(d) == (d \div 2) + (d % 2)

\* duration_seconds_i64(): checked_add, then the signed range.
ValidDeadline(d) ==
    d = Null \/ (SecondsRoundedUp(d) <= MaxU64 /\ SecondsRoundedUp(d) <= MaxI64)

ValidCancellation(policy) ==
    policy # Nothing => ValidDeadline(policy.max_delay) /\ ValidDeadline(policy.max_duration)

\* Mutant: cancellation deadlines are not compared with the signed range.
AcceptedBeyondBigint(c) ==
    /\ ValidAttempts(c.max_attempts)
    /\ ValidStrategy(c.retry_strategy)
    /\ ValidKey(c.idempotency_key)

Accepted(c) ==
    /\ ValidAttempts(c.max_attempts)
    /\ ValidStrategy(c.retry_strategy)
    /\ ValidKey(c.idempotency_key)
    /\ ValidCancellation(c.cancellation)

Seconds(d) == IF d = Null THEN Null ELSE SecondsRoundedUp(d)

\* A policy without deadlines is left out of the payload.
CancellationJson(policy) ==
    IF policy = Nothing \/ policy = [max_delay |-> Null, max_duration |-> Null]
    THEN Nothing
    ELSE [maxDelay |-> Seconds(policy.max_delay), maxDuration |-> Seconds(policy.max_duration)]

\* So are headers that are empty.
HeadersJson(headers) == IF headers = "empty" THEN "none" ELSE headers

Payload(c) ==
    [is |-> "payload", maxAttempts |-> c.max_attempts, retryStrategy |-> c.retry_strategy,
     headers |-> HeadersJson(c.headers), cancellation |-> CancellationJson(c.cancellation),
     idempotencyKey |-> c.idempotency_key]

Normalize ==
    /\ sent = Nothing
    /\ sent' = IF Accepted(config) THEN Payload(config) ELSE InvalidOptions
    /\ UNCHANGED <<config, stored>>

-----------------------------------------------------------------------------
(* spawn_task().                                                           *)

\* retry_delay_seconds(strategy, 1) raises for anything else.
StorableStrategy(s) ==
    s # Nothing =>
        /\ s.kind \in {"fixed", "exponential"} => s.base \in 0 .. 2 * MaxI32
        /\ s.kind = "exponential" => s.factor = "usable" /\ s.max \in OrNull(0 .. 2 * MaxI32)

\* validate_cancellation_policy(): an object, and not an empty one.
StorableCancellation(policy) ==
    policy # Nothing =>
        /\ policy # [maxDelay |-> Null, maxDuration |-> Null]
        /\ policy.maxDelay \in OrNull(0 .. MaxI64)
        /\ policy.maxDuration \in OrNull(0 .. MaxI64)

\* The type jsonb has no NUL in its strings, or the options are not decoded.
Decodable(options) ==
    /\ options.headers # "NUL"
    /\ options.idempotencyKey # Nothing => "NUL" \notin options.idempotencyKey.chars

\* idempotency_key ~ '^[[:space:]]*$', and its octet_length()
StorableKey(key) == key # Nothing => ~(key.chars \subseteq SqlSpaces) /\ key.bytes <= 1024

Storable(options) ==
    /\ Decodable(options)
    /\ options.maxAttempts \in OrNull(1 .. MaxI32)
    /\ StorableStrategy(options.retryStrategy)
    /\ StorableCancellation(options.cancellation)
    /\ StorableKey(options.idempotencyKey)

Row(options) ==
    [max_attempts |-> IF options.maxAttempts = Null THEN DefaultAttempts ELSE options.maxAttempts,
     retry_strategy |-> IF options.retryStrategy = Nothing THEN [kind |-> "default"]
                        ELSE options.retryStrategy,
     headers |-> options.headers, cancellation |-> options.cancellation,
     idempotency_key |-> options.idempotencyKey]

SpawnTask ==
    /\ sent \notin {Nothing, InvalidOptions}
    /\ stored = Nothing
    /\ Storable(sent)
    /\ stored' = Row(sent)
    /\ UNCHANGED <<config, sent>>

OptionsNext == BuildOptions \/ Normalize \/ SpawnTask

OptionsSpec == OptionsInit /\ [][OptionsNext]_optionsVars

-----------------------------------------------------------------------------
(* Properties.                                                             *)

\* What reaches the database and the row has the shape of the columns.
OptionsTypeOK ==
    /\ config.max_attempts \in OrNull(0 .. MaxU32)
    /\ config.retry_strategy \in RetryStrategy \cup {Nothing}
    /\ config.cancellation \in CancellationPolicy \cup {Nothing}
    /\ config.idempotency_key \in Keys \cup {Nothing}
    /\ stored # Nothing => /\ stored.max_attempts \in 1 .. MaxI32
                           /\ stored.headers \in {"none", "some"}

\* The caller's texts that the layers judge differently: a NUL, which only the
\* database refuses, and a key that is blank for one of them alone.
HasNul(c) ==
    c.headers = "NUL" \/ (c.idempotency_key # Nothing /\ "NUL" \in c.idempotency_key.chars)

DisputedKey(c) ==
    /\ c.idempotency_key # Nothing
    /\ (Trimmed(c.idempotency_key) = {}) # (c.idempotency_key.chars \subseteq SqlSpaces)

\* A deadline is kept to the second, and never earlier than it was asked for.
Kept(asked, seconds) ==
    IF asked = Null THEN seconds = Null
    ELSE asked <= 2 * seconds /\ 2 * seconds < asked + 2

DeadlinesKept(policy, json) ==
    IF policy = Nothing \/ policy = [max_delay |-> Null, max_duration |-> Null] THEN json = Nothing
    ELSE Kept(policy.max_delay, json.maxDelay) /\ Kept(policy.max_duration, json.maxDuration)

\* The two layers agree on every boundary.  Options that normalize_spawn_options()
\* accepts are never refused by spawn_task(), so that a mistake of the caller in
\* a number, a duration, a factor or the length of a key is an InvalidOptions and
\* not a database error; options it refuses would not have been storable; and the
\* row has the deadlines that were asked for.  They disagree about two things: a
\* NUL in a header or key is only refused by the database, and a key of spaces
\* that only one layer knows is refused by that layer alone.
LayersAgree ==
    /\ OptionsTypeOK
    /\ sent \notin {Nothing, InvalidOptions} /\ ~Storable(sent)
         => HasNul(config) \/ DisputedKey(config)
    /\ sent = InvalidOptions /\ Storable(Payload(config)) => DisputedKey(config)
    /\ stored # Nothing => DeadlinesKept(config.cancellation, stored.cancellation)
=============================================================================
