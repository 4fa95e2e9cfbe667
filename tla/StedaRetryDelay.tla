-------------------------- MODULE StedaRetryDelay --------------------------
(***************************************************************************)
(* retry_delay_seconds() (0003_task_submission.sql) over the attempts of   *)
(* one task, in double precision: what the range of the type does to the   *)
(* delay, and what fail_run() then does with it.  Seconds are powers of    *)
(* two, given by their exponents; Zero stands for no seconds at all.       *)
(***************************************************************************)
EXTENDS Integers

CONSTANTS
    MinExponent,    \* the least power of two of a double, negated (1074)
    MaxExponent,    \* the largest (1023)
    Limit,          \* maximum_delay_seconds (31)
    MaxAttempt      \* bound on the attempts looked at

ASSUME RetryDelayAssumption ==
    /\ MinExponent \in Nat /\ MaxExponent \in Nat /\ Limit \in Nat /\ MaxAttempt \in Nat
    /\ 0 < MinExponent /\ Limit < MaxExponent

VARIABLES strategy, attempt

retryVars == <<strategy, attempt>>

Zero == -MinExponent - 1
DelaySeconds == {Zero} \cup -1 .. Limit

Strategies ==
    [kind : {"none"}] \cup [kind : {"fixed"}, base : DelaySeconds]
    \cup [kind : {"exponential"}, base : DelaySeconds, factor : -2 .. 2, max : DelaySeconds]

RetryInit == strategy \in Strategies /\ attempt = 1

\* power() and float8 multiplication raise numeric_value_out_of_range when the
\* result overflows, and also when it underflows to nothing.
Representable(exponent) == exponent \in -MinExponent .. MaxExponent

Least(a, b) == IF a < b THEN a ELSE b

\* Mutant: the handler answers with the delay of the first attempt.
BaseOutOfRange(s, power) ==
    IF Representable(power) /\ Representable(s.base + power) THEN Least(s.base + power, s.max) ELSE s.base

Saturated(s, power) ==
    IF Representable(power) /\ Representable(s.base + power) THEN Least(s.base + power, s.max) ELSE s.max

retry_delay_seconds(s, n) ==
    CASE s.kind = "none" -> Zero
      [] s.kind = "fixed" -> s.base
      [] s.kind = "exponential" ->
           IF s.base = Zero \/ s.max = Zero THEN Zero ELSE Saturated(s, (n - 1) * s.factor)

\* fail_run(): only a strategy other than none makes another attempt.
FailRun ==
    /\ strategy.kind # "none" /\ attempt < MaxAttempt
    /\ attempt' = attempt + 1 /\ strategy' = strategy

RetryNext == FailRun
RetrySpec == RetryInit /\ [][RetryNext]_retryVars

-----------------------------------------------------------------------------
(* Properties.                                                             *)

Unbounded(s, n) == s.base + (n - 1) * s.factor

\* The powers of a factor below one, or the delay they make, are too small for
\* the type.
Underflows(s, n) ==
    s.factor < 0 /\ (~Representable((n - 1) * s.factor) \/ ~Representable(Unbounded(s, n)))

\* Delay growth is saturating (0003:438): the delay of every attempt is the
\* mathematical one, cut off at max_seconds, also where the arithmetic overflows.
\* Where it underflows, after many attempts with a factor below one, the same
\* handler answers: the delay jumps from next to nothing to max_seconds.
DelaySaturates ==
    LET s == strategy
    IN  s.kind = "exponential" /\ s.base # Zero /\ s.max # Zero
        => retry_delay_seconds(s, attempt) =
             IF Underflows(s, attempt) THEN s.max ELSE Least(Unbounded(s, attempt), s.max)
=============================================================================
