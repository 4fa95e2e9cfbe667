------------------------ MODULE StedaSettingsProofs ------------------------
(***************************************************************************)
(* Theorems about the five small modules that share no state: what callers *)
(* name and configure (StedaIdentity, StedaOptions, StedaBuilder), what    *)
(* the retry delay becomes over the attempts of a task (StedaRetryDelay),  *)
(* and how supervision keeps a lease (StedaCadence).                       *)
(***************************************************************************)
EXTENDS StedaIdentity, StedaOptions, StedaRetryDelay, StedaBuilder, StedaCadence,
        SequenceTheorems, TLAPS

-----------------------------------------------------------------------------
(* StedaCadence: LeaseKept and ObservedEverySecond for every lease duration *)
(* and latency.  Both need to know how old the lease and the last          *)
(* observation can be at the moment the message or the sleep under way is  *)
(* over: that age plus the timer does not change while time passes.        *)


\* Ticks since the last renewal, at the moment the timer runs out.
Due == Lease - left + timer

\* The messages from the claim to the start of the handler.
Opening ==
    /\ pc = "claimed" => answers = 0 /\ Due <= latency
    /\ pc = "request" /\ answers = 0 => Due <= 2 * latency
    /\ pc = "reply" /\ answers = 1 => Due <= 3 * latency
    /\ pc = "load" => Due <= 4 * latency
    /\ pc = "loaded" => Due <= 5 * latency

\* The phases of a lease no longer than two seconds, whose interval is half of
\* it: every sleep ends in the renewal window.
ShortLease ==
    half <= Second =>
        /\ pc = "request" /\ answers # 0 => half <= Due /\ Due <= half + 6 * latency
        /\ pc = "reply" => Due <= 3 * latency
        /\ pc = "sleeping" => half <= Due /\ Due <= half + 5 * latency

\* The phases of a longer lease: a renewal window missed by a little is open
\* for more than one interval.
LongLease ==
    ~(half <= Second) =>
        /\ pc = "request" => Due < half + 2 * latency + Second
        /\ pc = "reply" => Due < half + latency
        /\ pc = "sleeping" => Due < half + latency + Second

\* The answers there are at each stage.
Stage ==
    /\ pc \in {"reply", "sleeping"} => answers # 0
    /\ pc = "claimed" => answers = 0
    /\ pc \in {"load", "loaded"} => answers = 1

\* When supervise_run() is executed next.
Heard ==
    /\ pc = "claimed" => silent + timer <= latency
    /\ pc = "request" /\ answers = 0 => silent + timer <= 2 * latency
    /\ pc = "reply" => silent + timer <= latency
    /\ pc = "load" => silent + timer <= 2 * latency
    /\ pc = "loaded" => silent + timer <= 3 * latency
    /\ pc = "sleeping" => silent + timer <= Interval + (IF answers = 2 THEN 1 ELSE 3) * latency
    /\ pc \in {"request", "lost"} =>
         silent + timer <= Interval + (IF answers = 2 THEN 2 ELSE 4) * latency

LeaseInv == InTime => pc # "lost" /\ Opening /\ ShortLease /\ LongLease

CadenceInv == CadenceTypeOK /\ Stage /\ Heard /\ LeaseInv

-----------------------------------------------------------------------------
\* The constants that a state has chosen are numbers.
LEMMA Numbers ==
    ASSUME CadenceTypeOK
    PROVE  /\ half \in Nat /\ half > 0 /\ latency \in Nat
           /\ left \in Nat /\ timer \in Nat /\ silent \in Nat
           /\ Second \in Nat /\ Second > 0
           /\ left <= 2 * half
BY CadenceAssumption DEF CadenceTypeOK, Lease

\* A message takes no longer than the latency.
LEMMA MessageTime ==
    ASSUME CadenceTypeOK, FirstRequest \/ Ask \/ RequestContext \/ LoadContext \/ Wake
    PROVE  \E m \in Nat : m <= latency /\ timer' = m
<1>1. latency \in Nat
  BY Numbers
<1>2. timer' \in 0 .. latency
  BY DEF FirstRequest, Ask, RequestContext, LoadContext, Wake, Send
<1> QED
  BY <1>1, <1>2

\* The claim leaves a lease that is as old as its rows are late.
LEMMA InitInv == CadenceInit => CadenceInv
<1> SUFFICES ASSUME CadenceInit PROVE CadenceInv
  OBVIOUS
<1>1. CadenceTypeOK
  BY CadenceAssumption DEF CadenceInit, CadenceTypeOK, Lease
<1>2. Stage /\ Heard
  BY <1>1, Numbers DEF CadenceInit, Stage, Heard, Interval, Lease
<1>3. LeaseInv
  BY <1>1, Numbers DEF CadenceInit, LeaseInv, Opening, ShortLease, LongLease, Due, Lease, InTime
<1> QED
  BY <1>1, <1>2, <1>3 DEF CadenceInv

\* Every step keeps the types: a renewal never makes a lease longer than Lease.
LEMMA TypeStep ==
    CadenceTypeOK /\ Stage /\ [CadenceNext]_cadenceVars => CadenceTypeOK' /\ Stage'
<1> SUFFICES ASSUME CadenceTypeOK, Stage, [CadenceNext]_cadenceVars
             PROVE  CadenceTypeOK' /\ Stage'
  OBVIOUS
<1>0. half \in Nat /\ latency \in Nat /\ left \in Nat /\ timer \in Nat /\ silent \in Nat
  BY Numbers
<1>1. CASE Tick
  BY <1>0, <1>1 DEF Tick, CadenceTypeOK, Stage, Lease
<1>2. CASE FirstRequest
  BY <1>0, <1>2 DEF FirstRequest, Send, CadenceTypeOK, Stage, Lease
<1>3. CASE Ask
  BY <1>0, <1>3 DEF Ask, Send, CadenceTypeOK, Stage, Lease, Renewed
<1>4. CASE RequestContext
  BY <1>0, <1>4 DEF RequestContext, Send, CadenceTypeOK, Stage, Lease
<1>5. CASE LoadContext
  BY <1>0, <1>5 DEF LoadContext, Send, CadenceTypeOK, Stage, Lease
<1>6. CASE Lose
  BY <1>0, <1>6 DEF Lose, CadenceTypeOK, Stage, Lease
<1>7. CASE Sleep
  <2>1. Interval \in Nat
    BY <1>0, CadenceAssumption DEF Interval
  <2> QED
    BY <1>0, <1>7, <2>1 DEF Sleep, CadenceTypeOK, Stage, Lease
<1>8. CASE Wake
  BY <1>0, <1>8 DEF Wake, Send, CadenceTypeOK, Stage, Lease
<1>9. CASE UNCHANGED cadenceVars
  BY <1>9 DEF cadenceVars, CadenceTypeOK, Stage, Lease
<1> QED
  BY <1>1, <1>2, <1>3, <1>4, <1>5, <1>6, <1>7, <1>8, <1>9 DEF CadenceNext

\* Every step keeps the time until supervise_run() is executed next.
LEMMA HeardStep ==
    CadenceTypeOK /\ Stage /\ Heard /\ [CadenceNext]_cadenceVars => Heard'
<1> SUFFICES ASSUME CadenceTypeOK, Stage, Heard, [CadenceNext]_cadenceVars PROVE Heard'
  OBVIOUS
<1>0. /\ half \in Nat /\ latency \in Nat /\ timer \in Nat /\ silent \in Nat
      /\ Second \in Nat /\ Interval \in Nat /\ answers \in 0 .. 2
  BY Numbers DEF Interval, CadenceTypeOK
<1>a. half' = half /\ latency' = latency /\ Interval' = Interval
  BY DEF CadenceNext, Tick, FirstRequest, Ask, RequestContext, LoadContext, Lose, Sleep, Wake,
         cadenceVars, Interval
<1>1. CASE Tick
  <2>1. pc' = pc /\ timer' = timer - 1 /\ silent' = silent + 1 /\ answers' = answers
    BY <1>1 DEF Tick
  <2>2. silent' + timer' = silent + timer
    BY <1>0, <2>1
  <2> QED
    BY <1>a, <2>1, <2>2 DEF Heard
<1>2. CASE FirstRequest
  <2>1. PICK m \in Nat : m <= latency /\ timer' = m
    BY <1>2, MessageTime
  <2>2. /\ pc = "claimed" /\ timer = 0 /\ pc' = "request" /\ silent' = silent
        /\ answers = 0 /\ answers' = 0
    BY <1>2 DEF FirstRequest, Send, Stage
  <2>3. silent + m <= 2 * latency /\ silent + m <= Interval + 4 * latency
    BY <1>0, <2>1, <2>2 DEF Heard
  <2> QED
    BY <1>a, <2>1, <2>2, <2>3 DEF Heard
<1>3. CASE Ask
  <2>1. PICK m \in Nat : m <= latency /\ timer' = m
    BY <1>3, MessageTime
  <2>2. pc' = "reply" /\ silent' = 0
    BY <1>3 DEF Ask, Send
  <2>3. 0 + m <= latency
    BY <1>0, <2>1
  <2> QED
    BY <1>a, <2>1, <2>2, <2>3 DEF Heard
<1>4. CASE RequestContext
  <2>1. PICK m \in Nat : m <= latency /\ timer' = m
    BY <1>4, MessageTime
  <2>2. pc = "reply" /\ timer = 0 /\ pc' = "load" /\ silent' = silent
    BY <1>4 DEF RequestContext, Send
  <2>3. silent + m <= 2 * latency
    BY <1>0, <2>1, <2>2 DEF Heard
  <2> QED
    BY <1>a, <2>1, <2>2, <2>3 DEF Heard
<1>5. CASE LoadContext
  <2>1. PICK m \in Nat : m <= latency /\ timer' = m
    BY <1>5, MessageTime
  <2>2. pc = "load" /\ timer = 0 /\ pc' = "loaded" /\ silent' = silent
    BY <1>5 DEF LoadContext, Send
  <2>3. silent + m <= 3 * latency
    BY <1>0, <2>1, <2>2 DEF Heard
  <2> QED
    BY <1>a, <2>1, <2>2, <2>3 DEF Heard
<1>6. CASE Lose
  <2>1. /\ pc \in {"request", "load"} /\ pc' = "lost" /\ UNCHANGED <<timer, answers, silent>>
    BY <1>6 DEF Lose
  <2>2. silent + timer <= Interval + (IF answers = 2 THEN 2 ELSE 4) * latency
    <3>1. CASE pc = "request"
      BY <3>1 DEF Heard
    <3>2. CASE pc = "load"
      <4>1. answers = 1 /\ silent + timer <= 2 * latency
        BY <3>2 DEF Heard, Stage
      <4> QED BY <1>0, <4>1
    <3> QED BY <2>1, <3>1, <3>2
  <2> QED
    BY <1>a, <2>1, <2>2 DEF Heard
<1>7. CASE Sleep
  <2>1. timer = 0 /\ pc' = "sleeping" /\ timer' = Interval /\ UNCHANGED <<answers, silent>>
    BY <1>7 DEF Sleep
  <2>2. \/ answers = 1 /\ silent <= 3 * latency
        \/ answers = 2 /\ silent <= latency
    BY <1>0, <1>7, <2>1 DEF Sleep, Heard, Stage
  <2>3. silent + Interval <= Interval + (IF answers = 2 THEN 1 ELSE 3) * latency
    BY <1>0, <2>2
  <2> QED
    BY <1>a, <2>1, <2>3 DEF Heard
<1>8. CASE Wake
  <2>1. PICK m \in Nat : m <= latency /\ timer' = m
    BY <1>8, MessageTime
  <2>2. /\ pc = "sleeping" /\ timer = 0 /\ pc' = "request" /\ silent' = silent
        /\ answers' = answers /\ answers # 0
    BY <1>8 DEF Wake, Send, Stage
  <2>3. silent <= Interval + (IF answers = 2 THEN 1 ELSE 3) * latency
    BY <1>0, <2>2 DEF Heard
  <2>4. silent + m <= Interval + (IF answers = 2 THEN 2 ELSE 4) * latency
    BY <1>0, <2>1, <2>3
  <2> QED
    BY <1>a, <2>1, <2>2, <2>4 DEF Heard
<1>9. CASE UNCHANGED cadenceVars
  BY <1>9 DEF cadenceVars, Heard, Interval
<1> QED
  BY <1>1, <1>2, <1>3, <1>4, <1>5, <1>6, <1>7, <1>8, <1>9 DEF CadenceNext

\* With messages in time, the age the lease will have when the timer runs out
\* stays below Lease.
LEMMA DueBound ==
    ASSUME CadenceTypeOK, LeaseInv, InTime
    PROVE  Due < Lease
<1>1. /\ half \in Nat /\ half > 0 /\ latency \in Nat /\ left \in Nat
      /\ timer \in Nat /\ Second \in Nat
  BY Numbers
<1>2. pc \in {"claimed", "request", "reply", "load", "loaded", "sleeping"} /\ answers \in 0 .. 2
  BY DEF CadenceTypeOK, LeaseInv
<1>3. Opening /\ ShortLease /\ LongLease
  BY DEF LeaseInv
<1>4. CASE pc \in {"claimed", "load", "loaded"}
  BY <1>1, <1>3, <1>4 DEF Opening, Due, Lease, InTime
<1>5. CASE pc = "request" /\ answers = 0
  BY <1>1, <1>3, <1>5 DEF Opening, Due, Lease, InTime
<1>6. CASE pc \in {"reply", "sleeping"} \/ (pc = "request" /\ answers # 0)
  BY <1>1, <1>3, <1>6 DEF ShortLease, LongLease, Due, Lease, InTime
<1> QED
  BY <1>2, <1>4, <1>5, <1>6

\* Every step keeps the age of the lease within its phase.
LEMMA LeaseStep ==
    CadenceTypeOK /\ Stage /\ LeaseInv /\ [CadenceNext]_cadenceVars => LeaseInv'
<1> SUFFICES ASSUME CadenceTypeOK, Stage, LeaseInv, [CadenceNext]_cadenceVars, InTime'
             PROVE  (pc # "lost" /\ Opening /\ ShortLease /\ LongLease)'
  BY DEF LeaseInv
<1>0. /\ half \in Nat /\ half > 0 /\ latency \in Nat /\ left \in Nat
      /\ timer \in Nat /\ Second \in Nat /\ left <= 2 * half
  BY Numbers
<1>a. half' = half /\ latency' = latency
  BY DEF CadenceNext, Tick, FirstRequest, Ask, RequestContext, LoadContext, Lose, Sleep, Wake,
         cadenceVars
<1>b. InTime /\ Opening /\ ShortLease /\ LongLease
  BY <1>a DEF InTime, LeaseInv
<1>c. Due < Lease
  BY <1>b, DueBound
<1>d. left > timer
  BY <1>0, <1>c DEF Due, Lease
<1>e. 4 * latency < half
  BY <1>0, <1>b DEF InTime
<1>1. CASE Tick
  <2>1. Due' = Due
    BY <1>0, <1>1, <1>d DEF Tick, Due, Lease
  <2> QED
    BY <1>1, <1>a, <1>b, <2>1 DEF Tick, LeaseInv, Opening, ShortLease, LongLease
<1>2. CASE FirstRequest
  <2>1. PICK m \in Nat : m <= latency /\ timer' = m
    BY <1>2, MessageTime
  <2>2. pc = "claimed" /\ timer = 0 /\ pc' = "request" /\ left' = left /\ answers' = 0
    BY <1>2 DEF FirstRequest, Send, Stage
  <2>3. 2 * half - left + m <= 2 * latency
    BY <1>0, <1>b, <2>1, <2>2 DEF Opening, Due, Lease
  <2>4. 2 * half - left + m < half + 2 * latency + Second
    BY <1>0, <2>1, <2>3
  <2> QED
    BY <1>a, <2>1, <2>2, <2>3, <2>4 DEF Opening, ShortLease, LongLease, Due, Lease
<1>3. CASE Ask
  <2>1. PICK m \in Nat : m <= latency /\ timer' = m
    BY <1>3, MessageTime
  <2>2. pc = "request" /\ timer = 0 /\ pc' = "reply" /\ (answers' = 1 => answers = 0)
    BY <1>3 DEF Ask, Send
  <2>3. CASE RenewalDue
    <3>1. left' = 2 * half
      BY <1>3, <2>3 DEF Ask, Renewed, Lease
    <3>2. 2 * half - 2 * half + m <= 3 * latency /\ 2 * half - 2 * half + m < half + latency
      BY <1>0, <2>1
    <3> QED
      BY <1>a, <2>1, <2>2, <3>1, <3>2 DEF Opening, ShortLease, LongLease, Due, Lease
  <2>4. CASE ~RenewalDue
    <3>1. left' = left /\ half < left
      BY <1>0, <1>3, <2>4 DEF Ask, RenewalDue
    <3>2. half <= Second \/ answers = 0 => 2 * half - left + m <= 3 * latency
      BY <1>0, <1>b, <2>1, <2>2, <3>1 DEF Opening, ShortLease, Due, Lease
    <3>3. 2 * half - left + m < half + latency
      BY <1>0, <2>1, <3>1
    <3> QED
      BY <1>a, <2>1, <2>2, <3>1, <3>2, <3>3 DEF Opening, ShortLease, LongLease, Due, Lease
  <2> QED
    BY <2>3, <2>4
<1>4. CASE RequestContext
  <2>1. PICK m \in Nat : m <= latency /\ timer' = m
    BY <1>4, MessageTime
  <2>2. pc = "reply" /\ answers = 1 /\ timer = 0 /\ pc' = "load" /\ left' = left
    BY <1>4 DEF RequestContext, Send
  <2>3. 2 * half - left + m <= 4 * latency
    BY <1>0, <1>b, <2>1, <2>2 DEF Opening, Due, Lease
  <2> QED
    BY <1>a, <2>1, <2>2, <2>3 DEF Opening, ShortLease, LongLease, Due, Lease
<1>5. CASE LoadContext
  <2>1. PICK m \in Nat : m <= latency /\ timer' = m
    BY <1>5, MessageTime
  <2>2. pc = "load" /\ timer = 0 /\ pc' = "loaded" /\ left' = left
    BY <1>5 DEF LoadContext, Send
  <2>3. 2 * half - left + m <= 5 * latency
    BY <1>0, <1>b, <2>1, <2>2 DEF Opening, Due, Lease
  <2> QED
    BY <1>a, <2>1, <2>2, <2>3 DEF Opening, ShortLease, LongLease, Due, Lease
<1>6. CASE Lose
  BY <1>0, <1>6, <1>d DEF Lose
<1>7. CASE Sleep
  <2>1. timer = 0 /\ pc' = "sleeping" /\ timer' = Interval /\ left' = left
    BY <1>7 DEF Sleep
  <2>2. /\ half <= Second => 2 * half - left <= 5 * latency
        /\ ~(half <= Second) => 2 * half - left < half + latency
    BY <1>0, <1>7, <1>b, <1>e, <2>1 DEF Sleep, Opening, ShortLease, LongLease, Due, Lease
  <2>3. /\ half <= Second => /\ half <= 2 * half - left + Interval
                             /\ 2 * half - left + Interval <= half + 5 * latency
        /\ ~(half <= Second) => 2 * half - left + Interval < half + latency + Second
    BY <1>0, <2>2 DEF Interval
  <2> QED
    BY <1>a, <2>1, <2>3 DEF Opening, ShortLease, LongLease, Due, Lease
<1>8. CASE Wake
  <2>1. PICK m \in Nat : m <= latency /\ timer' = m
    BY <1>8, MessageTime
  <2>2. /\ pc = "sleeping" /\ timer = 0 /\ pc' = "request" /\ left' = left
        /\ answers' = answers /\ answers # 0
    BY <1>8 DEF Wake, Send, Stage
  <2>3. half <= Second => /\ half <= 2 * half - left + m
                          /\ 2 * half - left + m <= half + 6 * latency
    BY <1>0, <1>b, <2>1, <2>2 DEF ShortLease, Due, Lease
  <2>4. ~(half <= Second) => 2 * half - left + m < half + 2 * latency + Second
    BY <1>0, <1>b, <2>1, <2>2 DEF LongLease, Due, Lease
  <2> QED
    BY <1>a, <2>1, <2>2, <2>3, <2>4 DEF Opening, ShortLease, LongLease, Due, Lease
<1>9. CASE UNCHANGED cadenceVars
  <2>1. pc' = pc /\ answers' = answers /\ Due' = Due
    BY <1>9 DEF cadenceVars, Due, Lease
  <2> QED
    BY <1>a, <1>b, <2>1, Zenon DEF LeaseInv, Opening, ShortLease, LongLease
<1> QED
  BY <1>1, <1>2, <1>3, <1>4, <1>5, <1>6, <1>7, <1>8, <1>9 DEF CadenceNext

\* The strengthened invariant holds of every reachable state.
THEOREM Invariance == CadenceSpec => []CadenceInv
<1>1. CadenceInv /\ [CadenceNext]_cadenceVars => CadenceInv'
  BY TypeStep, HeardStep, LeaseStep, Zenon DEF CadenceInv
<1> QED
  BY InitInv, <1>1, PTL DEF CadenceSpec

\* For every lease duration and latency in time for it, a live worker's lease
\* never runs out: the cadence of supervise_execution() and the renewal window
\* of supervise_run() fit together.
THEOREM LeaseKeptHolds == CadenceSpec => []LeaseKept
<1>1. CadenceInv => LeaseKept
  <2> SUFFICES ASSUME CadenceInv, InTime PROVE left > 0 /\ pc # "lost"
    BY DEF LeaseKept
  <2>1. half \in Nat /\ left \in Nat /\ timer \in Nat
    BY Numbers DEF CadenceInv
  <2>2. Due < Lease
    BY DueBound DEF CadenceInv
  <2> QED
    BY <2>1, <2>2 DEF Due, Lease, CadenceInv, LeaseInv
<1> QED
  BY Invariance, <1>1, PTL

\* For every lease duration and latency, supervise_run() is executed for a live
\* attempt within a second and two messages of the last time, or a second and
\* four messages of the first.
THEOREM ObservedEverySecondHolds == CadenceSpec => []ObservedEverySecond
<1>1. CadenceInv => ObservedEverySecond
  <2> SUFFICES ASSUME CadenceInv PROVE ObservedEverySecond
    OBVIOUS
  <2>1. /\ half \in Nat /\ latency \in Nat /\ timer \in Nat /\ silent \in Nat
        /\ Second \in Nat
    BY Numbers DEF CadenceInv
  <2>2. Interval \in Nat /\ Interval <= Second
    BY <2>1 DEF Interval
  <2>3. answers \in 0 .. 2 /\ Heard /\ Stage
    BY DEF CadenceInv, CadenceTypeOK
  <2>4. pc \in {"claimed", "request", "reply", "load", "loaded", "sleeping", "lost"}
    BY DEF CadenceInv, CadenceTypeOK
  <2>5. silent <= Interval + (IF answers = 2 THEN 2 ELSE 4) * latency
    <3>1. CASE pc \in {"claimed", "reply"}
      BY <2>1, <2>2, <3>1, <2>3 DEF Heard
    <3>2. CASE pc \in {"load", "loaded"}
      BY <2>1, <2>2, <3>2, <2>3 DEF Heard, Stage
    <3>3. CASE pc = "sleeping"
      BY <2>1, <2>2, <3>3, <2>3 DEF Heard
    <3>4. CASE pc \in {"request", "lost"}
      BY <2>1, <2>2, <3>4, <2>3 DEF Heard
    <3> QED BY <2>4, <3>1, <3>2, <3>3, <3>4
  <2> QED
    BY <2>1, <2>2, <2>3, <2>5 DEF ObservedEverySecond
<1> QED
  BY Invariance, <1>1, PTL

-----------------------------------------------------------------------------
(* StedaBuilder.                                                           *)

\* Every error the builder defers.
BuilderErrors ==
    {"none", "lease too short", "lease too long", "no concurrency", "concurrency too large",
     "bad name", "registered twice"}

\* What the builder collected can run, and it holds an error once a call was
\* invalid.
BuilderGood ==
    /\ builder \in [registry : [TaskNames -> Handlers \cup {Unset}], lease : Nat,
                    concurrency : Nat, error : BuilderErrors]
    /\ refused => builder.error # "none"
    /\ DurationSeconds(builder.lease) \in 1 .. LargestI32
    /\ builder.concurrency \in 1 .. LargestI32

BuilderInv == BuilderGood /\ BuiltWorkersRun

\* An accepted lease has whole seconds the database can store.
LEMMA AcceptedLease ==
    ASSUME NEW d \in Nat, LeaseError(d) = "none"
    PROVE  DurationSeconds(d) \in 1 .. LargestI32
<1>1. DurationSeconds(d) \in Int /\ DurationSeconds(d) <= LargestI32 /\ DurationSeconds(d) >= -1
  BY BuilderAssumption DEF DurationSeconds
<1>2. DurationSeconds(d) # 0 /\ DurationSeconds(d) # -1
  BY DEF LeaseError
<1>. QED BY <1>1, <1>2, BuilderAssumption

\* An accepted concurrency fits the size of a claim.
LEMMA AcceptedConcurrency ==
    ASSUME NEW n \in Nat, ConcurrencyError(n) = "none"
    PROVE  n \in 1 .. LargestI32
BY BuilderAssumption DEF ConcurrencyError

\* A call keeps the builder good: it changes nothing, or records an error, or
\* stores a value that was checked.
LEMMA StepKeepsGood ==
    ASSUME BuilderInv, NEW error \in BuilderErrors, NEW accepted, Step(error, accepted),
           error = "none" =>
               /\ accepted \in [registry : [TaskNames -> Handlers \cup {Unset}], lease : Nat,
                                concurrency : Nat, error : BuilderErrors]
               /\ accepted.error = builder.error
               /\ DurationSeconds(accepted.lease) \in 1 .. LargestI32
               /\ accepted.concurrency \in 1 .. LargestI32
    PROVE  BuilderInv'
<1>1. worker' = worker /\ worker.is # "worker"
  BY DEF Step, NoWorkerYet
<1>2. BuiltWorkersRun'
  BY <1>1 DEF BuiltWorkersRun
<1>3. refused' => refused \/ error # "none"
  BY DEF Step
<1>4. CASE builder.error # "none"
  <2>1. builder' = builder
    BY <1>4 DEF Step
  <2> QED BY <1>2, <1>4, <2>1 DEF BuilderInv, BuilderGood, DurationSeconds
<1>5. CASE builder.error = "none" /\ error # "none"
  <2>1. builder' = [builder EXCEPT !.error = error]
    BY <1>5 DEF Step
  <2>2. /\ builder' \in [registry : [TaskNames -> Handlers \cup {Unset}], lease : Nat,
                         concurrency : Nat, error : BuilderErrors]
        /\ builder'.error = error /\ builder'.lease = builder.lease
        /\ builder'.concurrency = builder.concurrency
    BY <2>1 DEF BuilderInv, BuilderGood
  <2> QED BY <1>2, <1>5, <2>2 DEF BuilderInv, BuilderGood, DurationSeconds
<1>6. CASE builder.error = "none" /\ error = "none"
  <2>1. builder' = accepted
    BY <1>6 DEF Step
  <2>2. ~refused'
    BY <1>3, <1>6 DEF BuilderInv, BuilderGood
  <2> QED BY <1>2, <1>6, <2>1, <2>2 DEF BuilderInv, BuilderGood, DurationSeconds
<1> QED BY <1>4, <1>5, <1>6

\* The new builder is good: its lease is two minutes and its concurrency one.
LEMMA NewBuilderGood == BuilderInit => BuilderInv
<1> SUFFICES ASSUME BuilderInit PROVE BuilderInv
  OBVIOUS
<1>1. DurationSeconds(240) = 120
  BY BuilderAssumption DEF DurationSeconds
<1>2. /\ builder \in [registry : [TaskNames -> Handlers \cup {Unset}], lease : Nat,
                      concurrency : Nat, error : BuilderErrors]
      /\ builder.lease = 240 /\ builder.concurrency = 1
  BY DEF BuilderInit, NewBuilder, BuilderErrors
<1>3. worker.is # "worker" /\ ~refused
  BY DEF BuilderInit, NoWorkerYet
<1> QED
  BY <1>1, <1>2, <1>3, BuilderAssumption DEF BuilderInv, BuilderGood, BuiltWorkersRun

\* Every call keeps the builder good, and build() makes a worker of a good one.
LEMMA BuilderStep == BuilderInv /\ [BuilderNext]_builderVars => BuilderInv'
<1> SUFFICES ASSUME BuilderInv, [BuilderNext]_builderVars PROVE BuilderInv'
  OBVIOUS
<1>1. ASSUME NEW d \in LeaseDurations, LeaseDuration(d) PROVE BuilderInv'
  <2>1. d \in Nat
    BY BuilderAssumption
  <2>2. LeaseError(d) \in BuilderErrors
    BY DEF LeaseError, BuilderErrors
  <2> DEFINE accepted == [builder EXCEPT !.lease = d]
  <2>3. /\ accepted \in [registry : [TaskNames -> Handlers \cup {Unset}], lease : Nat,
                         concurrency : Nat, error : BuilderErrors]
        /\ accepted.error = builder.error /\ accepted.lease = d
        /\ accepted.concurrency = builder.concurrency
    BY <2>1 DEF BuilderInv, BuilderGood
  <2>4. Step(LeaseError(d), accepted)
    BY <1>1 DEF LeaseDuration
  <2> HIDE DEF accepted
  <2> QED BY <2>1, <2>2, <2>3, <2>4, AcceptedLease, StepKeepsGood DEF BuilderInv, BuilderGood
<1>2. ASSUME NEW n \in Sizes, Concurrency(n) PROVE BuilderInv'
  <2>1. n \in Nat
    BY BuilderAssumption
  <2>2. ConcurrencyError(n) \in BuilderErrors
    BY DEF ConcurrencyError, BuilderErrors
  <2> DEFINE accepted == [builder EXCEPT !.concurrency = n]
  <2>3. /\ accepted \in [registry : [TaskNames -> Handlers \cup {Unset}], lease : Nat,
                         concurrency : Nat, error : BuilderErrors]
        /\ accepted.error = builder.error /\ accepted.lease = builder.lease
        /\ accepted.concurrency = n
    BY <2>1 DEF BuilderInv, BuilderGood
  <2>4. Step(ConcurrencyError(n), accepted)
    BY <1>2 DEF Concurrency
  <2> HIDE DEF accepted
  <2> QED BY <2>1, <2>2, <2>3, <2>4, AcceptedConcurrency, StepKeepsGood DEF BuilderInv, BuilderGood
<1>3. ASSUME NEW name \in TaskNames \cup {BadName}, NEW handler \in Handlers,
             RegisterTask(name, handler)
      PROVE  BuilderInv'
  <2> DEFINE error == CASE name \notin TaskNames -> "bad name"
                        [] name \in TaskNames /\ builder.registry[name] # Unset -> "registered twice"
                        [] OTHER -> "none"
             registry == [n \in TaskNames |-> IF n = name THEN handler ELSE builder.registry[n]]
             accepted == [builder EXCEPT !.registry = registry]
  <2>1. error \in BuilderErrors
    BY DEF BuilderErrors
  <2>2. registry \in [TaskNames -> Handlers \cup {Unset}]
    BY DEF BuilderInv, BuilderGood
  <2>4. Step(error, accepted)
    BY <1>3 DEF RegisterTask
  <2> HIDE DEF registry
  <2>3. /\ accepted \in [registry : [TaskNames -> Handlers \cup {Unset}], lease : Nat,
                         concurrency : Nat, error : BuilderErrors]
        /\ accepted.error = builder.error /\ accepted.lease = builder.lease
        /\ accepted.concurrency = builder.concurrency
    BY <2>2 DEF BuilderInv, BuilderGood
  <2> HIDE DEF accepted, error
  <2> QED BY <2>1, <2>3, <2>4, StepKeepsGood DEF BuilderInv, BuilderGood
<1>4. CASE Build
  <2>1. BuilderGood'
    BY <1>4 DEF Build, BuilderInv, BuilderGood, DurationSeconds
  <2>2. ASSUME worker'.is = "worker" PROVE BuiltWorkersRun'
    <3>1. /\ builder.error = "none" /\ Registered # {}
          /\ worker' = [is |-> "worker", registry |-> builder.registry,
                        lease |-> builder.lease, concurrency |-> builder.concurrency]
      BY <1>4, <2>2 DEF Build
    <3>2. /\ worker'.registry = builder.registry /\ worker'.lease = builder.lease
          /\ worker'.concurrency = builder.concurrency
      BY <3>1
    <3>3. ~refused'
      BY <1>4, <3>1 DEF Build, BuilderInv, BuilderGood
    <3>4. \E n \in TaskNames : worker'.registry[n] # Unset
      BY <3>1, <3>2 DEF Registered
    <3>5. /\ DurationSeconds(worker'.lease) \in 1 .. LargestI32
          /\ worker'.concurrency \in 1 .. LargestI32
      BY <3>2 DEF BuilderInv, BuilderGood
    <3> QED BY <3>3, <3>4, <3>5, BuilderAssumption DEF BuiltWorkersRun, DurationSeconds
  <2> QED BY <2>1, <2>2 DEF BuilderInv, BuiltWorkersRun
<1>5. CASE UNCHANGED builderVars
  BY <1>5 DEF builderVars, BuilderInv, BuilderGood, BuiltWorkersRun, DurationSeconds, Unset
<1> QED BY <1>1, <1>2, <1>3, <1>4, <1>5 DEF BuilderNext

\* For every width of the integers and whatever callers pass, in any order:
\* build() returns a worker only after valid calls alone, and the conversions
\* that run_worker_loop() makes of its lease and concurrency cannot fail.
THEOREM BuiltWorkersRunHolds == BuilderSpec => []BuiltWorkersRun
<1>1. BuilderInv => BuiltWorkersRun
  BY DEF BuilderInv
<1> QED
  BY NewBuilderGood, BuilderStep, <1>1, PTL DEF BuilderSpec

-----------------------------------------------------------------------------
(* StedaRetryDelay.                                                        *)

RetryInv == strategy \in Strategies /\ attempt \in Nat /\ attempt >= 1

\* The range of double precision is wider than the range of delays, so that a
\* growing delay leaves it only above max_seconds: the handler of the overflow
\* answers with what the minimum would have been.
LEMMA GrowthSaturates ==
    ASSUME NEW s, NEW power \in Int,
           s.base \in -1 .. Limit, s.max \in -1 .. Limit,
           power >= 0 \/ (Representable(power) /\ Representable(s.base + power))
    PROVE  Saturated(s, power) = Least(s.base + power, s.max)
<1> DEFINE base == s.base
           max == s.max
<1>1. base \in Int /\ max \in Int /\ -1 <= base /\ base <= Limit /\ max <= Limit
  BY RetryDelayAssumption
<1>2. CASE Representable(power) /\ Representable(base + power)
  BY <1>2 DEF Saturated
<1>3. CASE ~(Representable(power) /\ Representable(base + power))
  <2>1. power >= 0
    BY <1>3
  <2>2. base + power > max \/ base + power = max
    BY <1>1, <1>3, <2>1, RetryDelayAssumption DEF Representable
  <2>3. Saturated(s, power) = max
    BY <1>3 DEF Saturated
  <2> HIDE DEF base, max
  <2>4. Least(base + power, max) = max
    BY <1>1, <2>2 DEF Least
  <2> QED BY <2>3, <2>4 DEF base, max
<1> QED BY <1>2, <1>3

\* The power a factor is raised to, for each factor.
LEMMA PowerOfFactor ==
    ASSUME NEW n \in Nat, n >= 1, NEW factor \in -2 .. 2
    PROVE  (n - 1) * factor \in Int /\ (factor >= 0 => (n - 1) * factor >= 0)
<1>1. factor = -2 \/ factor = -1 \/ factor = 0 \/ factor = 1 \/ factor = 2
  OBVIOUS
<1> QED BY <1>1

\* For every range of the floating point type wider than the delays, and every
\* attempt: the delay of retry_delay_seconds() is the mathematical one cut off
\* at max_seconds, unless a power of a factor below one underflows; then it is
\* max_seconds.
THEOREM DelaySaturatesHolds == RetrySpec => []DelaySaturates
<1>1. RetryInit => RetryInv
  BY DEF RetryInit, RetryInv
<1>2. RetryInv /\ [RetryNext]_retryVars => RetryInv'
  BY DEF RetryInv, RetryNext, FailRun, retryVars
<1>3. RetryInv => DelaySaturates
  <2> SUFFICES ASSUME RetryInv,
                      strategy.kind = "exponential", strategy.base # Zero, strategy.max # Zero
               PROVE  retry_delay_seconds(strategy, attempt)
                        = IF Underflows(strategy, attempt) THEN strategy.max
                          ELSE Least(Unbounded(strategy, attempt), strategy.max)
    BY DEF DelaySaturates
  <2> DEFINE power == (attempt - 1) * strategy.factor
  <2>1. /\ strategy.base \in DelaySeconds /\ strategy.max \in DelaySeconds
        /\ strategy.factor \in -2 .. 2
    BY DEF RetryInv, Strategies
  <2>2. strategy.base \in -1 .. Limit /\ strategy.max \in -1 .. Limit
    BY <2>1 DEF DelaySeconds
  <2>3. power \in Int /\ (strategy.factor >= 0 => power >= 0)
    BY <2>1, PowerOfFactor DEF RetryInv
  <2>4. retry_delay_seconds(strategy, attempt) = Saturated(strategy, power)
    BY DEF retry_delay_seconds
  <2>5. Unbounded(strategy, attempt) = strategy.base + power
    BY DEF Unbounded
  <2>6. Underflows(strategy, attempt)
          <=> strategy.factor < 0 /\ ~(Representable(power) /\ Representable(strategy.base + power))
    BY <2>5 DEF Underflows
  <2> HIDE DEF power
  <2>7. CASE Underflows(strategy, attempt)
    <3>1. Saturated(strategy, power) = strategy.max
      BY <2>6, <2>7 DEF Saturated
    <3> QED BY <2>4, <2>7, <3>1
  <2>8. CASE ~Underflows(strategy, attempt)
    <3>1. power >= 0 \/ (Representable(power) /\ Representable(strategy.base + power))
      BY <2>1, <2>3, <2>6, <2>8
    <3>2. Saturated(strategy, power) = Least(strategy.base + power, strategy.max)
      BY <2>2, <2>3, <3>1, GrowthSaturates
    <3> QED BY <2>4, <2>5, <2>8, <3>2
  <2> QED BY <2>7, <2>8
<1> QED
  BY <1>1, <1>2, <1>3, PTL DEF RetrySpec

-----------------------------------------------------------------------------
(* StedaOptions.                                                           *)

\* What the Spawn builder can have collected.
SpawnConfig ==
    [max_attempts : OrNull(0 .. MaxU32), retry_strategy : RetryStrategy \cup {Nothing},
     headers : {"none", "empty", "some", "NUL"}, cancellation : CancellationPolicy \cup {Nothing},
     idempotency_key : Keys \cup {Nothing}]

\* The outcome of normalize_spawn_options() is about the configuration it saw,
\* and the row is within the columns and keeps its deadlines.
OptionsInv ==
    /\ config \in SpawnConfig
    /\ \/ sent = Nothing /\ stored = Nothing
       \/ sent = InvalidOptions /\ ~Accepted(config)
       \/ sent = Payload(config) /\ Accepted(config)
    /\ stored # Nothing => /\ stored.max_attempts \in 1 .. MaxI32
                           /\ stored.headers \in {"none", "some"}
                           /\ DeadlinesKept(config.cancellation, stored.cancellation)

\* Rounding up to seconds keeps a deadline.
LEMMA RoundingKeeps ==
    ASSUME NEW d \in OrNull(Durations)
    PROVE  Kept(d, Seconds(d))
<1>1. CASE d = Null
  BY <1>1 DEF Kept, Seconds
<1>2. CASE d # Null
  <2>1. d \in Nat
    BY <1>2, WidthAssumption DEF OrNull
  <2>2. Seconds(d) = (d \div 2) + (d % 2)
    BY <1>2 DEF Seconds, SecondsRoundedUp
  <2>3. d \div 2 \in Nat /\ d % 2 \in {0, 1} /\ d = 2 * (d \div 2) + (d % 2)
    BY <2>1
  <2> DEFINE h == d \div 2
             b == d % 2
  <2>4. h \in Nat /\ b \in {0, 1} /\ d = 2 * h + b /\ Seconds(d) = h + b
    BY <2>2, <2>3
  <2> HIDE DEF h, b
  <2>5. d <= 2 * (h + b) /\ 2 * (h + b) < d + 2
    BY <2>4
  <2> QED BY <1>2, <2>4, <2>5 DEF Kept
<1> QED BY <1>1, <1>2

\* So the payload of a policy keeps both of its deadlines.
LEMMA PoliciesKept ==
    ASSUME NEW policy \in CancellationPolicy \cup {Nothing}
    PROVE  DeadlinesKept(policy, CancellationJson(policy))
<1>1. CASE policy = Nothing \/ policy = [max_delay |-> Null, max_duration |-> Null]
  BY <1>1 DEF DeadlinesKept, CancellationJson
<1>2. CASE ~(policy = Nothing \/ policy = [max_delay |-> Null, max_duration |-> Null])
  <2>1. policy.max_delay \in OrNull(Durations) /\ policy.max_duration \in OrNull(Durations)
    BY <1>2 DEF CancellationPolicy
  <2>2. CancellationJson(policy) = [maxDelay |-> Seconds(policy.max_delay),
                                    maxDuration |-> Seconds(policy.max_duration)]
    BY <1>2 DEF CancellationJson
  <2> QED BY <1>2, <2>1, <2>2, RoundingKeeps DEF DeadlinesKept
<1> QED BY <1>1, <1>2

\* Both layers draw the same line between retry strategies.
LEMMA StrategiesAgree ==
    ASSUME NEW s \in RetryStrategy \cup {Nothing}
    PROVE  ValidStrategy(s) <=> StorableStrategy(s)
<1>0. MaxI32 \in Nat /\ \A d \in Durations : d \in Nat
  BY WidthAssumption
<1>1. CASE s = Nothing
  BY <1>1 DEF ValidStrategy, StorableStrategy
<1>2. CASE s = NoRetry
  BY <1>2 DEF ValidStrategy, StorableStrategy, NoRetry
<1>3. CASE s \in [kind : {"fixed"}, base : Durations]
  <2>1. s.kind = "fixed" /\ s.base \in Nat
    BY <1>0, <1>3
  <2> QED BY <1>0, <2>1 DEF ValidStrategy, StorableStrategy, ValidDelay
<1>4. CASE s \in [kind : {"exponential"}, base : Durations, factor : {"usable", "unusable"},
                  max : OrNull(Durations)]
  <2>1. s.kind = "exponential" /\ s.base \in Nat /\ (s.max \in Nat \/ s.max = -1)
    BY <1>0, <1>4 DEF OrNull, Null
  <2> QED BY <1>0, <2>1 DEF ValidStrategy, StorableStrategy, ValidDelay, OrNull, Null
<1> QED BY <1>1, <1>2, <1>3, <1>4 DEF RetryStrategy

\* Whole seconds, rounded up, are within bigint exactly if they pass the checks
\* of duration_seconds_i64(), and no duration becomes a NULL.
LEMMA DeadlinesAgree ==
    ASSUME NEW d \in OrNull(Durations)
    PROVE  /\ ValidDeadline(d) <=> Seconds(d) \in OrNull(0 .. MaxI64)
           /\ Seconds(d) = Null <=> d = Null
<1>0. MaxI64 \in Nat /\ MaxU64 \in Nat /\ MaxI64 < MaxU64 /\ \A e \in Durations : e \in Nat
  BY WidthAssumption
<1>1. CASE d = Null
  BY <1>1 DEF ValidDeadline, Seconds, OrNull
<1>2. CASE d # Null
  <2>1. d \in Nat
    BY <1>0, <1>2 DEF OrNull
  <2>2. SecondsRoundedUp(d) \in Nat
    BY <2>1 DEF SecondsRoundedUp
  <2>3. Seconds(d) = SecondsRoundedUp(d)
    BY <1>2 DEF Seconds
  <2> QED BY <1>0, <1>2, <2>2, <2>3 DEF ValidDeadline, OrNull, Null
<1> QED BY <1>1, <1>2

\* Both layers draw the same line between cancellation policies, the empty one
\* included, which never reaches the database.
LEMMA CancellationsAgree ==
    ASSUME NEW policy \in CancellationPolicy \cup {Nothing}
    PROVE  ValidCancellation(policy) <=> StorableCancellation(CancellationJson(policy))
<1>1. CASE policy = Nothing
  BY <1>1 DEF ValidCancellation, StorableCancellation, CancellationJson
<1>2. CASE policy # Nothing
  <2>1. /\ policy \in CancellationPolicy
        /\ policy.max_delay \in OrNull(Durations) /\ policy.max_duration \in OrNull(Durations)
    BY <1>2 DEF CancellationPolicy
  <2>2. CASE policy = [max_delay |-> Null, max_duration |-> Null]
    <3>1. policy.max_delay = Null /\ policy.max_duration = Null
      BY <2>2
    <3>2. CancellationJson(policy) = Nothing
      BY <2>2 DEF CancellationJson
    <3> QED BY <3>1, <3>2 DEF ValidCancellation, StorableCancellation, ValidDeadline
  <2>3. CASE policy # [max_delay |-> Null, max_duration |-> Null]
    <3> DEFINE json == CancellationJson(policy)
    <3>1. json = [maxDelay |-> Seconds(policy.max_delay),
                  maxDuration |-> Seconds(policy.max_duration)]
      BY <1>2, <2>3 DEF CancellationJson
    <3>2. /\ json.maxDelay = Seconds(policy.max_delay)
          /\ json.maxDuration = Seconds(policy.max_duration)
          /\ DOMAIN json = {"maxDelay", "maxDuration"}
      BY <3>1
    <3>3. ~(policy.max_delay = Null /\ policy.max_duration = Null)
      BY <2>1, <2>3 DEF CancellationPolicy
    <3> HIDE DEF json
    <3>4. json # Nothing
      BY <3>2 DEF Nothing
    <3>5. json # [maxDelay |-> Null, maxDuration |-> Null]
      BY <2>1, <3>2, <3>3, DeadlinesAgree
    <3>6. StorableCancellation(json) <=> /\ Seconds(policy.max_delay) \in OrNull(0 .. MaxI64)
                                         /\ Seconds(policy.max_duration) \in OrNull(0 .. MaxI64)
      BY <3>2, <3>4, <3>5 DEF StorableCancellation
    <3>7. ValidCancellation(policy) <=> /\ ValidDeadline(policy.max_delay)
                                        /\ ValidDeadline(policy.max_duration)
      BY <1>2 DEF ValidCancellation
    <3> QED BY <2>1, <3>6, <3>7, DeadlinesAgree DEF json
  <2> QED BY <2>2, <2>3
<1> QED BY <1>1, <1>2

\* The limit on a key's length is the same, and what a key is made of is judged
\* alike unless the key is disputed.
LEMMA KeysAgree ==
    ASSUME NEW c, c.idempotency_key \in Keys \cup {Nothing}, ~DisputedKey(c)
    PROVE  ValidKey(c.idempotency_key) <=> StorableKey(c.idempotency_key)
<1> DEFINE key == c.idempotency_key
<1>1. CASE key = Nothing
  BY <1>1 DEF ValidKey, StorableKey
<1>2. CASE key # Nothing
  <2>1. (Trimmed(key) = {}) <=> (key.chars \subseteq SqlSpaces)
    BY <1>2 DEF DisputedKey
  <2> QED BY <1>2, <2>1 DEF ValidKey, StorableKey, MaxKeyBytes
<1> QED BY <1>1, <1>2

\* What spawn_task() cannot decode has a NUL.
LEMMA DecodingNeedsNoNul ==
    ASSUME NEW c \in SpawnConfig
    PROVE  Decodable(Payload(c)) <=> ~HasNul(c)
<1>1. /\ Payload(c).headers = HeadersJson(c.headers)
      /\ Payload(c).idempotencyKey = c.idempotency_key
  BY DEF Payload
<1>2. HeadersJson(c.headers) = "NUL" <=> c.headers = "NUL"
  BY DEF HeadersJson
<1> QED BY <1>1, <1>2 DEF Decodable, HasNul

\* normalize_spawn_options() accepts exactly what spawn_task() can store, but for
\* a NUL and for a disputed key.
LEMMA LayersDrawOneLine ==
    ASSUME NEW c \in SpawnConfig
    PROVE  /\ Accepted(c) /\ ~Storable(Payload(c)) => HasNul(c) \/ DisputedKey(c)
           /\ ~Accepted(c) /\ Storable(Payload(c)) => DisputedKey(c)
<1> DEFINE payload == Payload(c)
<1>1. /\ payload.maxAttempts = c.max_attempts /\ payload.retryStrategy = c.retry_strategy
      /\ payload.cancellation = CancellationJson(c.cancellation)
      /\ payload.idempotencyKey = c.idempotency_key
  BY DEF Payload
<1>2. /\ c.max_attempts \in OrNull(0 .. MaxU32) /\ c.retry_strategy \in RetryStrategy \cup {Nothing}
      /\ c.cancellation \in CancellationPolicy \cup {Nothing}
      /\ c.idempotency_key \in Keys \cup {Nothing}
  BY DEF SpawnConfig
<1>3. ValidAttempts(c.max_attempts) <=> c.max_attempts \in OrNull(1 .. MaxI32)
  BY <1>2 DEF ValidAttempts, OrNull
<1>4. ValidStrategy(c.retry_strategy) <=> StorableStrategy(c.retry_strategy)
  BY <1>2, StrategiesAgree
<1>5. ValidCancellation(c.cancellation) <=> StorableCancellation(CancellationJson(c.cancellation))
  BY <1>2, CancellationsAgree
<1>6. DisputedKey(c) \/ (ValidKey(c.idempotency_key) <=> StorableKey(c.idempotency_key))
  BY <1>2, KeysAgree
<1>7. Decodable(payload) <=> ~HasNul(c)
  BY DecodingNeedsNoNul
<1>8. Accepted(c) <=> /\ ValidAttempts(c.max_attempts) /\ ValidStrategy(c.retry_strategy)
                      /\ ValidKey(c.idempotency_key) /\ ValidCancellation(c.cancellation)
  BY DEF Accepted
<1> HIDE DEF payload
<1>9. Storable(payload) <=>
        /\ Decodable(payload)
        /\ c.max_attempts \in OrNull(1 .. MaxI32) /\ StorableStrategy(c.retry_strategy)
        /\ StorableCancellation(CancellationJson(c.cancellation)) /\ StorableKey(c.idempotency_key)
  BY <1>1 DEF Storable
<1>10. /\ Accepted(c) /\ ~Storable(payload) => HasNul(c) \/ DisputedKey(c)
       /\ ~Accepted(c) /\ Storable(payload) => DisputedKey(c)
  BY <1>3, <1>4, <1>5, <1>6, <1>7, <1>8, <1>9
<1> QED BY <1>10 DEF payload

\* Every call of the builder and both layers keep the invariant.
LEMMA OptionsStep == OptionsInv /\ [OptionsNext]_optionsVars => OptionsInv'
<1> SUFFICES ASSUME OptionsInv, [OptionsNext]_optionsVars PROVE OptionsInv'
  OBVIOUS
<1>1. CASE BuildOptions
  <2>1. sent = Nothing /\ sent' = Nothing /\ stored' = Nothing
    BY <1>1 DEF BuildOptions, Configure, OptionsInv, InvalidOptions, Nothing, Payload
  <2>2. config' \in SpawnConfig
    <3>0. config \in SpawnConfig
      BY DEF OptionsInv
    <3>1. ASSUME NEW n \in 0 .. MaxU32, Configure("max_attempts", n) PROVE config' \in SpawnConfig
      <4>1. config' = [config EXCEPT !.max_attempts = n] /\ n \in OrNull(0 .. MaxU32)
        BY <3>1 DEF Configure, OrNull
      <4> QED BY <3>0, <4>1 DEF SpawnConfig
    <3>2. ASSUME NEW s \in RetryStrategy, Configure("retry_strategy", s) PROVE config' \in SpawnConfig
      <4>1. config' = [config EXCEPT !.retry_strategy = s]
        BY <3>2 DEF Configure
      <4> QED BY <3>0, <4>1 DEF SpawnConfig
    <3>3. ASSUME NEW h \in {"empty", "some", "NUL"}, Configure("headers", h) PROVE config' \in SpawnConfig
      <4>1. config' = [config EXCEPT !.headers = h]
        BY <3>3 DEF Configure
      <4> QED BY <3>0, <4>1 DEF SpawnConfig
    <3>4. ASSUME NEW policy \in CancellationPolicy, Configure("cancellation", policy)
          PROVE  config' \in SpawnConfig
      <4>1. config' = [config EXCEPT !.cancellation = policy]
        BY <3>4 DEF Configure
      <4> QED BY <3>0, <4>1 DEF SpawnConfig
    <3>5. ASSUME NEW key \in Keys, Configure("idempotency_key", key)
          PROVE  config' \in SpawnConfig
      <4>1. config' = [config EXCEPT !.idempotency_key = key]
        BY <3>5 DEF Configure
      <4> QED BY <3>0, <4>1 DEF SpawnConfig
    <3> QED BY <1>1, <3>1, <3>2, <3>3, <3>4, <3>5 DEF BuildOptions
  <2> QED BY <2>1, <2>2 DEF OptionsInv
<1>2. CASE Normalize
  <2>1. config' = config /\ stored' = stored /\ sent = Nothing
        /\ sent' = IF Accepted(config) THEN Payload(config) ELSE InvalidOptions
    BY <1>2 DEF Normalize
  <2>2. stored = Nothing
    BY <2>1 DEF OptionsInv, InvalidOptions, Nothing, Payload
  <2>3. Accepted(config') <=> Accepted(config)
    BY <2>1
  <2> QED BY <2>1, <2>2, <2>3 DEF OptionsInv
<1>3. CASE SpawnTask
  <2>1. /\ UNCHANGED <<config, sent>> /\ stored' = Row(sent)
        /\ sent = Payload(config) /\ Storable(sent)
    BY <1>3 DEF SpawnTask, OptionsInv
  <2>2. sent.maxAttempts \in OrNull(1 .. MaxI32)
    BY <2>1 DEF Storable
  <2>3. sent.headers \in {"none", "some"}
    <3>1. sent.headers = HeadersJson(config.headers) /\ config.headers \in {"none", "empty", "some", "NUL"}
      BY <2>1 DEF Payload, OptionsInv, SpawnConfig
    <3>2. sent.headers # "NUL"
      BY <2>1 DEF Storable, Decodable
    <3> QED BY <3>1, <3>2 DEF HeadersJson
  <2>6. stored'.cancellation = CancellationJson(config.cancellation)
    BY <2>1 DEF Row, Payload
  <2>7. DeadlinesKept(config.cancellation, stored'.cancellation)
    BY <2>6, PoliciesKept DEF OptionsInv, SpawnConfig
  <2>4. stored'.max_attempts \in 1 .. MaxI32 /\ stored'.headers \in {"none", "some"}
    BY <2>1, <2>2, <2>3, WidthAssumption DEF Row, OrNull
  <2>5. Accepted(config') <=> Accepted(config)
    BY <2>1
  <2>8. sent # Nothing
    BY <2>1 DEF Payload, Nothing
  <2> QED BY <1>3, <2>1, <2>4, <2>5, <2>7, <2>8 DEF OptionsInv
<1>4. CASE UNCHANGED optionsVars
  BY <1>4 DEF optionsVars, OptionsInv
<1> QED BY <1>1, <1>2, <1>3, <1>4 DEF OptionsNext

\* For every width of the integers of both layers, every duration that fits them,
\* every key and every collation: what normalize_spawn_options() accepts
\* spawn_task() stores with its deadlines, unless it has a NUL, and what it
\* refuses spawn_task() would have refused too, except that a key of spaces only
\* one layer knows is refused by that layer alone.
THEOREM LayersAgreeHolds == OptionsSpec => []LayersAgree
<1>1. OptionsInit => OptionsInv
  <2> SUFFICES ASSUME OptionsInit PROVE OptionsInv
    OBVIOUS
  <2>1. config = DefaultConfig /\ sent = Nothing /\ stored = Nothing
    BY DEF OptionsInit
  <2>2. config \in SpawnConfig
    BY <2>1 DEF DefaultConfig, SpawnConfig, OrNull
  <2> QED BY <2>1, <2>2 DEF OptionsInv
<1>2. OptionsInv => LayersAgree
  <2> SUFFICES ASSUME OptionsInv PROVE LayersAgree
    OBVIOUS
  <2>1. OptionsTypeOK
    BY DEF OptionsInv, SpawnConfig, OptionsTypeOK
  <2>2. /\ Accepted(config) /\ ~Storable(Payload(config)) => HasNul(config) \/ DisputedKey(config)
        /\ ~Accepted(config) /\ Storable(Payload(config)) => DisputedKey(config)
    BY LayersDrawOneLine DEF OptionsInv
  <2>3. Payload(config).is = "payload" /\ Nothing.is = "nothing" /\ InvalidOptions.is = "InvalidOptions"
    BY DEF Payload, Nothing, InvalidOptions
  <2> QED BY <2>1, <2>2, <2>3 DEF LayersAgree, OptionsInv
<1> QED
  BY <1>1, <1>2, OptionsStep, PTL DEF OptionsSpec

-----------------------------------------------------------------------------
(* StedaIdentity.                                                          *)

Kinds == {"$step:", "$sleep:", "$step-keyed:", "$await-task:"}
DigitChars == {"0", "1", "2", "3", "4", "5", "6", "7", "8", "9"}
Chars == Letters \cup {Blank} \cup TaskIds \cup Kinds \cup DigitChars

\* Two concatenations with first parts of one length are equal part by part.
LEMMA PartsEqual ==
    ASSUME NEW a \in Seq(Chars), NEW b \in Seq(Chars), NEW c \in Seq(Chars), NEW d \in Seq(Chars),
           Len(a) = Len(b), a \o c = b \o d
    PROVE  a = b /\ c = d
<1>1. Len(a) + Len(c) = Len(b) + Len(d)
  <2>1. Len(a \o c) = Len(a) + Len(c) /\ Len(b \o d) = Len(b) + Len(d)
    OBVIOUS
  <2> QED BY <2>1
<1>2. Len(c) = Len(d)
  BY <1>1
<1>3. ASSUME NEW i \in 1 .. Len(a) PROVE a[i] = b[i]
  <2>1. (a \o c)[i] = a[i] /\ (b \o d)[i] = b[i]
    BY ConcatProperties
  <2> QED BY <2>1
<1>4. ASSUME NEW i \in 1 .. Len(c) PROVE c[i] = d[i]
  <2>1. (a \o c)[Len(a) + i] = c[i]
    BY ConcatProperties
  <2>2. (b \o d)[Len(b) + i] = d[i]
    BY <1>2, ConcatProperties
  <2> QED BY <2>1, <2>2
<1> QED BY <1>2, <1>3, <1>4, SeqEqual

\* A concatenation of three parts, regrouped.
LEMMA Regrouped ==
    ASSUME NEW a \in Seq(Chars), NEW b \in Seq(Chars), NEW c \in Seq(Chars)
    PROVE  a \o b \o c = a \o (b \o c)
BY ConcatAssociative

\* A text is a sequence of characters, its length a number of four digits.
LEMMA TextIsSequence ==
    ASSUME NEW t \in Texts
    PROVE  t \in Seq(Chars) /\ Len(t) \in Nat /\ Len(t) <= 9999
<1>1. t \in Seq(Letters \cup {Blank}) /\ Len(t) <= 9999
  BY IdentityAssumption
<1>2. t \in Seq(Chars)
  BY <1>1 DEF Chars
<1>3. Len(t) \in Nat
  BY <1>2
<1> QED BY <1>1, <1>2, <1>3

\* Ten digits, each its own character, and none of them the delimiter.
LEMMA DigitsApart ==
    /\ \A n \in Nat : Digit(n) \in DigitChars
    /\ \A m, n \in Nat : Digit(m) = Digit(n) => m % 10 = n % 10
    /\ ":" \notin DigitChars
<1>1. ASSUME NEW n \in Nat PROVE Digit(n) \in DigitChars
  <2>1. n % 10 \in 0 .. 9
    OBVIOUS
  <2>2. PICK r \in 0 .. 9 : n % 10 = r
    BY <2>1
  <2>3. Digit(n) = Digits[r + 1]
    BY <2>2 DEF Digit
  <2>4. r + 1 \in 1 .. 10 /\ \A i \in 1 .. 10 : Digits[i] \in DigitChars
    BY DEF Digits, DigitChars
  <2> QED BY <2>3, <2>4
<1>2. ASSUME NEW m \in Nat, NEW n \in Nat, Digit(m) = Digit(n) PROVE m % 10 = n % 10
  <2>1. PICK i \in 0 .. 9 : m % 10 = i
    OBVIOUS
  <2>2. PICK j \in 0 .. 9 : n % 10 = j
    OBVIOUS
  <2>3. Digits[i + 1] = Digits[j + 1]
    BY <1>2, <2>1, <2>2 DEF Digit
  <2>4. /\ Digits[1] = "0" /\ Digits[2] = "1" /\ Digits[3] = "2" /\ Digits[4] = "3"
        /\ Digits[5] = "4" /\ Digits[6] = "5" /\ Digits[7] = "6" /\ Digits[8] = "7"
        /\ Digits[9] = "8" /\ Digits[10] = "9"
    BY DEF Digits
  <2>5. i = 0 \/ i = 1 \/ i = 2 \/ i = 3 \/ i = 4 \/ i = 5 \/ i = 6 \/ i = 7 \/ i = 8 \/ i = 9
    OBVIOUS
  <2>6. j = 0 \/ j = 1 \/ j = 2 \/ j = 3 \/ j = 4 \/ j = 5 \/ j = 6 \/ j = 7 \/ j = 8 \/ j = 9
    OBVIOUS
  <2>7. i = j
    BY <2>3, <2>4, <2>5, <2>6
  <2> QED BY <2>1, <2>2, <2>7
<1>3. ":" \notin DigitChars
  BY DEF DigitChars
<1> QED BY <1>1, <1>2, <1>3

\* A length is written in one to four digits.
LEMMA DecimalShape ==
    ASSUME NEW n \in Nat, n <= 9999
    PROVE  /\ Decimal(n) \in Seq(DigitChars)
           /\ Len(Decimal(n)) = IF n < 10 THEN 1 ELSE IF n < 100 THEN 2 ELSE IF n < 1000 THEN 3 ELSE 4
<1>1. n \in Nat /\ n \div 10 \in Nat /\ n \div 100 \in Nat /\ n \div 1000 \in Nat
  OBVIOUS
<1> DEFINE a == Digit(n)
           b == Digit(n \div 10)
           c == Digit(n \div 100)
           d == Digit(n \div 1000)
<1>2. a \in DigitChars /\ b \in DigitChars /\ c \in DigitChars /\ d \in DigitChars
  BY <1>1, DigitsApart
<1>3. Decimal(n) = IF n < 10 THEN <<a>> ELSE IF n < 100 THEN <<b, a>>
                   ELSE IF n < 1000 THEN <<c, b, a>> ELSE <<d, c, b, a>>
  BY DEF Decimal
<1> HIDE DEF a, b, c, d
<1>4. CASE n < 10
  BY <1>2, <1>3, <1>4
<1>5. CASE ~(n < 10) /\ n < 100
  BY <1>2, <1>3, <1>5
<1>6. CASE ~(n < 10) /\ ~(n < 100) /\ n < 1000
  BY <1>2, <1>3, <1>6
<1>7. CASE ~(n < 10) /\ ~(n < 100) /\ ~(n < 1000)
  BY <1>2, <1>3, <1>7
<1> QED BY <1>4, <1>5, <1>6, <1>7

\* No two lengths are written alike.
LEMMA DecimalInjective ==
    ASSUME NEW m \in Nat, NEW n \in Nat, m <= 9999, n <= 9999, Decimal(m) = Decimal(n)
    PROVE  m = n
<1>1. /\ m \in Nat /\ m \div 10 \in Nat /\ m \div 100 \in Nat /\ m \div 1000 \in Nat
      /\ n \in Nat /\ n \div 10 \in Nat /\ n \div 100 \in Nat /\ n \div 1000 \in Nat
  OBVIOUS
<1>2. Len(Decimal(m)) = Len(Decimal(n))
  OBVIOUS
<1>3. /\ m < 10 <=> n < 10
      /\ m < 100 <=> n < 100
      /\ m < 1000 <=> n < 1000
  <2> DEFINE i == Len(Decimal(m))
             j == Len(Decimal(n))
  <2>1. i = IF m < 10 THEN 1 ELSE IF m < 100 THEN 2 ELSE IF m < 1000 THEN 3 ELSE 4
    BY DecimalShape
  <2>2. j = IF n < 10 THEN 1 ELSE IF n < 100 THEN 2 ELSE IF n < 1000 THEN 3 ELSE 4
    BY DecimalShape
  <2>3. i = j
    BY <1>2
  <2> HIDE DEF i, j
  <2> QED BY <2>1, <2>2, <2>3
<1>4. CASE m < 10
  <2>1. Digit(m) = Digit(n)
    BY <1>3, <1>4 DEF Decimal
  <2>2. m % 10 = n % 10
    BY <1>1, <2>1, DigitsApart
  <2> QED BY <1>3, <1>4, <2>2
<1>5. CASE ~(m < 10) /\ m < 100
  <2>1. Digit(m) = Digit(n) /\ Digit(m \div 10) = Digit(n \div 10)
    BY <1>3, <1>5 DEF Decimal
  <2>2. m % 10 = n % 10 /\ (m \div 10) % 10 = (n \div 10) % 10
    BY <1>1, <2>1, DigitsApart
  <2> QED BY <1>3, <1>5, <2>2
<1>6. CASE ~(m < 100) /\ m < 1000
  <2>1. /\ Digit(m) = Digit(n) /\ Digit(m \div 10) = Digit(n \div 10)
        /\ Digit(m \div 100) = Digit(n \div 100)
    BY <1>3, <1>6 DEF Decimal
  <2>2. m % 10 = n % 10 /\ (m \div 10) % 10 = (n \div 10) % 10 /\ (m \div 100) % 10 = (n \div 100) % 10
    BY <1>1, <2>1, DigitsApart
  <2> QED BY <1>3, <1>6, <2>2
<1>7. CASE ~(m < 1000)
  <2>1. /\ Digit(m) = Digit(n) /\ Digit(m \div 10) = Digit(n \div 10)
        /\ Digit(m \div 100) = Digit(n \div 100) /\ Digit(m \div 1000) = Digit(n \div 1000)
    BY <1>3, <1>7 DEF Decimal
  <2>2. /\ m % 10 = n % 10 /\ (m \div 10) % 10 = (n \div 10) % 10
        /\ (m \div 100) % 10 = (n \div 100) % 10 /\ (m \div 1000) % 10 = (n \div 1000) % 10
    BY <1>1, <2>1, DigitsApart
  <2> QED BY <1>3, <1>7, <2>2
<1> QED BY <1>4, <1>5, <1>6, <1>7

\* The delimiter ends a length: of two texts that begin with digits and a colon
\* and are equal, neither has fewer digits.
LEMMA DelimiterEndsLength ==
    ASSUME NEW d \in Seq(DigitChars), NEW e \in Seq(DigitChars),
           NEW u \in Seq(Chars), NEW v \in Seq(Chars),
           (d \o <<":">>) \o u = (e \o <<":">>) \o v
    PROVE  ~(Len(d) < Len(e))
<1> SUFFICES ASSUME Len(d) < Len(e) PROVE FALSE
  OBVIOUS
<1>1. ":" \in Chars /\ DigitChars \subseteq Chars
  BY DEF Chars, Letters
<1>2. d \in Seq(Chars) /\ e \in Seq(Chars) /\ <<":">> \in Seq(Chars)
  BY <1>1
<1> DEFINE i == Len(d) + 1
           dm == d \o <<":">>
           em == e \o <<":">>
<1>3. i \in 1 .. Len(e) /\ Len(d) \in Nat
  <2>1. Len(d) \in Nat /\ Len(e) \in Nat
    BY <1>2
  <2> QED BY <2>1
<1>4. dm \in Seq(Chars) /\ Len(dm) = Len(d) + 1 /\ dm[i] = ":"
  <2>1. dm \in Seq(Chars) /\ Len(dm) = Len(d) + Len(<<":">>)
    BY <1>2, ConcatProperties
  <2>2. Len(<<":">>) = 1 /\ <<":">>[1] = ":" /\ i = Len(d) + 1
    OBVIOUS
  <2>3. dm[i] = <<":">>[1]
    BY <1>2, <2>2, ConcatProperties
  <2> QED BY <2>1, <2>2, <2>3
<1>5. em \in Seq(Chars) /\ Len(em) = Len(e) + 1 /\ em[i] = e[i]
  <2>1. em \in Seq(Chars) /\ Len(em) = Len(e) + Len(<<":">>) /\ em[i] = e[i]
    BY <1>2, <1>3, ConcatProperties
  <2> QED BY <2>1
<1>6. dm \o u = em \o v
  OBVIOUS
<1> HIDE DEF dm, em
<1>7. (dm \o u)[i] = dm[i]
  <2>1. i \in 1 .. Len(dm)
    BY <1>3, <1>4
  <2> QED BY <1>4, <2>1, ConcatProperties
<1>8. (em \o v)[i] = em[i]
  <2>1. i \in 1 .. Len(em)
    BY <1>3, <1>5
  <2> QED BY <1>5, <2>1, ConcatProperties
<1>9. e[i] = ":"
  BY <1>4, <1>5, <1>6, <1>7, <1>8
<1>10. e[i] \in DigitChars
  BY <1>3, ElementOfSeq
<1> QED BY <1>9, <1>10, DigitsApart

\* The measure of a text is digits and the delimiter.
LEMMA MeasureIsSequence ==
    ASSUME NEW t \in Texts
    PROVE  /\ Decimal(Len(t)) \in Seq(DigitChars)
           /\ Measure(t) = Decimal(Len(t)) \o <<":">>
           /\ Measure(t) \in Seq(Chars)
           /\ Len(Measure(t)) = Len(Decimal(Len(t))) + 1
<1>1. Decimal(Len(t)) \in Seq(DigitChars)
  BY TextIsSequence, DecimalShape
<1> DEFINE digits == Decimal(Len(t))
<1>2. digits \in Seq(Chars) /\ <<":">> \in Seq(Chars)
  BY <1>1 DEF Chars, Letters
<1>3. Measure(t) = digits \o <<":">>
  BY DEF Measure
<1> HIDE DEF digits
<1>4. digits \o <<":">> \in Seq(Chars) /\ Len(digits \o <<":">>) = Len(digits) + 1
  <2>1. digits \o <<":">> \in Seq(Chars) /\ Len(digits \o <<":">>) = Len(digits) + Len(<<":">>)
    BY <1>2, ConcatProperties
  <2> QED BY <2>1
<1> QED BY <1>1, <1>3, <1>4 DEF digits

\* What follows the namespace in a stored name.
Rest(op) ==
    CASE op \in StepId -> op.name
      [] op \in KeyedId -> Measure(op.name) \o (op.name \o op.key)
      [] op \in WaitId -> op.queue \o <<":", op.id>>

\* The kinds tell the three forms of identity apart.
LEMMA KindOfIdentity ==
    ASSUME NEW op \in Identities
    PROVE  /\ op.kind \in Kinds
           /\ op \in StepId <=> op.kind \in {"$step:", "$sleep:"}
           /\ op \in KeyedId <=> op.kind = "$step-keyed:"
           /\ op \in WaitId <=> op.kind = "$await-task:"
BY DEF Identities, StepId, KeyedId, WaitId, Kinds

\* The rest of a name is a sequence of characters.
LEMMA RestIsSequence ==
    ASSUME NEW op \in Identities
    PROVE  Rest(op) \in Seq(Chars)
<1>1. CASE op \in StepId
  <2>1. Rest(op) = op.name
    BY <1>1, KindOfIdentity DEF Rest
  <2> QED BY <1>1, <2>1, TextIsSequence DEF StepId
<1>2. CASE op \in KeyedId
  <2>1. op.name \in Texts /\ op.key \in Texts
    BY <1>2 DEF KeyedId
  <2>2. op.name \in Seq(Chars) /\ op.key \in Seq(Chars) /\ Measure(op.name) \in Seq(Chars)
    BY <2>1, TextIsSequence, MeasureIsSequence
  <2>3. Rest(op) = Measure(op.name) \o (op.name \o op.key)
    BY <1>2, KindOfIdentity DEF Rest
  <2> QED BY <2>2, <2>3, ConcatProperties
<1>3. CASE op \in WaitId
  <2>1. op.queue \in Texts /\ op.id \in TaskIds
    BY <1>3 DEF WaitId
  <2>2. op.queue \in Seq(Chars) /\ <<":", op.id>> \in Seq(Chars)
    BY <2>1, TextIsSequence DEF Chars, Letters
  <2>3. Rest(op) = op.queue \o <<":", op.id>>
    BY <1>3, KindOfIdentity DEF Rest
  <2> QED BY <2>2, <2>3, ConcatProperties
<1> QED BY <1>1, <1>2, <1>3 DEF Identities

\* A stored name is the namespace of its kind and the rest.
LEMMA ShapeOfName ==
    ASSUME NEW op \in Identities, StorageName(op) # Refused
    PROVE  StorageName(op) = <<op.kind>> \o Rest(op)
<1>1. CASE op \in StepId
  <2>1. StorageName(op) = WorkflowStorageName(op.kind, op.name) /\ Rest(op) = op.name
    BY <1>1, KindOfIdentity DEF StorageName, Rest
  <2> QED BY <2>1 DEF WorkflowStorageName, Fitting
<1>2. CASE op \in KeyedId
  <2> DEFINE prefix == <<op.kind>>
             measure == Measure(op.name)
             both == op.name \o op.key
  <2>1. /\ StorageName(op) = KeyedWorkflowStorageName(op.kind, op.name, op.key)
        /\ Rest(op) = measure \o both
    BY <1>2, KindOfIdentity DEF StorageName, Rest
  <2>2. StorageName(op) = prefix \o measure \o both
    BY <2>1 DEF KeyedWorkflowStorageName, Fitting
  <2>3. op.name \in Texts /\ op.key \in Texts
    BY <1>2 DEF KeyedId
  <2>4. op.name \in Seq(Chars) /\ op.key \in Seq(Chars) /\ measure \in Seq(Chars)
    BY <2>3, TextIsSequence, MeasureIsSequence
  <2>5. prefix \in Seq(Chars) /\ both \in Seq(Chars)
    BY <2>4, KindOfIdentity, ConcatProperties DEF Chars
  <2>6. SUFFICES StorageName(op) = prefix \o Rest(op)
    OBVIOUS
  <2> HIDE DEF prefix, measure, both
  <2>7. prefix \o measure \o both = prefix \o (measure \o both)
    BY <2>4, <2>5, Regrouped, Zenon
  <2> QED BY <2>1, <2>2, <2>7
<1>3. CASE op \in WaitId
  <2>1. /\ StorageName(op) = TaskWaitName(op.queue, op.id)
        /\ Rest(op) = op.queue \o <<":", op.id>> /\ op.kind = "$await-task:"
    BY <1>3, KindOfIdentity DEF StorageName, Rest
  <2>2. op.queue \in Seq(Chars) /\ <<":", op.id>> \in Seq(Chars) /\ <<op.kind>> \in Seq(Chars)
    BY <1>3, <2>1, TextIsSequence DEF WaitId, Chars, Letters, Kinds
  <2>3. StorageName(op) = <<op.kind>> \o op.queue \o <<":", op.id>>
    BY <2>1 DEF TaskWaitName
  <2> DEFINE prefix == <<op.kind>>
             suffix == <<":", op.id>>
  <2>4. /\ prefix \in Seq(Chars) /\ suffix \in Seq(Chars)
        /\ StorageName(op) = prefix \o op.queue \o suffix /\ Rest(op) = op.queue \o suffix
    BY <2>1, <2>2, <2>3
  <2>5. SUFFICES StorageName(op) = prefix \o Rest(op)
    OBVIOUS
  <2> HIDE DEF prefix, suffix
  <2>6. prefix \o op.queue \o suffix = prefix \o (op.queue \o suffix)
    BY <2>2, <2>4, Regrouped, Zenon
  <2> QED BY <2>4, <2>6
<1> QED BY <1>1, <1>2, <1>3 DEF Identities

\* The measure of the name in front of a keyed name keeps (name, key) pairs
\* apart whatever characters they contain.
LEMMA KeyedRests ==
    ASSUME NEW o \in KeyedId, NEW p \in KeyedId, Rest(o) = Rest(p), o.kind = p.kind
    PROVE  o = p
<1>1. o \in Identities /\ p \in Identities
  BY DEF Identities
<1>2. o.name \in Texts /\ o.key \in Texts /\ p.name \in Texts /\ p.key \in Texts
  BY DEF KeyedId
<1>3. /\ o.name \in Seq(Chars) /\ o.key \in Seq(Chars) /\ Len(o.name) \in Nat /\ Len(o.name) <= 9999
      /\ p.name \in Seq(Chars) /\ p.key \in Seq(Chars) /\ Len(p.name) \in Nat /\ Len(p.name) <= 9999
  BY <1>2, TextIsSequence
<1> DEFINE d == Decimal(Len(o.name))
           e == Decimal(Len(p.name))
           m == Measure(o.name)
           n == Measure(p.name)
           u == o.name \o o.key
           v == p.name \o p.key
<1>4. u \in Seq(Chars) /\ v \in Seq(Chars)
  BY <1>3, ConcatProperties
<1>5. m \o u = n \o v
  BY <1>1, KindOfIdentity DEF Rest
<1>6. /\ d \in Seq(DigitChars) /\ m = d \o <<":">> /\ m \in Seq(Chars) /\ Len(m) = Len(d) + 1
      /\ e \in Seq(DigitChars) /\ n = e \o <<":">> /\ n \in Seq(Chars) /\ Len(n) = Len(e) + 1
  BY <1>2, MeasureIsSequence
<1>7. m = n => Len(o.name) = Len(p.name)
  <2>1. ASSUME m = n PROVE d = e
    <3> HIDE DEF d, e, m, n
    <3>1. Len(d) \in Nat /\ Len(e) \in Nat
      BY <1>6
    <3>2. Len(d) = Len(e)
      BY <1>6, <2>1, <3>1
    <3>3. d \in Seq(Chars) /\ e \in Seq(Chars) /\ <<":">> \in Seq(Chars)
      BY <1>6 DEF Chars, Letters
    <3>4. d \o <<":">> = e \o <<":">>
      BY <1>6, <2>1
    <3> DEFINE colon == <<":">>
    <3>5. colon \in Seq(Chars) /\ d \o colon = e \o colon
      BY <3>3, <3>4
    <3> HIDE DEF colon
    <3> QED BY <3>2, <3>3, <3>5, PartsEqual
  <2> QED BY <1>3, <2>1, DecimalInjective
<1> HIDE DEF d, e, m, n, u, v
<1>8. (d \o <<":">>) \o u = (e \o <<":">>) \o v
  BY <1>5, <1>6
<1>9. ~(Len(d) < Len(e)) /\ ~(Len(e) < Len(d))
  BY <1>4, <1>6, <1>8, DelimiterEndsLength
<1>10. Len(m) = Len(n)
  <2>1. Len(d) \in Nat /\ Len(e) \in Nat
    BY <1>6
  <2> QED BY <1>6, <1>9, <2>1
<1>11. m = n /\ u = v
  <2>1. m \in Seq(Chars) /\ n \in Seq(Chars)
    BY <1>6
  <2> QED BY <1>4, <1>5, <1>10, <2>1, PartsEqual, Zenon
<1>12. o.name \o o.key = p.name \o p.key
  BY <1>11 DEF u, v
<1>13. o.name = p.name /\ o.key = p.key
  <2>1. Len(o.name) = Len(p.name)
    BY <1>7, <1>11
  <2>2. /\ o.name \in Seq(Chars) /\ o.key \in Seq(Chars)
        /\ p.name \in Seq(Chars) /\ p.key \in Seq(Chars)
    BY <1>3
  <2> QED BY <1>12, <2>1, <2>2, PartsEqual, Zenon
<1> QED BY <1>13 DEF KeyedId

\* A wait's name ends in a task id of fixed length, so that the queue is what
\* stands before it.
LEMMA WaitRests ==
    ASSUME NEW o \in WaitId, NEW p \in WaitId, Rest(o) = Rest(p), o.kind = p.kind
    PROVE  o = p
<1>1. o \in Identities /\ p \in Identities
  BY DEF Identities
<1>2. /\ o.queue \in Seq(Chars) /\ <<":", o.id>> \in Seq(Chars)
      /\ p.queue \in Seq(Chars) /\ <<":", p.id>> \in Seq(Chars)
  BY TextIsSequence DEF WaitId, Chars, Letters
<1>3. o.queue \o <<":", o.id>> = p.queue \o <<":", p.id>>
  BY <1>1, KindOfIdentity DEF Rest
<1>4. Len(o.queue) + 2 = Len(p.queue) + 2
  <2>1. Len(o.queue \o <<":", o.id>>) = Len(o.queue) + 2
    BY <1>2, ConcatProperties
  <2>2. Len(p.queue \o <<":", p.id>>) = Len(p.queue) + 2
    BY <1>2, ConcatProperties
  <2> QED BY <1>3, <2>1, <2>2
<1>5. Len(o.queue) = Len(p.queue)
  BY <1>2, <1>4
<1>6. o.queue = p.queue /\ <<":", o.id>> = <<":", p.id>>
  <2> DEFINE suffix == <<":", o.id>>
             other == <<":", p.id>>
  <2>1. /\ suffix \in Seq(Chars) /\ other \in Seq(Chars)
        /\ o.queue \o suffix = p.queue \o other
    BY <1>2, <1>3
  <2>2. SUFFICES o.queue = p.queue /\ suffix = other
    OBVIOUS
  <2> HIDE DEF suffix, other
  <2> QED BY <1>2, <1>5, <2>1, PartsEqual
<1>7. o.id = p.id
  BY <1>6
<1> QED BY <1>6, <1>7 DEF WaitId

\* Two operations with one stored name are one operation.
LEMMA EncodingIsInjective ==
    ASSUME NEW o \in Identities, NEW p \in Identities,
           StorageName(o) = StorageName(p), StorageName(o) # Refused
    PROVE  o = p
<1>1. <<o.kind>> \o Rest(o) = <<p.kind>> \o Rest(p)
  BY ShapeOfName
<1>2. /\ <<o.kind>> \in Seq(Chars) /\ <<p.kind>> \in Seq(Chars)
      /\ Len(<<o.kind>>) = Len(<<p.kind>>)
  BY KindOfIdentity DEF Chars
<1>3. <<o.kind>> = <<p.kind>> /\ Rest(o) = Rest(p)
  BY <1>1, <1>2, RestIsSequence, PartsEqual
<1>4. o.kind = p.kind
  BY <1>3
<1>5. CASE o \in StepId
  <2>1. p \in StepId
    BY <1>4, <1>5, KindOfIdentity
  <2>2. o.name = p.name
    BY <1>3, <1>5, <2>1, KindOfIdentity DEF Rest
  <2> QED BY <1>4, <1>5, <2>1, <2>2 DEF StepId
<1>6. CASE o \in KeyedId
  BY <1>3, <1>4, <1>6, KindOfIdentity, KeyedRests
<1>7. CASE o \in WaitId
  BY <1>3, <1>4, <1>7, KindOfIdentity, WaitRests
<1> QED BY <1>5, <1>6, <1>7 DEF Identities

\* What a handler ran: operations of the API under their stored names.
Operations == { [op |-> o, name |-> StorageName(o)] : o \in Identities }

\* For all names and keys of up to 9999 bytes and every limit of the stored name:
\* no two durable operations of a handler share a checkpoint.
THEOREM NamesAreInjectiveHolds == IdentitySpec => []NamesAreInjective
<1> DEFINE Inv == ran \in Seq(Operations)
<1>1. IdentityInit => Inv
  BY DEF IdentityInit
<1>2. Inv /\ [IdentityNext]_ran => Inv'
  <2> SUFFICES ASSUME Inv, IdentityNext PROVE Inv'
    OBVIOUS
  <2>1. PICK o \in Identities : ran' = Append(ran, [op |-> o, name |-> StorageName(o)])
    BY DEF IdentityNext, Run
  <2>2. [op |-> o, name |-> StorageName(o)] \in Operations
    BY DEF Operations
  <2> QED BY <2>1, <2>2
<1>3. Inv => NamesAreInjective
  <2> SUFFICES ASSUME Inv, NEW i \in 1 .. Len(ran), NEW j \in 1 .. Len(ran),
                      ran[i].name = ran[j].name, ran[i].name # Refused
               PROVE  ran[i].op = ran[j].op
    BY DEF NamesAreInjective
  <2>1. ran[i] \in Operations /\ ran[j] \in Operations
    BY ElementOfSeq
  <2>2. PICK o \in Identities : ran[i] = [op |-> o, name |-> StorageName(o)]
    BY <2>1 DEF Operations
  <2>3. PICK p \in Identities : ran[j] = [op |-> p, name |-> StorageName(p)]
    BY <2>1 DEF Operations
  <2> QED BY <2>2, <2>3, EncodingIsInjective
<1> QED
  BY <1>1, <1>2, <1>3, PTL DEF IdentitySpec
=============================================================================
