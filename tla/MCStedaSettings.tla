-------------------------- MODULE MCStedaSettings --------------------------
(***************************************************************************)
(* What callers name and configure, and what becomes of it: one instance   *)
(* of StedaIdentity, StedaOptions, StedaRetryDelay, StedaBuilder and       *)
(* StedaCadence each.  They share no state; a behaviour is one of one of   *)
(* them, the others rest.                                                  *)
(***************************************************************************)
EXTENDS StedaIdentity, StedaOptions, StedaRetryDelay, StedaBuilder, StedaCadence

\* Every text of up to two bytes, and names and keys whose lengths have two digits.
MCTexts ==
    SeqOf(Letters \cup {Blank}, 2)
    \cup { [i \in 1 .. n |-> "a"] : n \in {11, 12} }

\* Keys of each kind of character, and of each length at the limit.
MCKeys ==
    [chars : {{}}, bytes : {0}]
    \cup [chars : {{"letter"}, {"space"}, {"no-break space"}, {"file separator"},
                   {"letter", "NUL"}, {"space", "no-break space"}}, bytes : {8}]
    \cup [chars : {{"letter"}}, bytes : {1024, 1025}]

VARIABLE part

settingsVars == <<part, ran, optionsVars, retryVars, builderVars, cadenceVars>>

Parts == {"identity", "options", "retry delay", "builder", "cadence"}

RetryRests == strategy = [kind |-> "none"] /\ attempt = 1

CadenceRests ==
    /\ half = CHOOSE h \in HalfLeases : TRUE
    /\ latency = CHOOSE l \in Latencies : TRUE
    /\ left = Lease /\ pc = "claimed" /\ timer = 0
    /\ answers = 0 /\ silent = 0

SettingsInit ==
    /\ part \in Parts
    /\ IdentityInit /\ OptionsInit /\ BuilderInit
    /\ IF part = "retry delay" THEN RetryInit ELSE RetryRests
    /\ IF part = "cadence" THEN CadenceInit ELSE CadenceRests

SettingsNext ==
    /\ part' = part
    /\ \/ /\ part = "identity" /\ IdentityNext
          /\ UNCHANGED <<optionsVars, retryVars, builderVars, cadenceVars>>
       \/ /\ part = "options" /\ OptionsNext
          /\ UNCHANGED <<ran, retryVars, builderVars, cadenceVars>>
       \/ /\ part = "retry delay" /\ RetryNext
          /\ UNCHANGED <<ran, optionsVars, builderVars, cadenceVars>>
       \/ /\ part = "builder" /\ BuilderNext
          /\ UNCHANGED <<ran, optionsVars, retryVars, cadenceVars>>
       \/ /\ part = "cadence" /\ CadenceNext
          /\ UNCHANGED <<ran, optionsVars, retryVars, builderVars>>

SettingsSpec == SettingsInit /\ [][SettingsNext]_settingsVars
=============================================================================
