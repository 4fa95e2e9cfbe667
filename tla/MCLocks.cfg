SPECIFICATION LocksSpec
CONSTANTS
    Callers = {p1, p2, p3}
    MaxRuns = 3
    NoCaller = NoCaller
INVARIANTS CyclesNeedCancelOrCleanup
PROPERTIES CommitsAreAtomic
