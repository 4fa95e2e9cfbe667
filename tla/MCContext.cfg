SPECIFICATION ContextSpec
CONSTANTS
    Tasks = {t1}
    Requests <- MCRequests
    n1 = n1
    Names = {n1}
    Workers = {w1, w2}
    NoWorker = NoWorker
    Steps = {s1, z1}
    SleepNames = {z1}
    Values = {0, 1, 2}
    NoValue = NoValue
    Futures = {f1, f2}
    NoFuture = NoFuture
    Reread <- MCReread
    MaxNames = 1
    Lease = 1
    Ttl = 9
    BatchLimit = 1
    MaxAttempt = 2
    MaxTime = 2
    MaxWake = 2
    MaxLockWait = 0
SYMMETRY MCSymmetry
INVARIANTS StepsAgree CacheCoherent BodiesSerialized SleepKeepsItsTime
