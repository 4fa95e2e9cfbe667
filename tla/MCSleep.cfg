SPECIFICATION MetricsSpec
CONSTANTS
    Tasks = {t1}
    Requests <- MCRequests
    n1 = n1
    Names = {n1}
    Workers = {w1, w2}
    NoWorker = NoWorker
    Steps = {}
    Values = {}
    NoValue = NoValue
    Lease = 2
    Ttl = 9
    BatchLimit = 1
    MaxAttempt = 2
    MaxTime = 2
    MaxWake = 2
    MaxLockWait = 0
    Concurrency = 1
    ErrorsPropagate = TRUE
    MaxCount = 2
SYMMETRY MCSymmetry
INVARIANTS OneLiveExecution DrainReleasesLeases EveryClaimCounted
PROPERTIES OutcomesAreDurable
