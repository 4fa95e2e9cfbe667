SPECIFICATION WorkerSpec
CONSTANTS
    Tasks = {t1}
    Requests <- MCRequests
    n1 = n1
    Names = {n1}
    Workers = {w1, w2}
    NoWorker = NoWorker
    Steps = {s1}
    Values = {v1}
    NoValue = NoValue
    Lease = 2
    Ttl = 9
    BatchLimit = 1
    MaxAttempt = 2
    MaxTime = 3
    MaxWake = 0
    MaxLockWait = 0
    Concurrency = 1
    ErrorsPropagate = FALSE
SYMMETRY MCSymmetry
INVARIANTS OwnerUndisturbed 
