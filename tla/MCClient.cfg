SPECIFICATION ClientSpec
CONSTANTS
    Tasks = {t1}
    Requests <- MCRequests
    n1 = n1
    n2 = n2
    Names = {n1, n2}
    Workers = {w1}
    NoWorker = NoWorker
    Clients = {c1, c2}
    Steps = {}
    Values = {}
    NoValue = NoValue
    Lease = 1
    Ttl = 1
    BatchLimit = 1
    MaxAttempt = 2
    MaxTime = 2
    MaxWake = 2
    MaxLockWait = 1
INVARIANTS OutcomesAgree CancelIsDurable
PROPERTIES OnlyOwnTasksControlled
