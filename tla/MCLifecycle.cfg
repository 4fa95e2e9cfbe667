SPECIFICATION Spec
CONSTANTS
    Tasks = {t1}
    Requests <- MCRequests
    n1 = n1
    n2 = n2
    Names = {n1, n2}
    Workers = {w1, w2}
    NoWorker = NoWorker
    Steps = {s1}
    Values = {v1, v2}
    NoValue = NoValue
    Lease = 2
    Ttl = 1
    BatchLimit = 1
    MaxAttempt = 3
    MaxTime = 5
    MaxWake = 5
    MaxLockWait = 1
INVARIANTS TypeOK AuthoritativeRun AttemptHistory LeaseIffRunning DeadlineWins
PROPERTIES TerminalIsFinal LeaseFencing CheckpointsImmutable ImplementsTaskLifecycle
