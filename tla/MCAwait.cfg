SPECIFICATION AwaitSpec
CONSTANTS
    first = first
    second = second
    third = third
    Tasks = {first, second, third}
    NoTask = NoTask
    MaxAttempt = 2
    QueueOf <- MCQueueOf
    Slots <- MCSlots
    Target <- MCTarget
    Permits = 2
    Timeout <- MCTimeout
    NoTimeout = NoTimeout
    InitialBackoff = 1
    MaxBackoff = 4
CHECK_DEADLOCK FALSE
INVARIANTS WaitsAgree
PROPERTIES EveryTaskEnds
