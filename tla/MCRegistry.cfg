SPECIFICATION RegistrySpec
CONSTANTS
    Queues = {1, 2}
    LockOf <- DistinctLocks
    Sessions = {s1, s2}
    Nobody = Nobody
    DefaultTtl = 2
    DefaultLimit = 1
    Ttls = {}
    Limits = {0, 2}
    MaxDone = 2
INVARIANTS MetadataMeetsStorage NoLostPolicy
PROPERTIES EveryCallEnds
