CONSTANTS
    x1 = x1
    x2 = x2
    x3 = x3
    NoLock = NoLock
    MaxRaised = 2
    Executions <- MCExecutions
    KeyMaps <- MCKeyMaps
    CacheLimits <- MCLimits
SPECIFICATION Spec
CHECK_DEADLOCK FALSE
INVARIANTS
    OneCreatorPerKey
    CachesSettle
PROPERTIES
    InUseIsKept
    ExecutionsReturn
