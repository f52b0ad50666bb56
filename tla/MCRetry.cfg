SPECIFICATION ExecutionSpec
CONSTANTS
    s1 = s1  t1 = t1  j1 = j1  b1 = b1  i1 = i1  e1 = e1  e2 = e2
    SessionIds = {s1}
    Transfers = {t1}
    Jobs = {j1}
    Buffers = {b1}
    Intents = {i1}
    Relays = {1, 2}
    Executions = {e1, e2}
    MixedIntents = {}
    MaxFaults = 1
    LastFault = 1
    MaxBegun = 1
    IntentJob <- MCIntentJob
    IntentBuffers <- MCIntentBuffers
    SessionMaxChunks = 2
    RelayMaxChunks = 1
    RelayMaxSessions = 1
    LeaseSeconds = 1
    PlanSeconds = 1
    SessionTimeout = 0
    TotalBytes = 1
    MaxTime = 3
    None = None
SYMMETRY Ids
CHECK_DEADLOCK FALSE
INVARIANTS
    NoFalseCompletion
    ResultIsDurable
    NoLeaseLeftBehind
PROPERTIES
    CompletionAccepted
