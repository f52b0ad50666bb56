SPECIFICATION Spec
CONSTANTS
    x1 = x1  x2 = x2  t1 = t1  t2 = t2  j1 = j1  j2 = j2  b1 = b1  i1 = i1  i2 = i2
    SessionIds = {x1, x2}
    Transfers = {t1, t2}
    Jobs = {j1}
    Buffers = {b1}
    Intents = {i1, i2}
    Relays = {1}
    IntentJob <- MCIntentJob
    IntentBuffers <- MCIntentBuffers
    SessionMaxChunks = 1
    RelayMaxChunks = 1
    RelayMaxSessions = 1
    LeaseSeconds = 1
    PlanSeconds = 1
    SessionTimeout = 1
    TotalBytes = 0
    MaxTime = 3
    None = None
SYMMETRY Ids
CHECK_DEADLOCK FALSE
INVARIANTS
    TypeOK
    OutcomesArchived
    OwnersStayRegistered
    QuotasExact
