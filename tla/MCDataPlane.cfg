CONSTANTS
    t1 = t1
    t2 = t2
    t3 = t3
    Transfers <- MCTransfers
    RequestOf <- MCRequestOf
    JobWeight <- MCJobWeight
    WorkerShare = 500
    BackendShare = 500
    Relays <- MCRelays
    Profile <- MCProfile
    SessionMaxChunks = 4
    RelayMaxChunks = 4
    MinChunksForRelay = 2
    MinPoolBytes = 4
    RelayMinBandwidth = 5
    RelayMinDirectRatio = 200
SPECIFICATION Spec
CHECK_DEADLOCK FALSE
INVARIANTS
    CompleteMeansCopied
    BlocksFollowPlan
    WorkerTakesPlan
    PlansAreBalanced
    LeasesWithinQuotas
    NobodyWaitsAlone
