SPECIFICATION FairSpec
CONSTANTS
    ka = ka  kb = kb
    Requests = {1, 2, 3, 4}
    Keys = {ka, kb}
    KeyOf <- MCKeyOf
    Savers = {1, 2, 3}
    Tokens <- MCTokens
    MatchedTokens <- MCMatched
    SaveBlocks <- MCSaveBlocks
    ComputedTokens = {0, 2}
    BlockSize = 2
    MaxSavedPrefixes = 1
    RestoreBlockLimit = 0
    Layers = 2
    Backings = {1, 2, 3}
    PipelineDepth = 1
    None = None
CHECK_DEADLOCK FALSE
INVARIANTS
    BackingsHaveOneOwner
    RestoreIsWhole
PROPERTIES
    WaitersProceed
