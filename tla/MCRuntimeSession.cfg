SPECIFICATION Spec
CONSTANTS
    r = r  u = u  v = v  g = g
    Allocated = {r}
    Users = {u, v}
    Cuda = {g}
    Ids = {1, 2, 3}
    IdOf <- MCIdOf
    Intents = {1}
    MaxSessions = 2
    None = None
CHECK_DEADLOCK FALSE
INVARIANTS
    OwnedMemoryIsTracked
    NoSessionLeftOpen
PROPERTIES
    SubmittedAsRegistered
