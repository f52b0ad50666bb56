SPECIFICATION Spec
CONSTANTS
    Modes = {"managed", "attach", "socket", "control"}
    EarlyWaits = TRUE
    Timeouts = TRUE
    None = None
CHECK_DEADLOCK FALSE
PROPERTIES
    CallsReturn
    FailedStartIsUndone
