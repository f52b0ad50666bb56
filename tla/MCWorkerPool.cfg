SPECIFICATION Spec
CONSTANTS
    None = None
    t1 = t1
    t2 = t2
    c1 = c1
    Transfers = {t1, t2}
    Callers = {c1}
    MaxExecutions = 3
    MaxWorkers = 2
    MaxCancels = 1
    HistoryLimit = 1
CHECK_DEADLOCK FALSE
INVARIANTS
    TablesShowExecutions
    HistoryIsTruthful
    CloseLeavesNothing
PROPERTIES
    ExecutionsEnd
