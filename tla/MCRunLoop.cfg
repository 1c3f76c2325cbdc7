SPECIFICATION FairSpec
CONSTANTS
    Timers = {t1}
    Imms = {i1}
    None = None
    MaxJobs = 2
    MaxRequests = 1
    HasServer = TRUE
    EvalBound = 1
    AwaitBound = 1
INVARIANTS
    NoWorkLost
PROPERTIES
    Ends
    ErrorsReported
CHECK_DEADLOCK FALSE
