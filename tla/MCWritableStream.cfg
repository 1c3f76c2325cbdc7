SPECIFICATION Spec
CONSTANTS
    Callbacks = {c1, c2, c3}
    NoCallback = NoCallback
    HighWaterMark = 1
    MaxLength = 3
    MaxCorks = 2
    MaxDepth = 3
INVARIANTS
    NoneWaits
    FinishedAll
CHECK_DEADLOCK FALSE
