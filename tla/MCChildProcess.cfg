SPECIFICATION Spec
CONSTANTS
    c1 = c1
    c2 = c2
    Children = {c1, c2}
    Streams = {o}
    Scenarios <- Pairs
    Victims = {c1}
    MaxBuffer = 1
    MaxBytes = 2
    MaxMessages = 2
INVARIANTS
    AloneWhole
    InOrder
    PartedOnce
    NoUseAfterFree
PROPERTIES
    ExecAnswered
    Delivered
CHECK_DEADLOCK FALSE
