SPECIFICATION Spec
CONSTANTS
    Dests = {d1}
    NoDest = NoDest
    MaxPushes = 3
    MaxPipes = 2
    MaxDepth = 3
INVARIANTS
    Conserved
    FlowingDrained
    EndReached
    EndLast
    DataInOrder
CHECK_DEADLOCK FALSE
