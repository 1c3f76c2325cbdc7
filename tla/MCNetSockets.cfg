SPECIFICATION Spec
CONSTANTS
    Scenarios <- Cases
INVARIANTS
    Conserved
    EndIsWhole
    CloseIsLast
PROPERTIES
    Answered
    EndArrives
CHECK_DEADLOCK FALSE
