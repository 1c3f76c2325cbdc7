SPECIFICATION FairSpec
CONSTANTS
    Imms = {i1, i2, i3}
    NoImm = NoImm
PROPERTIES
    NoneForgotten
    ImplementsTimerService
CHECK_DEADLOCK FALSE
