SPECIFICATION Spec
CONSTANTS
    Files <- TwoFiles
    Contents <- AtFirst
    Calls = {1, 2, 3, 4}
    Plans <- Cases
    Fds = {1, 2}
    Threads = 2
    ChunkSize = 2
    MaxFaults = 1
INVARIANTS
    OwnDescriptors
    NoneLeaked
PROPERTIES
    AnsweredTruly
    AllAnswered
CHECK_DEADLOCK FALSE
