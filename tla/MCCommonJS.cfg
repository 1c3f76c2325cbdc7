SPECIFICATION Spec
CONSTANTS
    Modules = {a, b, c}
    NotCached = NotCached
    Capacity = 3
    MaxDepth = 2
    MaxRuns = 2
SYMMETRY Symmetry
VIEW View
INVARIANTS
    StackExact
    OneExports
PROPERTIES
    NotRunAgain
CHECK_DEADLOCK FALSE
