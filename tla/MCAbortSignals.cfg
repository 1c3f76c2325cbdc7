SPECIFICATION Spec
CONSTANTS
    Signals = {s1, s2, s3}
    Reasons = {r1}
    Inputs <- OneOrTwo
    Nodes = {n1, n2, n3}
    TimeoutError = TimeoutError
    Undefined = Undefined
    OnAbort = OnAbort
    Script = Script
    Freed = Freed
    MaxWalks = 1
SYMMETRY Symmetric
INVARIANTS
    DependentsAborted
    AllFired
    SourceFirst
CHECK_DEADLOCK FALSE
