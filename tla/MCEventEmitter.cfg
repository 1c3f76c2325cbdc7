SPECIFICATION Spec
CONSTANTS
    Events = {"go", "error"}
    Listeners = {f}
    Wrappers = {w1, w2}
    Arrays = {a1, a2, a3, a4}
    NoArray = NoArray
    MaxLength = 2
    MaxDepth = 2
SYMMETRY Symmetry
VIEW View
INVARIANTS
    OnceRemoved
PROPERTIES
    ImplementsEmitterService
CHECK_DEADLOCK FALSE
