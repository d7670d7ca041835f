SPECIFICATION Spec
CONSTANTS
    All = all
    None = none
    Objects = {a, b}
    Instances = {i1, i2}
    WithHandler = TRUE
    MaxCalls = 3
    MaxChanges = 2
CHECK_DEADLOCK FALSE
INVARIANTS
    HandlerKeepsUp
    RemovalIsAnnounced
PROPERTY
    HandlerCatchesUp
