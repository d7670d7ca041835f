SPECIFICATION Spec
CONSTANTS
    Namespaces = {a, b}
    Instances = {i1, i2, i3}
    Runners = {r1, r2}
    Handlers = {}
    Removable = {}
    IndexerSets = {x1}
    WatchHandlers = {w1}
    None = none
SYMMETRY Symmetry
INVARIANTS
    TypeOK
    OpenIffTracked
    LaunchedOnce
    PanicOnlyAfterStop
    UniformUntilStarted
