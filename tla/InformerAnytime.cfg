SPECIFICATION Spec
CONSTANTS
    Namespaces = {a, b}
    Instances = {i1, i2}
    Runners = {r1}
    Handlers = {}
    Removable = {}
    IndexerSets = {}
    WatchHandlers = {}
    None = none
INVARIANT
    NeverPanics
