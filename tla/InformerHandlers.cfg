SPECIFICATION TransformSpec
CONSTANTS
    Namespaces = {a, b}
    Instances = {i1, i2}
    Runners = {r1}
    Handlers = {h1, h2}
    Removable = {h1, h2}
    IndexerSets = {}
    WatchHandlers = {}
    Setters = {s1}
    None = none
SYMMETRY Symmetry
INVARIANTS
    HandlersListen
    RegistrationIsCurrent
    TransformReachesAll
