SPECIFICATION Spec
CONSTANTS
    All = all
    None = none
    Namespaces = {all, a, b}
    Instances = {i1, i2}
    Runners = {r1}
    Callers = {c1}
INVARIANTS
    InformerFollowsSet
PROPERTIES
    YesMeansSynced
    EventuallySynced
    LetGoStops
    StopReachesAll
