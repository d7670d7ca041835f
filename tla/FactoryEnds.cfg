SPECIFICATION Spec
CONSTANTS
    None = none
    EndingBound = 1
    Resources = {r1, c1}
    ClusterScoped = {c1}
    Cluster = cluster
    Namespaces = {a}
    Chans = {ch1}
    Stoppers = {s1}
    Waiters = {w1}
PROPERTIES
    ShutdownEnds
    WaitEnds
