SPECIFICATION Spec
CONSTANTS
    None = none
    EndingBound = 0
    Resources = {r1, c1}
    ClusterScoped = {c1}
    Cluster = cluster
    Namespaces = {a, b}
    Chans = {ch1}
    Stoppers = {s1}
    Waiters = {w1}
INVARIANTS
    AllFollow
    EveryNameIsWatched
    ShutdownIsQuiet
    WaitedAreSynced
