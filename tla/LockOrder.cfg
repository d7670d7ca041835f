SPECIFICATION Spec
CONSTANTS
    x1 = x1
    x2 = x2
    x3 = x3
    x4 = x4
    Goroutines = {g1, g2}
    Informers = {x1, x2, x3, x4}
    Direct = {x3, x4}
    Factory = f
    Set = n
    Mutexes = {m1}
    OnDelete <- Handlers
    None = none
INVARIANTS
    LocksAreHeld
    NoDeadlock
PROPERTY
    CallsReturn
