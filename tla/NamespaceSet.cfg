SPECIFICATION Spec
CONSTANTS
    All = all
    Namespaces = {all, a, b, c}
    Handlers = {h1, h2, h3}
    Nil = nil
INVARIANTS
    TypeOK
    CallsAlternate
    HandlersAgree
    AllIsExclusive
    TransitionIsClean
PROPERTIES
    ImplementsAtomic
