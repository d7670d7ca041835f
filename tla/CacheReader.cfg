SPECIFICATION ReaderSpec
CONSTANTS
    All = all
    None = none
    Objects = {a, b}
    Instances = {i1, i2, i3}
    WithHandler = FALSE
    MaxCalls = 2
    MaxChanges = 2
    Readers = {r1}
SYMMETRY Symmetry
CHECK_DEADLOCK FALSE
INVARIANTS
    NoDuplicates
    OnlyNewNames
    ReadsWhatStays
    GetAgreesWithList
