SPECIFICATION Spec
CONSTANTS
    Factories <- PkgGenerated
    Unknown <- UnknownResource
    MaxAnswers = 2
CHECK_DEADLOCK FALSE
INVARIANTS
    ServesWhatWasAsked
    OneCachePerResource
    NothingIsMissing
