SPECIFICATION Spec
CONSTANTS
    Contents <- PackageContents
    Prefixes = {"p", "q"}
    Parents = {"x", "y"}
    Lasts = {"v1", "v2"}
    Groups = {"g", "x"}
    TypeNames = {"t", "u"}
    MaxDirs = 3
    None = none
CHECK_DEADLOCK FALSE
INVARIANTS
    ForResourceIsExact
    FailsOnlyOnClash
