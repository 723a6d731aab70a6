SPECIFICATION Spec
CONSTANTS
    N = 2
    Versions = {v1, v2}
    NoVersion = NoVersion
    Problems = {p, q}
    Fixable = {p}
    MaxBoots = 3
    MaxImports = 1
INVARIANTS
    StampIsEarned
    CleanMeansResolved
PROPERTIES
    EveryRunEnds
CHECK_DEADLOCK FALSE
