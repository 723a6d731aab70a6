SPECIFICATION RegistrySpec
CONSTANTS
    a = a
    b = b
    Names = {a, b}
    IndexLists <- Lists
    Databases <- OldDatabases
    MaxCommands = 4
    MaxFailures = 2
INVARIANTS
    RegistryIsStored
    CollectionsAreWhole
    AcknowledgedStays
SYMMETRY NameSymmetry
CHECK_DEADLOCK FALSE
