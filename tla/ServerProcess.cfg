SPECIFICATION ProcessSpec
CONSTANTS
    k1 = k1
    k2 = k2
    k3 = k3
    h1 = h1
    Keys = {k1, k2, k3}
    Handlers = {h1}
    Configurations <- MCConfigurations
    MaxTracked = 2
    FlushSize = 2
    MaxCalls = 1
INVARIANTS CallsConserved ShutdownInOrder
PROPERTIES NothingHangs
CHECK_DEADLOCK FALSE
