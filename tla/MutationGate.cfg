SPECIFICATION Spec
CONSTANTS
    a = a
    b = b
    c = c
    d1 = d1
    d2 = d2
    Ids = {d1, d2}
    Commands = {a, b, c}
    NoOne = NoOne
    Docs <- MCDocs
    InitDocs <- MCInitDocs
    Targets <- MCTargets
    Update <- MCUpdate
PROPERTIES Linearizable GateServesAll
CHECK_DEADLOCK FALSE
