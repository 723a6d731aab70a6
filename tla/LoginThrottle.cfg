SPECIFICATION Spec
CONSTANTS
    Keys = {k1, k2}
    Handlers = {h1, h2}
    MaxFailures = 2
    Window = 2
    Lockout = 3
    Capacity = 1
    MaxTime = 8
SYMMETRY Interchangeable
INVARIANTS OneVerificationPerKey AdmissionRate
PROPERTIES LockoutServed
CHECK_DEADLOCK FALSE
