SPECIFICATION WriterSpec
CONSTANTS
    r1 = r1
    r2 = r2
    a1 = a1
    a2 = a2
    a3 = a3
    a4 = a4
    f1 = f1
    f2 = f2
    f3 = f3
    f4 = f4
    Rows = {r1, r2}
    Actors = {a1, a2, a3, a4}
    Folds = {f1, f2, f3, f4}
    RowOf <- MCRowOf
    ActorsOf <- MCActorsOf
    MaxActors = 2
    MaxCachedRows = 1
    NoOne = NoOne
CHECK_DEADLOCK FALSE
INVARIANTS ActorCapInTime RowsAreExact
