SPECIFICATION DataSpec
CONSTANTS
    c1 = c1
    c2 = c2
    i1 = i1
    i2 = i2
    u1 = u1
    u2 = u2
    Checklists = {c1, c2}
    Items = {i1, i2}
    Users = {u1, u2}
    Words <- MCWords
    Databases <- MCDatabases
    MaxRuns = 3
    MaxChoices = 2
INVARIANTS MarkerMeansDone FieldsKeepTheirValues 
CHECK_DEADLOCK FALSE
