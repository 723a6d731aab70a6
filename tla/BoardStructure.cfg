SPECIFICATION Spec
CONSTANTS
    b1 = b1
    b2 = b2
    c1 = c1
    c2 = c2
    A = A
    B = B
    Boards = {b1, b2}
    Cards = {c1, c2}
    Titles = {A, B}
    Rescued = Rescued
    Lanes = {1, 2, 3}
    Lists = {1, 2, 3}
    None = None
    Databases <- MCDatabases
    MaxRuns = 3
INVARIANTS CreatedOnce 
PROPERTIES CardsStayInTheirColumn RunIsIdempotent MarkerGoesLast
CHECK_DEADLOCK FALSE
