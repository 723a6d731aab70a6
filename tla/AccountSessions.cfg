SPECIFICATION AccountSpec
CONSTANTS
    h1 = h1
    h2 = h2
    Logins = {l1, l2}
    Logouts = {q1}
    Hashes = {h1, h2}
    Password <- MCPassword
    Initially <- MCInitially
    Expiration = 1
    MaxEdits = 2
    MaxClock = 1
INVARIANTS SessionHonoured RevokedStaysOut LogoutFinal
PROPERTIES IssuedUnderPolicy
CHECK_DEADLOCK FALSE
