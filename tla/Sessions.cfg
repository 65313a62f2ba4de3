CONSTANTS
    Users = {u1}
    Tokens = {t1, t2}
    Requests = {r1, r2}
    NoUser = NoUser
    NoToken = NoToken
    MaxPassword = 1
    Faults = TRUE
SPECIFICATION Spec
SYMMETRY Symmetry
INVARIANTS MarkerSound StaleOnlyIfRaced
PROPERTIES MarkerPersists RotatedIsNeverAccepted
CHECK_DEADLOCK FALSE
