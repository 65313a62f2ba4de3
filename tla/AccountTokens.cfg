CONSTANTS
    Users = {u1}
    Tokens = {t1, t2, t3, t4}
    Requests = {r1, r2}
    NoUser = NoUser
    NoToken = NoToken
    Faults = TRUE
SPECIFICATION Spec
SYMMETRY Symmetry
INVARIANTS LastMailWorks
PROPERTIES UsedIsNeverFound
CHECK_DEADLOCK FALSE
