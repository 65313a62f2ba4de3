CONSTANTS
    Users = {u1}
    Tokens = {t1, t2, t3}
    Requests = {r1, r2}
    NoUser = NoUser
    NoToken = NoToken
    MaxPassword = 1
    Faults = FALSE
SPECIFICATION Spec
SYMMETRY Symmetry
INVARIANTS SessionsEndWithPassword
CHECK_DEADLOCK FALSE
