CONSTANTS
    Users = {u1, u2}
    Tokens = {t1, t2}
    Requests = {r1, r2}
    NoUser = NoUser
    NoToken = NoToken
    MaxPassword = 0
    Faults = FALSE
SPECIFICATION FairSpec
PROPERTIES ReuseEndsSessions ImplementsLedger
CHECK_DEADLOCK FALSE
