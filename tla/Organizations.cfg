\* Two requests at a time, with faults.
SPECIFICATION Spec
CONSTANTS
    Users = {u1, u2}
    Orgs = {o1, o2}
    Requests = {r1, r2}
    Roles = {"admin", "member"}
    NoUser = NoUser
    NoOrg = NoOrg
    Faults = TRUE
SYMMETRY Symmetry
INVARIANTS StrandedOnlyIfRaced
PROPERTIES OrphanOnlyIfStale AdminLossIsExplained
CHECK_DEADLOCK FALSE
