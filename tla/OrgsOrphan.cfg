\* Two requests at a time, without faults.
SPECIFICATION Spec
CONSTANTS
    Users = {u1, u2}
    Orgs = {o1, o2}
    Requests = {r1, r2}
    Roles = {"admin", "member"}
    NoUser = NoUser
    NoOrg = NoOrg
    Faults = FALSE
SYMMETRY Symmetry
INVARIANT OrgsHaveMembers
CHECK_DEADLOCK FALSE
