CONSTANTS
    Replicas = {p1, p2}
    Orgs = {o1}
    Users = {u1, u2}
    NoOrg = NoOrg
    MaxDay = 2
    Faults = TRUE
SPECIFICATION FairSpec
INVARIANTS OncePerDate KeyMeansAlert
PROPERTIES AlertsAreSent
CHECK_DEADLOCK FALSE
