CONSTANTS
    Requests = {r1, r2, r3}
    Limit = 2
    Window = 2
    MaxRetries = 1
    Faults = TRUE
SPECIFICATION FairSpec
INVARIANTS LimitHolds RejectedIsDeserved
PROPERTIES WindowNeverExtended WindowsEnd
CHECK_DEADLOCK FALSE
