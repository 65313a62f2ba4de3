CONSTANTS
    Messages = {m1, m2}
    Nobody = Nobody
    MaxFaults = 2
    AuditFaults = TRUE
SPECIFICATION FairServerSpec
INVARIANTS FailureIsExplained LostOnlyByFault AuditLossIsExplained
PROPERTIES ImplementsQueue RequestsEnd SignalEnds
CHECK_DEADLOCK FALSE
