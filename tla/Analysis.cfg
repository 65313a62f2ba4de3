CONSTANTS
    Requests = {r1, r2}
    Free = Free
    Faults = TRUE
    Overrides = {c1, c2}
    Retrievals = {c2}
    NoOverride = NoOverride
    NoAnalysis = NoAnalysis
SPECIFICATION FairReviewSpec
INVARIANTS OneInFlight LockLeaksOnlyByFault PendingIsExplained RunsOnlyEnqueued ShownIsRecorded NewestIsShown
PROPERTIES LockEventuallyFree AcceptedIsAnalysed RetrievalIsServed
CHECK_DEADLOCK FALSE
