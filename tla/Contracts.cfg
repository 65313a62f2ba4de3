CONSTANTS
    Contracts = {c1}
    Requests = {r1, r2, r3}
    NoContract = NoContract
    Faults = TRUE
SPECIFICATION FairSpec
INVARIANTS ListedHasFile FileHasContract JobIsExplained FailedIsNeverProcessed
PROPERTIES ImplementsLifecycle ServerErrorIsExplained AcceptedIsProcessed
CHECK_DEADLOCK FALSE
