SPECIFICATION FairSpec
CONSTANTS
    prof = prof
    term = term
    Prof = prof
    Others = {term}
    Orig <- MCOrig
    QueueSize = 2
    UserFns <- MCUserFns
    Timeouts = {TRUE, FALSE}
    MaxRaised = 3
    MaxBlocks = 3
    MaxRequests = 2
    MaxInstalls = 2
    MaxBailouts = 1
INVARIANTS TypeOK MaskRestored StorageConserved BlockedMeansQueued CriticalSection
INVARIANTS RunningIsTransient TimerStaysDeliverable
PROPERTY DeferredHandled
CHECK_DEADLOCK FALSE
