SPECIFICATION Spec
CONSTANTS
    prof = prof
    term = term
    Prof = prof
    Others = {term}
    Orig <- MCOrig
    QueueSize = 2
    UserFns <- MCFunc
    Timeouts = {FALSE}
    MaxRaised = 4
    MaxBlocks = 2
    MaxRequests = 1
    MaxInstalls = 2
    MaxBailouts = 0
INVARIANT UnblockFindsSignal
CHECK_DEADLOCK FALSE
