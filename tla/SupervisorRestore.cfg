SPECIFICATION FairSpec
CONSTANTS
    LastKey = 2
    MaxKnown = 3
    MaxPending = 1
    Delays = 1
    Starts <- Restoring
INVARIANT CleanAttemptsSucceed
CHECK_DEADLOCK FALSE
