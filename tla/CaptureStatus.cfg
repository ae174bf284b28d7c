SPECIFICATION StreamSpec
CONSTANTS
    QueueCapacity = 2
    LedgerCapacity = 2
    StreamFrames = 3
    MaxVisibility = 1
    StreamFaults = 1
    NoFailure = NoFailure
INVARIANT StopKeepsRuntimeInvariants
CHECK_DEADLOCK FALSE
