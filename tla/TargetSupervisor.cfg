SPECIFICATION FairSpec
CONSTANTS
    LastKey = 2
    MaxKnown = 3
    MaxPending = 1
    Delays = 1
    Starts <- Covering
INVARIANTS
    SessionMapIsSound
    SelectionIsUsable
    CapturesMatchBindings
    NoCaptureOnReleasedSession
    QuietViewIsCurrent
    CleanAttemptsSucceed
PROPERTIES
    LostConnectionsAreResolved
CHECK_DEADLOCK FALSE
