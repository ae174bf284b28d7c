SPECIFICATION Spec
CONSTANTS
    k1 = k1
    k2 = k2
    Keys = {k1, k2}
    Sessions <- TwoSessions
    MaxFrames = 2
    MaxFaults = 1
    MaxCancels = 1
    MaxProcessCrashes = 1
    MaxPowerLosses = 1
    MaxDamage = 1
    MaxDisasters = 1
    NoKey = NoKey
SYMMETRY Symmetry
INVARIANTS
    RegisteredSealsAreDurable
    IndexedFramesAreReadable
PROPERTIES
    SealedSegmentsNeverChange
    RecoveryIsComplete
    KeepsItsPromises
CHECK_DEADLOCK FALSE
