SPECIFICATION RecordingSpec
CONSTANTS
    k1 = k1
    k2 = k2
    Keys = {k1, k2}
    Sessions <- OneSession
    MaxFrames = 2
    MaxFaults = 1
    MaxCancels = 1
    MaxProcessCrashes = 1
    MaxPowerLosses = 0
    MaxDamage = 1
    MaxDisasters = 1
    NoKey = NoKey
    Publishers = {1, 2}
    Offers <- TwoOffers
    MaxEvictions = 1
    MaxMishaps = 1
    MaxWithdrawals = 1
    MaxRestarts = 1
    MaxLooks = 1
    MaxTroubles = 2
    MaxSharedTroubles = 1
INVARIANTS ReadyArtifactsAreComplete DeletionIsFinal
PROPERTIES CallsReturn AnswersAreCurrent PublicationsEnd
CHECK_DEADLOCK FALSE
