SPECIFICATION PipelinesSpec
CONSTANTS
    Subscribers = {1, 2}
    Capacity = 1
    MaxRevisions = 4
    MaxGiveUps = 1
    CommandSlots = 2
    MaxChanges = 3
    MaxOverrides = 1
    MaxShown = 1
    CaptureTargets = {1, 2}
    MaxStreams = 1
    MaxGeneration = 2
    MaxStarts = 2
    MaxOrdinal = 1
    Requests = {1, 2, 3}
    Outputs = {1, 2}
    Wanted <- PartlyShared
    MaxActive = 2
    MemorySlots = 1
    CpuSlots = 1
    MaxInterrupts = 2
    MaxFailures = 1
INVARIANTS
    EveryRevisionIsAccountedFor GapsAreReportedNext CertainFramesAreCurrent AcceptingStreamsAreCounted SharingIsInvisible
PROPERTIES
    EndedIsDeliveredLast StreamsEnd OrdinalsIncrease EffectsEnd RequestsEnd
CHECK_DEADLOCK FALSE
