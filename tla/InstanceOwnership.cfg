SPECIFICATION Spec
CONSTANTS
    Procs = {p1, p2, p3}
    DirIds = {d1, d2, d3}
    Inodes = {1, 2, 3, 4}
    None = None
    MaxSwaps = 1
    MaxStops = 2
    ScanMayFail = TRUE
    Abandoned = {p3}
    Members = {index, segments}
    MaxCounts = 1
    AssumedLive = 4
SYMMETRY Symmetry
INVARIANTS UnexposedOwnerIsUndisturbed FreshCensusCountsEveryPeer
PROPERTY UnexposedEvidenceSurvives
CHECK_DEADLOCK FALSE
