SPECIFICATION Spec
CONSTANTS
    Procs = {p1, p2, p3}
    DirIds = {d1, d2, d3}
    Inodes = {1, 2, 3, 4}
    None = None
    MaxSwaps = 0
    MaxStops = 2
    ScanMayFail = FALSE
    Abandoned = {}
    Members = {segments}
    MaxCounts = 0
    AssumedLive = 4
SYMMETRY Symmetry
INVARIANT ReclaimNeverRacesALiveProcess
CHECK_DEADLOCK FALSE
