SPECIFICATION Spec
CONSTANTS
    s1 = s1
    s2 = s2
    a1 = a1
    x1 = x1
    x2 = x2
    b1 = b1
    b2 = b2
    Segments = {s1, s2}
    Artifacts = {a1}
    Sessions = {x1}
    Batches = {b1, b2}
    SessionOf <- OneSession
    Sources <- FromFirst
    MaxFailures = 1
    MaxCancels = 0
    MaxCrashes = 1
    MaxPowerLosses = 0
    MaxMishaps = 2
    None = None
SYMMETRY Symmetry
INVARIANTS
    ReplaySucceeds
CHECK_DEADLOCK FALSE
