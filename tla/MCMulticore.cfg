CONSTANTS
    Cores = 2
    Batches = 2
    Iters = 1
    Points = {c1}
    MaxSessions = 1
    MaxCrashes = 1
SPECIFICATION Spec
CHECK_DEADLOCK FALSE
INVARIANTS
    SlotExclusive
    StopNoticed
PROPERTIES
    CoverageGrows
