CONSTANTS
    Cores = 2
    Batches = 1
    Iters = 1
    Points = {c1}
    MaxSessions = 2
    MaxCrashes = 1
SPECIFICATION FairSpec
CHECK_DEADLOCK FALSE
INVARIANTS
    RecordsKept
    RecordsDense
PROPERTIES
    SessionEnds
