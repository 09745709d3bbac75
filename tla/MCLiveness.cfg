CONSTANTS
    b1 = b1
    b2 = b2
    Blocks = {b1, b2}
    Sinks = {s1, s2}
    BSrcs = {p1}
    Beats = 2
    TohostAligned = TRUE
    NoBlock = NoBlock
    NoSink = NoSink
    TileOps <- OneBlock
    Mshrs = 1
    MaxStore = 1
    Programs <- OneProgram
    MaxRuns = 1
SPECIFICATION FairSpec
PROPERTIES
    RetrievalEnds
    TohostSeen
    AcquireGranted
