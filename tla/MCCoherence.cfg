CONSTANTS
    b1 = b1
    b2 = b2
    Blocks = {b1, b2}
    Sinks = {s1, s2}
    BSrcs = {p1}
    Beats = 2
    TohostAligned = TRUE
    NoBlock = NoBlock
    NoSink = NoSink
    TileOps <- TwoBlocks
    Mshrs = 1
    MaxStore = 1
    Programs <- OneProgram
    MaxRuns = 1
SPECIFICATION Spec
SYMMETRY SinkSymmetry
INVARIANTS
    TypeOK
    SinkHeldOnce
    NoException
    TrunkTracked
    NoStoreLost
PROPERTIES
    HostProbeOutsideGrant
