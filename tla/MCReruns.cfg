CONSTANTS
    b1 = b1
    b2 = b2
    Blocks = {b1, b2}
    Sinks = {s1, s2}
    BSrcs = {p1}
    Beats = 2
    TohostAligned = FALSE
    NoBlock = NoBlock
    NoSink = NoSink
    TileOps <- OneBlock
    Mshrs = 1
    MaxStore = 2
    Programs <- TwoPrograms
    MaxRuns = 2
SPECIFICATION Spec
SYMMETRY SinkSymmetry
INVARIANTS
    DataCurrent
    ProbeSources
    RetrievalComplete
