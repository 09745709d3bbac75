CONSTANTS
    nprocs = 2
    Vals = {"a", "b"}
    config <- SpikeConfig
    Sessions <- SomeSessions
    required_rti_cycles = 1
    MaxResets = 1
SPECIFICATION Spec
INVARIANTS
    RegistersIntact
    HaltedTruth
PROPERTIES
    CommandSettles
