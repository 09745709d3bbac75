SPECIFICATION Spec
CONSTANTS
    XLEN = 9
    PGSHIFT = 4
    IdxBits = 1
    Levels <- MCLevels
    MAX_PADDR_BITS = 8
    TLB_ENTRIES = 2
    ICACHE_ENTRIES = 8
    num_triggers = 2
    max_pmp = 3
    n_pmp = 3
    lg_pmp_granularity = 3
    MemSize = 128
    DEBUG_START = 224
    CLINT_BASE = 128
    nprocs = 2
    max_isa <- MCIsa
    DEFAULT_RSTVEC = 64
    DEBUG_ROM_ENTRY = 224
    DEBUG_ROM_TVEC = 232
    Sessions <- MCSessions
    INTERLEAVE = 3
INVARIANTS
    CachesTransparent
    InstretExact
    ScAtomic
    StepOne
PROPERTIES
    LockedKept
    PrivilegeGated
CHECK_DEADLOCK FALSE
