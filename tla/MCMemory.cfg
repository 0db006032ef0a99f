SPECIFICATION MCSpec
CONSTANTS
    x = x
    Frames <- MCFrames
    ElfPages <- MCElfPages
    FilePages = 2
    MAX_VPN = 4
    STACK <- MCStack
    ANON_START = 3
    BREAK_START = 4
    PT_ENTRIES = 3
    BackPages <- MCBackPages
    CTRS_PER_PAGE = 6
    NODES_PER_PAGE = 4
    CTR = 2
    ULONG = 16
    Values <- MCValues
    MaxPages = 2
    Protectable <- MCProtectable
    START = 1
    LIMIT = 14
    GAP = 4
    Sizes <- MCSizes
    Aligns <- MCAligns
    VALLOC_ALIGN = 4
    MaxLive = 3
CHECK_DEADLOCK FALSE
INVARIANTS
    PagesAccounted
    
PROPERTIES
    
    ImplementsHeap
