SPECIFICATION MCSpec
CONSTANTS
    h1 = h1
    h2 = h2
    c1 = c1
    c2 = c2
    Keys <- MCKeys
    Hashes <- MCHashes
    MERK_MAX_DEPTH = 8
    NODES_PER_PAGE = 5
    MaxPages = 2
    Uses <- MCUses
    KnownAnswers <- MCKnownAnswers
    Pieces <- MCPieces
    MaxPieces = 2
    KnownHashes <- MCKnownHashes
    Callers = {c1, c2}
    BootKeys = {k1, k2}
    BYTE = 3
    AES_BLOCK_SIZE = 4
    CTR_BYTES = 3
    PAGE_BLOCKS = 3
    FirstCounters <- MCFirstCounters
    MaxSwaps <- MCMaxSwaps
    NTOA_BUFFER_SIZE = 10
    Bits <- MCBits
    Jobs <- MCJobs
    Guard = 2
SYMMETRY Symmetry
CHECK_DEADLOCK FALSE
INVARIANTS
    
    NodesAccounted
    MatchStandards
    
    FormatsAsC
