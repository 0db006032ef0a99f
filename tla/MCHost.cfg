CONSTANTS
    c1 = c1
    c2 = c2
    o1 = o1
    o2 = o2
    o3 = o3
    Clients <- MCClients
    Objs <- MCObjs
    Ueids <- MCUeids
    ENCL_MAX = 2
    ULONG = 128
    Faults = {"memory", "idr", "sbi_create", "unknown_stop"}
    Values <- MCValues
    HostPcs <- MCHostPcs
    EnclavePcs <- MCEnclavePcs
    DramBase = 1000
    WORD = 128
    HALF = 64
    ElfPage = 4
    FileSizes = {0, 12, 13, 16, 40, 48}
    Offsets = {0, 4, 16, 32, 48, 127}
    Counts = {0, 1, 2}
    Addresses = {0, 3, 4, 8, 9, 60, 121}
    REGBYTES = 4
    UNROLL = 2
    HalfSize = 32
    Places = {4, 5, 7, 8}
    Lengths = {0, 1, 4, 7, 8, 11, 13, 17, 21}
    Holes <- MCHoles
    Chars = {0, 1, 128, 255}
    KEND = 9
    UserSps = {100, 200}
    UserPcs = {1000, 2000}
    Banks = {5, 6}
    MaxDepth = 2
    MaxFaults = 2
    RISCV_PAGE_BITS = 1
    RISCV_PT_INDEX_BITS = 2
    MapBases = {6, 8, 14, 16}
    MapSizes = {2, 6, 8, 10, 16, 22, 32, 34}

SPECIFICATION HostSpec
SYMMETRY Symmetry
INVARIANTS
    NoDangling
    
    
    MemoryFunctionsExact
    MapsExactly
PROPERTIES
    ContextsKept
    
    OwnObjects
