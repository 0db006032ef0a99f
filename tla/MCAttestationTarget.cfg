SPECIFICATION MCSpec
CONSTANTS
    RATE = 4
    HASH_LEN = 2
    MAX_COUNT = 4
    PAGE_SIZE = 3
    EXTRA_PAGES = 3
    STALE = 9
    FANOUT = 2
    UTM_VPN = 8
    UTM_PAGES = 2
    STACK_VPN = 6
    STACK_PAGES = 2
    Inputs = {}
    Machines <- MCMachines
    Apps <- MCApps
    Data = {}
    Nonces <- MCNonces
    Idents = {}
    Eids = {1}
    FirstByte <- MCFirstByte
    SM_SIZE = 3
    ATTEST_DATA_MAXLEN = 9
    IDENT_MAX = 2
    SEALING_KEY_SIZE = 5
    None = None
    MaxHistory = 0
    MAX_DEPTH = 2
    DIGITS10 = 2
    JsonTexts = {}
    JsonValues <- MCScalars
    WORD = 2
    LEN = 34
    REPORT = 3
    COPY = 4
    NONCE_BUF = 12
    TARGET_BUF = 3
    LOOP = 4
    EVERY = 2
    HALF = 4
    Rands <- MCRands
    Paths <- MCPaths
INVARIANTS
    ReportsTarget
