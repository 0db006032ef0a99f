SPECIFICATION FairSpec
CONSTANTS
    Harts = {h1, h2}
    ENCL_MAX = 2
    CreateArgs <- PairArgs
    PlatformCreateMayFail = FALSE
    SerialHost = TRUE
    RunEids = {0}
    HostPages <- NoPages
    EnclavePages <- NoPages
    PMP_N_REG = 4
    PMP_MAX_N_REGION = 6
    MAXUL = 15
    RISCV_PGSIZE = 2
    SMM_BASE = 0
    SMM_SIZE = 2
PROPERTIES
    CallsReturn
