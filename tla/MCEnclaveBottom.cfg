SPECIFICATION Spec
CONSTANTS
    Harts = {h1, h2}
    ENCL_MAX = 2
    CreateArgs <- BottomArgs
    PlatformCreateMayFail = FALSE
    SerialHost = TRUE
    RunEids <- Eids
    HostPages <- NoPages
    EnclavePages <- Pages
    PMP_N_REG = 5
    PMP_MAX_N_REGION = 6
    MAXUL = 15
    RISCV_PGSIZE = 2
    SMM_BASE = 0
    SMM_SIZE = 2
INVARIANT BottomReserved
