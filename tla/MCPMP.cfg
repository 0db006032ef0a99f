SPECIFICATION BootSpec
CONSTANTS
    Harts = {0, 1, 2}
    PMP_N_REG = 5
    PMP_MAX_N_REGION = 6
    MAXUL = 11
    RISCV_PGSIZE = 2
    SMM_BASE = 2
    SMM_SIZE = 2
INVARIANTS
    PMPInv
    MonitorGuarded
PROPERTIES
    ImplementsTable
    AllHartsBoot
