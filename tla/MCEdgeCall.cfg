CONSTANTS
    UINTPTR_MAX = 63
    LEN = 15
    RT = 48
    HOST = 17
    STRING_LEN = 7
    Calls <- MCCalls
    Returns <- MCReturns
SPECIFICATION Spec
CHECK_DEADLOCK FALSE
INVARIANTS
    StaysInBounds
PROPERTIES
    
    CallsReturn
