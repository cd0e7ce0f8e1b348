SPECIFICATION FairSpec
CONSTANTS
    BYTE = 2
    REQUESTS = {1, 2, 6}
    WORDS = 2
    Data = {0, 1}
    RamLocks = {0, 1}
    CALLS = 3
    None = None
INVARIANT
    TypeOK
PROPERTIES
    ImplementsSectors
    OnlyStoringLoses
    CallsReturn
CHECK_DEADLOCK FALSE
