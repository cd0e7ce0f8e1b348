SPECIFICATION Spec
CONSTANTS
    COLS = 2
    ROWS = 3
    VIDEO = 8
    BUFFERSIZE = 1
    Messages <- MCMessages
    RamOffsets = {0, 2}
VIEW NoBuffer
INVARIANTS
    TypeOK
    AheadIsBlank
PROPERTIES
    TextOnlyMovesUp
CHECK_DEADLOCK FALSE
