SPECIFICATION Spec
CONSTANTS
    FILE_SYS_BLOCKS = 5
    RESERVED = 1
    INODES = 5
    MAX_BLOCKS_InFILE = 2
    BLOCK_SIZE = 6
    ITEM_UNITS = 2
    SIZE_MOD = 13
    Names = {"shell", "mypro"}
    Matches <- MCMatches
    Inside <- MCInside
    InNumber <- MCInNumber
    JunkSizes = {0, 1}
    Handles = {h1, h2}
    Reads = {1}
    RootSizes = {}
    FileSizes = {6, 7}
    Letters = {"m", "p", "t"}
    PATH_MAX = 1
    NAME_MAX = 4
    Spelling <- MCSpelling
    NUMBER = 2
    Number <- MCNumber
INVARIANT
    WriteReturnsWritten
CHECK_DEADLOCK FALSE
