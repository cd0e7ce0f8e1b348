SPECIFICATION Spec
CONSTANTS
    FILE_SYS_BLOCKS = 5
    RESERVED = 1
    INODES = 5
    MAX_BLOCKS_InFILE = 2
    BLOCK_SIZE = 6
    ITEM_UNITS = 2
    SIZE_MOD = 13
    Names <- MCNames
    Matches <- MCMatches
    Inside <- MCInside
    InNumber <- MCInNumber
    JunkSizes = {0}
    Handles = {h1}
    Reads = {6}
    RootSizes = {0, 3, 5}
    FileSizes = {0, 6}
    Letters = {"m", "p", "t"}
    PATH_MAX = 4
    NAME_MAX = 4
    Spelling <- MCSpelling
    NUMBER = 2
    Number <- MCNumber
VIEW NoHistory
INVARIANTS
    TypeOK
    OwnedAreBusy
    BlocksDisjoint
    ContentIsOwn
    
    OffsetsAreBacked
    MatchIsFirst
    PathsMeanTheirEnds
PROPERTIES
    OnlyWritersChange
    
CHECK_DEADLOCK FALSE
