SPECIFICATION SysSpec
CONSTANTS
    Procs = {0, 1, 2, 3}
    Files = {f1, f2}
    FILE_MAX_InPROCESS = 5
    FILE_MAX_INSYS = 5
    None = None
INVARIANTS
    EntriesBelongToFront
    OpenReturnsOpenFd
CHECK_DEADLOCK FALSE
