SPECIFICATION Spec
CONSTANTS
    PAGES = 21
    WORDS = 2
    Procs = {0, 1, 2}
    Stored = {1}
    AnyWords <- MCAnyWords
    Windows <- MCWindows
    Programs <- MCPrograms
INVARIANT
    GetsUnusedPages
CHECK_DEADLOCK FALSE
