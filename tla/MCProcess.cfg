SPECIFICATION FairSpec
CONSTANTS
    PCB_MAX = 5
    PID_MAX = 6
    RamSegs = {TRUE, FALSE}
    RamPids <- MCRamPids
VIEW NoDeadContexts
INVARIANTS
    TypeOK
    OneRunning
    ExitHitsCaller
    ExitHasSuccessor
    
    RunsInSlotOrder
    ScribblesOnlyWhenFull
PROPERTIES
    OnlyFirstResumeFaults
    SlotsAreNeverFreed
    ImplementsBatch
    FrontKeepsRunning
CHECK_DEADLOCK FALSE
