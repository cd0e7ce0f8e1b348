SPECIFICATION FairSpec
CONSTANTS
    PCB_MAX = 3
    PID_MAX = 4
    RamSegs = {TRUE}
    RamPids <- ZeroedRam
PROPERTY
    EveryChildRuns
CHECK_DEADLOCK FALSE
