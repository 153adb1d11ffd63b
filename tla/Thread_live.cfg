CONSTANTS
    MaxThreads = 2
    MaxPrio = 1
    Objects = {ob}
    NULL = NULL
    Quantum = 2
    Horizon = 2
    MaxDelay = 2
    IplModulus = 4
    MaxNesting = 0
    ob = ob
SPECIFICATION FairSpec
PROPERTIES
    TimedWaitEnds
    HighestRuns
