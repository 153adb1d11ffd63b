CONSTANTS
    MaxThreads = 2
    MaxPrio = 0
    Objects = {}
    NULL = NULL
    Quantum = 2
    Horizon = 2
    MaxDelay = 1
    IplModulus = 4
    MaxNesting = 0
SPECIFICATION FairSpec
PROPERTY
    RoundRobin
