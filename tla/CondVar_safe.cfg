CONSTANTS
    MaxThreads = 2
    MaxPrio = 1
    Objects = {mtx, cv}
    NULL = NULL
    Quantum = 2
    Horizon = 2
    MaxDelay = 2
    IplModulus = 2
    Mtx = mtx
    Cv = cv
    MaxDepth = 3
    mtx = mtx
    cv = cv
SPECIFICATION CvSpec
INVARIANTS
    CondCounted
    NoStrandedWaiter
PROPERTY
    ImplementsMonitor
