CONSTANTS
    MaxThreads = 2
    MaxPrio = 1
    Objects = {mtx}
    NULL = NULL
    Quantum = 1
    Horizon = 1
    MaxDelay = 1
    IplModulus = 2
    Mtx = mtx
    MaxDepth = 2
    mtx = mtx
SPECIFICATION Spec
INVARIANT
    HolderIsOwner
