CONSTANTS
    MaxThreads = 3
    MaxPrio = 1
    Objects = {mtx, cv}
    NULL = NULL
    Quantum = 1
    Horizon = 1
    MaxDelay = 1
    IplModulus = 2
    Mtx = mtx
    Cv = cv
    MaxDepth = 1
    mtx = mtx
    cv = cv
SPECIFICATION DnsSpec
INVARIANTS
    OneResolver
