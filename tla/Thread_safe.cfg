CONSTANTS
    MaxThreads = 2
    MaxPrio = 1
    Objects = {ob}
    NULL = NULL
    Quantum = 1
    Horizon = 2
    MaxDelay = 1
    IplModulus = 4
    MaxNesting = 1
    ob = ob
SPECIFICATION Spec
INVARIANTS
    TypeOK
    TimerCoversDeadlines
    

    
