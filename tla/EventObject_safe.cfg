CONSTANTS
    MaxThreads = 3
    MaxPrio = 1
    Objects = {ev}
    NULL = NULL
    Quantum = 1
    Horizon = 1
    MaxDelay = 1
    IplModulus = 2
    Ev = ev
    MaxValue = 2
    ev = ev
SPECIFICATION Spec
INVARIANTS
    WaitersCounted
    NoStrandedWaiter
PROPERTY
    ImplementsEvent
