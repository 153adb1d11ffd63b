CONSTANTS
    NULL = NULL
    RingSize = 3
    MaxWrite = 2
SPECIFICATION Spec
INVARIANTS
    StreamOwned
CHECK_DEADLOCK FALSE
