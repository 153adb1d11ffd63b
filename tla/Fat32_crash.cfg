CONSTANTS
    Names = {n1, n2}
    Handles = {h1}
    NULL = NULL
    Top = 4
    ActiveFats = {0, 1}
    Unknown = 4
    MaxSize = 2
    CrashIn = {"unlink", "rmdir"}
SPECIFICATION Spec
CHECK_DEADLOCK FALSE
INVARIANTS
    NoCrossLink
