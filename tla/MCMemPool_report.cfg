SPECIFICATION Spec
CONSTANTS
    Blocks = {b1, b2, b3, b4, b5}
    NULL = NULL
    Object = Object
    Count = 5
    Debug = FALSE
INVARIANT ReportIsCurrent
CHECK_DEADLOCK FALSE
