SPECIFICATION Spec
CONSTANTS
    Blocks = {b1, b2, b3, b4, b5, b6}
    NULL = NULL
    Object = Object
    Count = 5
    Debug = TRUE
INVARIANTS TypeOK ListIsExact KeepsHalf NullOnlyIfNeverStocked
PROPERTY ImplementsPool
CHECK_DEADLOCK FALSE
