SPECIFICATION Spec
CONSTANTS
    Prices = {1, 2}
    Amounts = {0, 1, 2}
    Bodies <- SomeBodies
    OldBooks <- SomeOldBooks
    Indeterminate <- SomeWords
INVARIANT TruncatedIsNoError
CHECK_DEADLOCK FALSE
