\* The same, without failing requests: what "is synced just fine" claims.
SPECIFICATION Spec
CONSTANTS
    Prices = {1}
    Amounts = {0, 1}
    MaxVersion = 5
    MaxFails = 0
    Windows <- FullWindow
    RestMayLag = TRUE
    StreamGaps = TRUE
INVARIANT SyncedBookIsExchange
CHECK_DEADLOCK FALSE
