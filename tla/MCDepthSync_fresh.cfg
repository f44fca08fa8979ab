\* Snapshots no older than the stream; lost versions, failing requests.
SPECIFICATION FairSpec
CONSTANTS
    Prices = {1}
    Amounts = {0, 1}
    MaxVersion = 5
    MaxFails = 1
    Windows <- SomeWindows
    RestMayLag = FALSE
    StreamGaps = TRUE
INVARIANTS TypeOK SyncedBookIsExchange
PROPERTIES NoRollback ImplementsMirror Heals NothingMissed
CHECK_DEADLOCK FALSE
