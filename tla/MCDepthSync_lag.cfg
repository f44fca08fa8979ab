\* Snapshots may lag behind the stream, as the joining rule of
\* updateDepthBased expects; two prices a side, so an event may touch four levels.
SPECIFICATION Spec
CONSTANTS
    Prices = {1, 2}
    Amounts = {0, 1}
    MaxVersion = 4
    MaxFails = 1
    Windows <- SomeWindows
    RestMayLag = TRUE
    StreamGaps = TRUE
INVARIANTS IInv WrongOnlyWhereTorn
PROPERTY NoUnjoinedWrite
CHECK_DEADLOCK FALSE
