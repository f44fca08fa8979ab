SPECIFICATION SystemSpecFrom
CONSTANTS
    Prices = {1, 2}
    Amounts = {0, 1}
    MaxVersion = 3
    MaxFails = 1
    Windows <- FullWindow
    RestMayLag = TRUE
    StreamGaps = TRUE
    MaxEntries = 4
    Main = Main
    Worker = Worker
    Levels = 1
    Garbage = Garbage
INVARIANTS SystemTypeOK OneLink PrintsBetweenEvents WholeBookIsVersion PrintedIsTop EmptyOnlyIfUnloaded SizesFollowSync SignalFindsThread
PROPERTIES EndsOnSignal FailureShows StopRunsDown FailureRunsOut
CHECK_DEADLOCK FALSE
