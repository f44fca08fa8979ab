SPECIFICATION SessionSpec
CONSTANTS
    MaxEntries = 2
    Main = Main
    Worker = Worker
INVARIANT IncompleteIsSkipped
CHECK_DEADLOCK FALSE
