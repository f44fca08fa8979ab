SPECIFICATION FairSession
CONSTANTS
    MaxEntries = 2
    Main = Main
    Worker = Worker
PROPERTY NoThreadsWhenShut
CHECK_DEADLOCK FALSE
