SPECIFICATION FairSpec
CONSTANTS
    Recorders = {r1, r2}
    Durations = {1, 2, 3}
    UINT64_MAX = 9
    MaxCalls = 2
    None = None
INVARIANTS TypeOK BoundsAreExact TotalIsExact FewExchanges
PROPERTIES WordsMoveOutward ImplementsMeter ReportsEnd
CHECK_DEADLOCK FALSE
