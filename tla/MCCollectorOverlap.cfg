SPECIFICATION Spec
CONSTANTS
    Scheduled = {c1}
    Manual = {m1}
    ManualOptions <- MCAnyOptions
    Libraries <- MCLibraries
    Weekdays <- MCWeekdays
    Start = 1110
    End = 1350
    Granularity = 15
    ClockChange = 0
    OffsetBefore = 480
    OffsetAfter = 420
    g1 = g1
    g2 = g2
    Games <- MCGames
    TopLists <- MCTopLists
    TopN = 1
    WindowTopN = 2
    RowsPerStatement = 1
    Instants <- MCInstants

INVARIANTS
    PrimaryKey
    NoPartialBatch
    SuccessIsVisible
    LibraryCovered
    LastReadingStored
CHECK_DEADLOCK FALSE
