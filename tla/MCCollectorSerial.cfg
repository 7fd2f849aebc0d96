SPECIFICATION FairSpec
CONSTANTS
    Scheduled = {c1, c2, c3}
    Manual = {}
    ManualOptions = {}
    Libraries <- MCOneLibrary
    Weekdays <- MCWeekdays
    Start = 1110
    End = 1350
    Granularity = 15
    ClockChange = 0
    OffsetBefore = 480
    OffsetAfter = 420
    g1 = g1
    g2 = g2
    Games <- MCGames
    TopLists <- MCFewLists
    TopN = 1
    WindowTopN = 2
    RowsPerStatement = 1
    Instants <- MCInstants

INVARIANTS
    OneRunPerBatch
    TierFitsSlot
    WindowNotPreempted
PROPERTIES
    ImplementsLog
    EveryTriggerEnds
    RunsAdvance
CHECK_DEADLOCK FALSE
