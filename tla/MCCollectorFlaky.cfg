SPECIFICATION FairSpec
CONSTANTS
    Scheduled = {c1}
    Manual = {}
    ManualOptions = {}
    Libraries <- MCOneLibrary
    Weekdays <- MCWeekdays
    Start = 1110
    End = 1350
    Granularity = 15
    ClockChange = 0
    OffsetBefore = 480
    OffsetAfter = 420
    g1 = g1
    g2 = g2
    Games <- MCGames
    TopLists <- MCFewLists
    TopN = 1
    WindowTopN = 2
    RowsPerStatement = 2
    Instants <- MCOneInstant

PROPERTIES
    FlakyCategoryNeverAborts
CHECK_DEADLOCK FALSE
