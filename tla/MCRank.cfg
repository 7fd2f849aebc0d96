SPECIFICATION Spec
CONSTANTS
    w1 = w1
    w2 = w2
    rank = rank
    Processes <- MCProcesses
    Reader = rank
    Backends = {"turso", "sqlite"}
    Games <- MCGames
    Readings <- MCReadings
    Orders <- MCOrders
    Configs <- MCConfigs
    TrendDays = 1
    MaxNow = 3
    MaxStarts <- MCMaxStarts
INVARIANTS
    OneSnapshot
    OwnedIncludesListed
PROPERTIES
    SeriesCoversCounted
    FilledSlotIsKept
    EveryCommandEnds
    CommandsAdvance
CHECK_DEADLOCK FALSE
