SPECIFICATION DaySpec
CONSTANTS
    Weekdays <- MCWeekdays
    Start = 1110
    End = 1350
    Granularity = 15
    ClockChange <- MCChange
    OffsetBefore = 480
    OffsetAfter = 420
    Days <- MCDays
    TriggerEvery = 15
    Delays <- MCDelays
    MaxFaults = 2
INVARIANTS
    OnlyLostTriggersLoseSlots
    WindowSlotHasOneTrigger
    DayTotals
    WindowOnTheWall
CHECK_DEADLOCK FALSE
