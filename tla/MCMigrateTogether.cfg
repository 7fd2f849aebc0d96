SPECIFICATION Spec
CONSTANTS
    p1 = p1
    p2 = p2
    old = old
    Processes <- MCThree
    Code <- MCThreeCode
    Backends = {"turso", "sqlite"}
    MaxStarts = 3
INVARIANTS
    OwnVersionHeld
    RecordedMeansApplied
    ReadyMeansUsable
    RetryIsHarmless
    LocalSchemaIsExact
CHECK_DEADLOCK FALSE
