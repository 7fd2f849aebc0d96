SPECIFICATION Spec
CONSTANTS
    p1 = p1
    p2 = p2
    old = old
    Processes <- MCTwo
    Code <- MCTwoCode
    Backends = {"turso"}
    MaxStarts = 2
INVARIANTS
    SettledSchemaIsFinal
CHECK_DEADLOCK FALSE
