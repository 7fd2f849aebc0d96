SPECIFICATION Spec
CONSTANTS
    Syncs = {s1, s2}
    Apps = {a1, a2}
    Categories = {t1}
    None = None
INVARIANTS
    BadItemsAreSkipped
CHECK_DEADLOCK FALSE
