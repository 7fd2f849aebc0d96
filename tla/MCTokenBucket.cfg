SPECIFICATION Spec
CONSTANTS
    Capacity = 4
    Costs = {1, 3}
    MaxWaits = 16
    Gaps = {1, 7}
    Oversleep = {0, 2}
    Horizon = 12
INVARIANTS
    RateLimited
    OneWaitSuffices
