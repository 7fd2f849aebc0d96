SPECIFICATION FairSpec
CONSTANTS
    MaxRetries = 2
    Margin = 6
    Lifetimes = {8, 20}
    Latencies = {0, 1}
    BucketWaits = {0, 2}
    RetryAfters = {3}
    Pauses = {3}
    MaxTokens = 3
    Horizon = 12
INVARIANTS
    InFlightTokenAlive
    RejectedTokenDropped
    EveryRequestPaced
PROPERTIES
    CallReturns
    CallAdvances
CHECK_DEADLOCK FALSE
