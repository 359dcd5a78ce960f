SPECIFICATION FairSpec
CONSTANTS
    Requests = {r1, r2}
    Calls <- MixedCalls
    Registered <- Environment
    StreamCounters <- Counters
    Policies <- Loaded
    Kafka <- OneReady
    CacheOn = TRUE
    MayDie = TRUE
    MaxTokens = 2
INVARIANTS BilledAsServed CacheTruth ReplyMatchesEvent PolicyHeld
PROPERTY EveryRequestEnds
CHECK_DEADLOCK FALSE
