SPECIFICATION Spec
CONSTANTS
    Requests = {r1, r2}
    Calls <- MixedCalls
    Registered <- Environment
    StreamCounters <- Counters
    Policies <- EmptyData
    Kafka <- AllReady
    CacheOn = TRUE
    MayDie = FALSE
    MaxTokens = 2
INVARIANT ReplyNotHeld
CHECK_DEADLOCK FALSE
