SPECIFICATION Spec
CONSTANTS
    Requests = {r1, r2}
    Calls <- MixedCalls
    Registered <- Environment
    StreamCounters <- Counters
    Policies <- EmptyData
    Kafka <- NoneReady
    CacheOn = TRUE
    MayDie = FALSE
    MaxTokens = 2
INVARIANT ServedWithoutKafka
CHECK_DEADLOCK FALSE
