SPECIFICATION Spec
CONSTANTS
    Requests = {r1, r2}
    Calls <- Gemini
    Registered <- Environment
    StreamCounters <- Counters
    Policies <- BlockLeaks
    Kafka <- AllReady
    CacheOn = TRUE
    MayDie = FALSE
    MaxTokens = 2
INVARIANT NoLeakForwarded
CHECK_DEADLOCK FALSE
