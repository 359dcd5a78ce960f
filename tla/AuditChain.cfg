SPECIFICATION FairSpec
CONSTANTS
    w1 = w1
    w2 = w2
    o1 = o1
    o2 = o2
    NoOrg = NoOrg
    Nobody = Nobody
    Workers = {w1, w2}
    Orgs = {o1, o2}
    Events <- MCEvents
    MaxLog = 3
    MaxRebalances = 2
INVARIANTS
    TypeOK
    ChainLinked
    CounterAgrees
    NoSilentLoss
PROPERTIES AtomicAppend EventuallySettled
CHECK_DEADLOCK FALSE
