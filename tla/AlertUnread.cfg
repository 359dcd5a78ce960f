SPECIFICATION Spec
CONSTANTS
    w1 = w1
    w2 = w2
    o1 = o1
    o2 = o2
    Nobody = Nobody
    Workers = {w1, w2}
    Orgs = {o1, o2}
    Viewer = o1
    Events <- MCEvents
    Filters <- UnreadOnly
    MaxLog = 2
    MaxRebalances = 2
    MaxAnomalies = 1
    MaxAcks = 1
SYMMETRY WorkerSymmetry
INVARIANT
    UnreadPagingMissesNothing
CHECK_DEADLOCK FALSE
