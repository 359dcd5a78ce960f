SPECIFICATION Spec
CONSTANTS
    w1 = w1
    w2 = w2
    Nobody = Nobody
    Workers = {w1, w2}
    Events = {"ok", "refused", "garbled"}
    MaxLog = 2
    MaxRebalances = 2
    BatchSize = 2
    MaxClock = 4
    Window = 2
    MaxBackfills = 1
    MaxRaces = 1
SYMMETRY WorkerSymmetry
INVARIANTS
    EveryRowAccounted
    TablesAgree
CHECK_DEADLOCK FALSE
