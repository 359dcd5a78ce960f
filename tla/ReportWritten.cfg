SPECIFICATION Spec
CONSTANTS
    r1 = r1
    r2 = r2
    o1 = o1
    o2 = o2
    Orgs = {o1, o2}
    Asked = {r1}
    AskedFormats = {"csv"}
    MaxUsage = 1
    MaxCrashes = 1
    Batch = 1
INVARIANT ReadyIsWritten
CHECK_DEADLOCK FALSE
