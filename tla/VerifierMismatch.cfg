SPECIFICATION TableSpec
CONSTANTS
    Org = o1
    Orgs = {o1}
    NoOrg = NoOrg
    PayloadText <- JsonbText
    MaxRows = 4
    MaxDamage = 2
    Times = {1, 2}
INVARIANT MismatchMeansTampered
CHECK_DEADLOCK FALSE
