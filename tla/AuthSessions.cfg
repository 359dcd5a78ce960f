SPECIFICATION Spec
CONSTANTS
    Requests = {r1, r2, r3, r4}
    Slugs = {acme}
    Emails = {"ann"}
    Passwords = {"p", "q"}
    NoUser = NoUser
    MaxSessions = 3
SYMMETRY Symmetry
INVARIANTS TypeOK DroppedForGood OneSuccessor LogoutFinal InactiveLockedOut
CHECK_DEADLOCK FALSE
