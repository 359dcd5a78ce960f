SPECIFICATION VaultSpec
CONSTANTS
    q1 = q1
    q2 = q2
    q3 = q3
    k0 = k0
    Nobody = Nobody
    Requests = {q1, q2, q3}
    OldKeys = {k0}
INVARIANTS
    SecretMatchesLog
    AnswersHold
PROPERTY EveryRequestAnswered
CHECK_DEADLOCK FALSE
