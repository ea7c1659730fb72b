SPECIFICATION Spec
CONSTANTS
    p1 = p1
    p2 = p2
    o1 = o1
    o2 = o2
    NULL = NULL
    Requests = {p1, p2}
    Accounts = {r1, r2}
    Owners = {o1, o2}
    Owner <- TwoOwners
    MaxAttempts = 1
CHECK_DEADLOCK FALSE
INVARIANTS
    ActiveIsProvisioned
    OwnersAreMembers
PROPERTIES
    LifeSpec
