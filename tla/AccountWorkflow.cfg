SPECIFICATION FairSpec
CONSTANTS
    p1 = p1
    p2 = p2
    o1 = o1
    o2 = o2
    NULL = NULL
    Requests = {p1}
    Accounts = {r1}
    Owners = {o1}
    Owner <- OneRequest
    MaxAttempts = 3
CHECK_DEADLOCK FALSE
INVARIANTS
    IInv
    OutcomeRecorded
PROPERTIES
    WorkflowEnds
