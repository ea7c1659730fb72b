SPECIFICATION Spec
CONSTANTS
    a1 = a1
    a2 = a2
    e1 = e1
    e2 = e2
    NULL = NULL
    Agents = {a1}
    ExtIds = {e1}
    ExtWorkspaceId <- OneWorkspace
    Tokens = {t1, t2, t3}
    Credentials = {c1, c2}
    Registrations = {r1}
    Generations = {g1}
    Syncs = {s1}
    TokenTTL = 1
    MaxClock = 2
SYMMETRY Symmetry
INVARIANTS
    TokenUsedOnce
