SPECIFICATION Spec
CONSTANTS
    a1 = a1
    a2 = a2
    e1 = e1
    e2 = e2
    NULL = NULL
    Agents = {a1, a2}
    ExtIds = {e1, e2}
    ExtWorkspaceId <- OwnIds
    Tokens = {t1, t2, t3}
    Credentials = {c1}
    Registrations = {r1}
    Generations = {g1, g2}
    Syncs = {}
    TokenTTL = 1
    MaxClock = 2
SYMMETRY Symmetry
INVARIANTS
    CurrentTokenLasts
    IdentityMatches
