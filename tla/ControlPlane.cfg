\* The components of MCControlPlane stop where a bound is reached (requests,
\* starts, rows), so deadlock is not checked.
SPECIFICATION Spec
CONSTANTS
    MaxRows = 3
    PageSizes = {1, 2}
    DefaultLimit = 2
    MaxPages = 12
    MaxColumns = 3
    MaxSaved = 3
    Calls = {c1, c2}
    Catalogue <- SeededCatalogue
    Realms = {r1, r2}
    MaxMounts = 2
    MaxCertificates = 2
    MaxStarts = 3
    Requests = {q1, q2}
    Seeders = {s1, s2}
    MaxDeaths = 2
    Issues = {i1, i2}
    Validity = 3
    TokenLife = 1
    MaxTime = 5
    ApiRequests = {h1, h2}
    MaxRuns = 2
    SessionRealms = {r1, r2}
    MaxTokens = 3
    KeycloakCallers = {k1, k2}
    MaxKeycloakCalls = 2
    Entries = {e1, e2}
    StoredItems = 2
    MaxItems = 4
    MaxFiles = 3
    TableRows = {d1, d2}
    MaxNotices = 1
    MaxDeletions = 2
    AuthCallers = {a1, a2}
    HelperCalls = {x1, x2}
    MaxHelpers = 4
    FramePages = {p1, p2}
    Offered = {o1, o2}
    MaxButtons = 3
    Fields = {t1, t2}
    MaxSaves = 2
    GuessedResources = {g1, g2}
INVARIANTS
    TypesOK
    WalkSeesAll
    SecondRowOverlaps
    RetryIsRecognised
    MismatchNeedsRepick
    PhaseTellsAnyFailure
    ChecksAgree
    SeedConverges
    RecordedExpiryIsLate
    MixedOnlyByOtherTab
    LastWaiterWoken
    ShownTokenInForce
    CallsSettle
    FieldTellsValue
    FilesAsMeant
    ToastHoldsItsOwn
    OtherFinalizerKept
PROPERTIES
    RemovalSparesOthers
    StaleUntilRestart
    CutOnlyByKill
    ProtectedInPlace
SYMMETRY Symmetry
CHECK_DEADLOCK FALSE
