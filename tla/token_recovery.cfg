SPECIFICATION FairSpec
CONSTANTS
    k1 = k1
    h1 = h1
    h2 = h2
    p1 = p1
    p2 = p2
    Token = {k1}
    Process = {p1, p2}
    Handler = {h1, h2}
    Home <- OneEach
    MaxRetries = 1
    MayFail = TRUE
    MaxCrashes = 1
CHECK_DEADLOCK FALSE
INVARIANTS
    TypeOK
    CopiesOK
PROPERTIES
    MarksNeedOverlap
    RequestsKept
    Recovered
