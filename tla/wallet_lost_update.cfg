SPECIFICATION Spec
CONSTANTS
    w1 = w1
    f1 = f1
    f2 = f2
    m1 = m1
    m2 = m2
    h1 = h1
    h2 = h2
    p1 = p1
    p2 = p2
    t1 = t1
    t2 = t2
    Wallet = {w1}
    Fact = {f1, f2}
    Msg = {m1, m2}
    Target <- OneWallet
    Facts <- OwnFacts
    OldTx = {t1}
    Existing = {w1}
    Process = {p1, p2}
    Handler = {h1, h2}
    Home <- OwnProcess
    MaxRetries = 1
    MayFail = FALSE
    MaxCrashes = 0
CHECK_DEADLOCK FALSE
INVARIANT
    AppliedKept
