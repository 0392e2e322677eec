SPECIFICATION FairSpec
CONSTANTS
    t1 = t1
    t2 = t2
    a1 = a1
    k1 = k1
    r1 = r1
    h1 = h1
    h2 = h2
    p1 = p1
    p2 = p2
    Tx = {t1, t2}
    Address = {a1}
    Token = {k1}
    Contract = {r1}
    Kind <- KindOf
    Reverted = {}
    Large = {t1}
    Sender <- OneSender
    Receiver <- OneSender
    Swapped <- SwappedBy
    Router <- RouterOf
    Followed = {}
    InBlocks = {t1}
    Process = {p1, p2}
    Handler = {h1, h2}
    Home <- OneEach
    MayFail = TRUE
    MaxCrashes = 1
CHECK_DEADLOCK FALSE
INVARIANTS
    TypeOK
    EffectsFirst
    AnnouncedExplained
    

    
