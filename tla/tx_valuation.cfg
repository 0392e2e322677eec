SPECIFICATION FairSpec
CONSTANTS
    t1 = t1
    t2 = t2
    eth = eth
    bsc = bsc
    weth = weth
    usdc = usdc
    dai = dai
    abc = abc
    a1 = a1
    a2 = a2
    h1 = h1
    h2 = h2
    p1 = p1
    Token = {weth, usdc, dai, abc}
    WETH = weth
    Stables <- StablesInOrder
    Account = {a1, a2}
    Router = router
    Tx = {t1, t2}
    Scenarios <- AllKinds
    Chain = {eth, bsc}
    TokenChain = eth
    Process = {p1}
    Handler = {h1, h2}
    Home <- OneProcess
    LastQuarter = 1
    maxConcurrent = 1
    MayFail = TRUE
    MaxTakes = 2
    MaxEvents = 1
CHECK_DEADLOCK FALSE
INVARIANTS
    TypeOK
    PricedInItsQuarter
    KnownCoinsCount
    AmountsBounded
    EstimatesFlagged
    RedeliveryAgrees
PROPERTY
    Finishes
