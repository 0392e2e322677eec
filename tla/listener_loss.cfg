SPECIFICATION Spec
CONSTANTS
    i1 = i1
    StartBlock = 8
    StartAtLatest = FALSE
    InitialHead = 8
    MaxHead = 11
    TxIndex = {i1}
    CachePriceAfterBlocks = 5
    PendingChannel = "discovered_tx_to_process"
    MaxSaveTxMessagesToHalt = 2
    PublishMayFail = FALSE
    SaveMayFail = TRUE
    MaxCrashes = 1
    MaxRefusals = 0
CHECK_DEADLOCK FALSE
INVARIANT
    NothingLost
