SPECIFICATION FairSpec
CONSTANTS
    i1 = i1
    StartBlock = 8
    StartAtLatest = FALSE
    InitialHead = 8
    MaxHead = 11
    TxIndex = {i1}
    CachePriceAfterBlocks = 5
    PendingChannel = "discovered_tx_to_process"
    MaxSaveTxMessagesToHalt = 2
    PublishMayFail = TRUE
    SaveMayFail = TRUE
    MaxCrashes = 1
    MaxRefusals = 1
CHECK_DEADLOCK FALSE
INVARIANTS
    TypeOK
    NoBlockSkipped
    LossNeedsRecord
PROPERTIES
    KeepsUp
    EveryTxPublished
    RestartNeverSkips
