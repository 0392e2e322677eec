SPECIFICATION Spec
CONSTANTS
    m1 = m1
    c1 = c1
    c2 = c2
    s1 = s1
    s2 = s2
    s3 = s3
    Msg = {m1}
    Slot = {s1, s2}
    Consumer = {c1}
    Channel = "discovered_tx_to_process"
    Declared <- DeclaredLarger
    DefaultMaxRetries = 1
    Retriable = TRUE
    PublishMayFail = FALSE
    MaxCrashes = 0
CHECK_DEADLOCK FALSE
INVARIANT NoLoss
