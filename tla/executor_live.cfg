SPECIFICATION FairSpec
CONSTANTS
    m1 = m1
    c1 = c1
    c2 = c2
    s1 = s1
    s2 = s2
    s3 = s3
    Msg = {m1}
    Slot = {s1, s2, s3}
    Consumer = {c1}
    Channel = "save_token"
    Declared <- DeclaredDefault
    DefaultMaxRetries = 1
    Retriable = TRUE
    PublishMayFail = TRUE
    MaxCrashes = 1
CHECK_DEADLOCK FALSE
INVARIANT NoSilentLoss
PROPERTIES
    Settles
    Drains
    ImplementsFairly
