SPECIFICATION FairSpec
CONSTANTS
    s1 = s1
    Workers = {w1, w2}
    Messages = {a, b}
    Signatures = {s1}
    Signature <- OneSignature
    Suspect = {b}
    Retrying = {w1}
    MaxRetries = 1
    Dedup = TRUE
    LeaseEnabled = TRUE
    SlowRetry = TRUE
    NoCopy = NoCopy
    MaxFaults = 1
CHECK_DEADLOCK FALSE
INVARIANTS DedupExcludes MessagesKept
PROPERTIES ComesToRest
