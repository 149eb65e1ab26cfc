SPECIFICATION FairSpec
CONSTANTS
    w1 = w1  w2 = w2  o1 = o1
    NoLease = NoLease
    Workers = {w1, w2}
    Scanners = {s1, s2}
    Owners = {o1}
    Owner <- OwnShared
    Ttl = 1
    Second = 2
    Prompt = TRUE
    MaxTime = 3
    MaxLeases = 2
    MaxCrashes = 1
    MaxFailures = 1
CHECK_DEADLOCK FALSE
INVARIANTS LeaseSound
PROPERTIES IndexCleaned
