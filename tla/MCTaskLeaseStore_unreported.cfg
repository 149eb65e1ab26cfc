SPECIFICATION FairSpec
CONSTANTS
    w1 = w1  w2 = w2  o1 = o1
    NoLease = NoLease
    Workers = {w1}
    Scanners = {s1}
    Owners = {o1}
    Owner <- OwnOne
    Ttl = 4
    Second = 2
    Prompt = TRUE
    MaxTime = 8
    MaxLeases = 1
    MaxCrashes = 1
    MaxFailures = 0
PROPERTIES ExpiredReported
CHECK_DEADLOCK FALSE
