SPECIFICATION FairSpec
CONSTANTS
    w1 = w1  w2 = w2  w3 = w3
    t1 = t1  t2 = t2  t3 = t3
    o1 = o1  o2 = o2
    NoOwner = NoOwner
    Workers = {w1, w2}
    Tasks = {t1}
    Owners = {o1, o2}
    Owner <- OwnEach
    Submissions <- OneTask
    Retrying = {w1, w2}
    MaxRetries = 1
    FailureAction <- AllReject
    LeaseEnabled = TRUE
    MaxManual = 1
    MaxFaults = 1
CHECK_DEADLOCK FALSE
INVARIANTS TypeOK LeaseExcludes DeadLetterSound
PROPERTIES DeliveryContract Drains
