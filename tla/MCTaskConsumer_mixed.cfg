SPECIFICATION Spec
CONSTANTS
    w1 = w1  w2 = w2  w3 = w3
    t1 = t1  t2 = t2  t3 = t3
    o1 = o1  o2 = o2
    NoOwner = NoOwner
    Workers = {w1, w3}
    Tasks = {t1, t2, t3}
    Owners = {o1}
    Owner <- OwnShared
    Submissions <- BatchAndBad
    Retrying = {w1}
    MaxRetries = 0
    FailureAction <- OneRequeues
    LeaseEnabled = FALSE
    MaxManual = 0
    MaxFaults = 1
CHECK_DEADLOCK FALSE
INVARIANTS NoTaskLost SingleCopyWithoutFaults
