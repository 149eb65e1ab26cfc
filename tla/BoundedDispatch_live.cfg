SPECIFICATION FairSpec
CONSTANTS
    Items = {i1, i2, i3}
    Concurrency = 2
    Timeout = TRUE
    MayStop = TRUE
    MayCancel = TRUE
    MaxErrors = 2
    MaxLosses = 1
CHECK_DEADLOCK FALSE
INVARIANTS DispatchSound
PROPERTIES DispatchEnds
