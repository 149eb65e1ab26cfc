SPECIFICATION FairSpec
CONSTANTS
    h1 = h1  h2 = h2  b1 = b1  b2 = b2
    NoEvent = NoEvent
    N = 3
    Unusable = {}
    Hubs = {b1}
    Handlers = {h1, h2}
    HubOf <- OneHub
    HistoryMaxlen = 2
    FailingCalls = {"mark", "check", "push", "undo", "relate", "publish", "complete"}
    MaxFailures = 1
    MaxCrashes = 0
    MaxLosses = 0
    Clients = {c1}
    Terminal = {3}
    MaxDrops = 1
CHECK_DEADLOCK FALSE
INVARIANTS StreamDelivers
PROPERTIES StatusSettles
