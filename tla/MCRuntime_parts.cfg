SPECIFICATION Spec
CONSTANTS
  Components = {"hub", "dlq", "aggregation", "forwarder", "graph", "lifespan", "pressure"}
  Nothing = Nothing
  h1 = h1 h2 = h2 b1 = b1 b2 = b2
  NoEvent = NoEvent
  N = 3
  Unusable = {2}
  Hubs = {b1, b2}
  Handlers = {h1, h2}
  HubOf <- TwoHubs
  HistoryMaxlen = 2
  FailingCalls = {"mark", "push", "relate", "publish", "complete"}
  MaxFailures = 2
  MaxCrashes = 1
  MaxLosses = 1
  NoRecord = NoRecord
  Operators = {o1, o2}
  Requests = {"replay", "force", "investigate", "review", "retry", "delete"}
  LockMayExpire = TRUE
  FailingDlqCalls = {"claim", "publish", "markget", "markset", "repeat", "write"}
  MaxRequests = 4
  MaxDlqFailures = 1
  MaxApiCrashes = 1
  BatchSize = 3
  MaxObservations = 4
  MaxFlushes = 2
  Stages = {"a"}
  Messages = {"m"}
  MaxTime = 2
  MaxObserved = 3
  MaxStated = 2
  Children = {"a", "b"}
  Malformed = {"b"}
  Shards = {0, 1}
  ShardOf <- MCShardOf
  AggregationQueues = {{0}, {0, 1}}
  AggregationRetries = 1
  AggregationPrefetch = 2
  MaxAggregationFaults = 1
  StudioWorkers <- MCStudioWorkers
  Guarded = {"pull", "email", "relay", "recovery"}
  NoData = NoData
  Collectors <- MCCollectors
  QueueNames <- MCQueueNames
  CollectorLimit = 2
  QueueLimit = 2
  WarningDepth = 1
  CriticalDepth = 2
CHECK_DEADLOCK FALSE
INVARIANTS HubSound  AggregationKept NoObservationLost GraphFaithful StopReleases PressureReported
