SPECIFICATION Spec
CONSTANTS
  Components = {"registry", "provider", "mail", "incidents", "auth", "load", "backfill", "alerts", "goals", "pages", "joins", "search", "health"}
  Nothing = Nothing
  Infinite = Infinite
  f1 = f1 f2 = f2 f3 = f3 g1 = g1 g2 = g2 c1 = c1
  Services = {"s1", "s2"}
  Urls = {"u1", "u2"}
  TrustedUrls = {"u1"}
  RegistryModes = {"postgres", "redis"}
  Callers = {"k1", "k2"}
  MaxRegistryCalls = 3
  Providers = {p1, p2, p3}
  Requests = {q1, q2, q3}
  Gates = {1, 2, 3, 4, 5, 6}
  MaxStates = 2
  MaxActive = 2
  MaxWaiting = 2
  MaxRequests = 4
  Replicas = {r1, r2}
  Failures = {x1, x2}
  MailStores = {"postgres", "redis"}
  MaxMailFaults = 1
  MaxPatches = 1
  MaxSweeps = 2
  FailedTasks = {f1, f2, f3}
  Groups = {g1, g2}
  SplitIds = {s1}
  Scopes = {"a", "b"}
  GroupOf <- MCGroupOf
  ScopeOf <- MCScopeOf
  Operators = {o1, o2}
  MaxCorrections = 3
  Users = {u1, u2}
  Bootstrap = {u1}
  AuthStores = {"postgres", "redis"}
  Logins = {l1}
  Visitors = {v1, v2}
  MaxVisits = 2
  Plans = {i1, i2}
  Chambers = {c1, c2}
  Environments = {"e1", "e2"}
  Workers = {w1, w2}
  MaxLoadCalls = 4
  Owners = {"o1"}
  ScanOrder <- MCScanOrder
  Backfills = {b1, b2}
  MaxSourceWrites = 1
  Episodes = {e1, e2}
  Hooks = {h1, h2}
  MaxReceipts = 1
  MaxHooks = 2
  MaxCount = 2
  FreshFor = 1
  EndSlack = 1
  Upstreams = {1, 2}
  MaxFailedAt = 3
  UpstreamLimit = 2
  ListLimit = 2
  MaxListChanges = 1
  Home = "h"
  Peers = {"p1", "p2"}
  OwnTask = "t0"
  OtherTasks = {"t1"}
  Documents = {1, 2, 3}
  MaxSeenAt = 2
  SearchLimit = 1
  MaxSearchChanges = 2
  Refreshers = {n1, n2}
  MaxHealthTime = 1
  MaxHealthCalls = 2
  StaleAfter = 0
CHECK_DEADLOCK FALSE
INVARIANTS  ProbingSound MailSound FailureHasIncident  OneJobPerPlan 
INVARIANTS   PagesComplete JoinsSound  HealthHonest
