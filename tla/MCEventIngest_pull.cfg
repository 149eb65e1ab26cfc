SPECIFICATION Spec
CONSTANTS
  t1 = t1 t2 = t2
  MaxEvents = 3
  Tasks = {t1, t2}
  TaskOf <- MCTaskOf
  Time <- MCTime
  StatusOf <- MCStatusOf
  Pushed = {2}
  FeedMax = 2
  PageLimit = 1
  MaxPages = 2
  Modes = {"postgres", "redis"}
  None = None
  MaxEdits = 1
  MaxFaults = 1
CHECK_DEADLOCK FALSE
INVARIANTS FeedCovered DocumentSound
