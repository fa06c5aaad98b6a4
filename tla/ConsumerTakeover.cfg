SPECIFICATION Spec
CONSTANTS
  c1 = c1
  c2 = c2
  i1 = i1
  i2 = i2
  s1 = s1
  s2 = s2
  None = None
  Client = {c1}
  Item = {"a", "b"}
  MaxRetries = 1
  Instance = {i1, i2}
  Slot = {s1}
  Route <- RouteTogether
  Partition = {1}
  Logs <- LogsTakeover
  BatchSize = 2
  ChanCap = 1
  Faults = {"store", "commit", "crash", "signal"}
  MaxFaults = 2
INVARIANTS
  RowsFollowLog
  StoresAgree
CHECK_DEADLOCK FALSE
