SPECIFICATION Spec
CONSTANTS
  c1 = c1
  c2 = c2
  i1 = i1
  i2 = i2
  s1 = s1
  s2 = s2
  None = None
  Client = {c1, c2}
  Item = {"a"}
  MaxRetries = 1
  Instance = {i1}
  Slot = {s1, s2}
  Route <- RouteApart
  Partition = {1}
  Logs <- LogsLoss
  BatchSize = 2
  ChanCap = 1
  Faults = {"crash"}
  MaxFaults = 1
INVARIANTS
  NoDataLost
CHECK_DEADLOCK FALSE
