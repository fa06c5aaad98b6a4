SPECIFICATION FairSpec
CONSTANTS
  c1 = c1
  c2 = c2
  w1 = w1
  w2 = w2
  Client = {c1, c2}
  Item = {"a", "b"}
  Worker = {w1, w2}
  Serves <- MCServes
  MaxRetries = 2
INVARIANTS
  TypeOK
  SyncedClientsAgree
  VisibleThroughDeletes
  OkMeansApplied
PROPERTIES
  HandlerReturns
  RemovalIsJustified
