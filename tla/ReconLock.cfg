SPECIFICATION ReconSpec
CONSTANTS
  r1 = r1
  r2 = r2
  None = None
  Client = {1, 2}
  Item = {"a"}
  Process = {r1, r2}
  BSize = 1
  LockTTL = 5
  RenewIntvl = 2
  MaxMishaps = 3
INVARIANTS
  ReconTypeOK
  HoldsLockWhileWorking
  CleanPassAgrees
PROPERTIES
  ForeignLockKept
