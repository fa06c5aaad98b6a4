SPECIFICATION FairSpec
CONSTANTS
  s1 = s1
  s2 = s2
  None = None
  Unset = Unset
  Bad = Bad
  Char = {"1", "2", "x"}
  Digit = {"1", "2"}
  Nul = "nul"
  ClientLen = 1
  StockLen = 1
  SH = "1"
  SZ = "2"
  Sender = {s1, s2}
  Pool = {1, 2}
  Order <- MCOrder
  Files <- MCFiles
  Envs <- MCEnvs
  MaxTries = 3
  MaxAttempts = 2
INVARIANTS
  TypeOK
  CountersAddUp
  CloseDrains
  ReorderedOnlyTogether
  OnlyBatchToutIsNeeded
PROPERTIES
  CallsReturn
CHECK_DEADLOCK FALSE
