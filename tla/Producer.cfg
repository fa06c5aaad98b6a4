SPECIFICATION Spec
CONSTANTS
  s1 = s1
  s2 = s2
  None = None
  Char = {"1", "2", "x"}
  Digit = {"1", "2"}
  Nul = "nul"
  ClientLen = 2
  StockLen = 1
  SH = "1"
  SZ = "2"
  Sender = {s1, s2}
  Order <- MCOrder
  Partition = {1, 2}
  Hash <- MCHash
  BatchSize = 2
  MaxCopies = 2
  MaxAttempts = 3
INVARIANTS
  TypeOK
  CountersAddUp
  TopicTellsLastAction
  KeysTellOrdersApart
