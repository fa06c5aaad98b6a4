SPECIFICATION Spec
CONSTANTS
  w1 = w1
  w2 = w2
  q1 = q1
  r1 = r1
  r2 = r2
  None = None
  Client = {1}
  Item = {"a", "b"}
  Worker = {w1}
  Serves <- OneWorker
  MaxRetries = 1
  Request = {q1}
  Process = {}
  BSize = 1
  LockTTL = 2
  RenewIntvl = 1
  MaxMishaps = 0
  MaxLate = 1
INVARIANTS
  TypeOK
  AnswersAreCurrent
  DisagreementExplained
