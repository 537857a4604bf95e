SPECIFICATION FairSpec
CONSTANTS
  sv1 = sv1
  sv2 = sv2
  r1 = r1
  r2 = r2
  r3 = r3
  k1 = k1
  Servers = {sv1, sv2}
  Requests = {r1, r2, r3}
  Tasks = {k1}
  ServerOf <- MCServerOf
  TaskOf <- MCTaskOf
  Samples = {x1, x2, x3}
  Expected = 2
  None = None
INVARIANT BankTypeOK
INVARIANT AnswersAgree
INVARIANT SamplesDiffer
INVARIANT SingleFlight
INVARIANT NeverMissing
PROPERTY ImplementsBank
PROPERTY EveryRequestAnswered
CHECK_DEADLOCK FALSE
