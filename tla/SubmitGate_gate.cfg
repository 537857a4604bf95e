SPECIFICATION FairSpec
CONSTANTS
  st1 = st1
  st2 = st2
  r1 = r1
  r2 = r2
  r3 = r3
  Students = {st1, st2}
  Requests = {r1, r2, r3}
  StudentOf <- MCStudentOf
  Limits = {1, 2}
  MaxTime = 2
  MaxEdits = 1
  Overlap = FALSE
  None = None
INVARIANT GateTypeOK
INVARIANT InTime
INVARIANT IdsFollowTime
INVARIANT WithinLimit
PROPERTY EveryRequestAnswered
CHECK_DEADLOCK FALSE
