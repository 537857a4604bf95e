SPECIFICATION ReviewSpec
CONSTANTS
  Servers = {sv1}
  MaxWorkers = 2
  Submissions = {s1}
  Legacy = {}
  MaxAttempts = 2
  JobTimeout = 1
  MaxFaults = 1
  Timely = TRUE
  LostCompletions = FALSE
  Tabs = {t1, t2}
  MaxReviews = 2
  None = None
INVARIANT ReviewTypeOK
INVARIANT ReviewStands
INVARIANT ReviewedEvaluationKept
PROPERTY RevisionsSeen
