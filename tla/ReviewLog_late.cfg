SPECIFICATION ReviewSpec
CONSTANTS
  Servers = {sv1}
  MaxWorkers = 2
  Submissions = {s1}
  Legacy = {}
  MaxAttempts = 2
  JobTimeout = 1
  MaxFaults = 0
  Timely = FALSE
  LostCompletions = FALSE
  Tabs = {t1}
  MaxReviews = 1
  None = None
INVARIANT ReviewStands
