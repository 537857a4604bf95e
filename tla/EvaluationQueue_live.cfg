SPECIFICATION FairSpec
CONSTANTS
  Servers = {sv1}
  MaxWorkers = 2
  Submissions = {s1, s2}
  Legacy = {s1}
  MaxAttempts = 2
  JobTimeout = 1
  MaxFaults = 1
  Timely = TRUE
  LostCompletions = FALSE
  None = None
PROPERTY EverySubmissionSettles
PROPERTY ImplementsLifecycle
