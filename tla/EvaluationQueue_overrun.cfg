SPECIFICATION FairSpec
CONSTANTS
  Servers = {sv1}
  MaxWorkers = 2
  Submissions = {s1}
  Legacy = {}
  MaxAttempts = 2
  JobTimeout = 1
  MaxFaults = 2
  Timely = FALSE
  LostCompletions = TRUE
  None = None
INVARIANT FailedOnlyExhausted
INVARIANT GradeHasEvaluation
PROPERTY EveryJobCloses
