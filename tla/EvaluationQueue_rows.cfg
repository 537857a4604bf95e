SPECIFICATION Spec
CONSTANTS
  Servers = {sv1, sv2}
  MaxWorkers = 1
  Submissions = {s1, s2}
  Legacy = {s2}
  MaxAttempts = 2
  JobTimeout = 1
  MaxFaults = 1
  Timely = TRUE
  LostCompletions = FALSE
  None = None
INVARIANT TypeOK
INVARIANT SoleOwner
INVARIANT RowsAgree
INVARIANT LastAttemptShown
INVARIANT WorkNeverSleeps
SYMMETRY ServerSymmetry
