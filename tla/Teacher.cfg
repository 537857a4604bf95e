\* Two submissions, reports and samples; programs of four tokens; the detector's
\* own numbers; three assignments without a course.
SPECIFICATION TeacherSpec
CONSTANTS
  Targets = {"t1", "t2"}
  Known = {"t1"}
  Kinds = {"off", "plain", "samples"}
  MaxReports = 2
  MaxStale = 1
  NoTarget = NoTarget
  Sources = {"x1", "x2"}
  Templates = {"empty", "common"}
  NoTemplate = "empty"
  MaxOld = 1
  Unset = Unset
  Expected = 2
  MaxReads = 2
  Unread = Unread
  Languages = {"Python", "Java", "C++"}
  Enabled = {"Python", "Java"}
  FirstEnabled = "Java"
  First = "Python"
  Unpublished = Unpublished
  MaxCalls = 3
  Identifiers = {"x", "y"}
  Keywords = {"k"}
  MaxTokens = 4
  MinRun = 2
  Totals <- TotalsMC
  Capacity = 510
  OverlapTokens = 64
  DetectorMax = 64
  ServerMax = 64
  Fields = {"score", "evidence"}
  Required = {"score"}
  Points = {0, 5}
  MaxDimensions = 2
  NoEvaluation = NoEvaluation
  Starts = {"m1", "m2"}
  Legacy = {"a1", "a2", "a3"}
  TeacherOf <- TeacherOfMC
  Submitters <- SubmittersMC
  Nobody = "none"
INVARIANTS
  TeacherTypeOK
  ShownReportsSaved
  EditKeepsIdentity
  TokensCountOnce
  ResultAccepted
  OneAnswer
  PlaceholderNeverGrades
  MigratedOnce
PROPERTIES
  OutdatedAnswersIgnored
CHECK_DEADLOCK FALSE
