\* One tab of two students on one assignment; a history of three pages.
SPECIFICATION StudentSpec
CONSTANTS
  Accounts = {"u1"}
  MaxEntries = 3
  MaxAsked = 2
  NoOne = "none"
  Users = {"u1", "u2"}
  Subs = {"s1"}
  MaxSubmissions = 1
  MaxLoads = 2
  MaxPolls = 1
  MaxPosts = 1
  Overlap = FALSE
  None = None
  Texts = {"tidy", "untidy", "broken"}
  Formatted <- FormatterMC
  NoText = "none"
INVARIANTS
  StudentTypeOK
  SessionDataOnly
  BackStaysInApp
PROPERTIES
  PendingPageSettles
  TypedTextKept
CHECK_DEADLOCK FALSE
