\* The form is left for the other one while its sign-in is under way.
SPECIFICATION WorkspaceSpec
CONSTANTS
  Users = {"u1", "u2"}
  Subs = {"s1"}
  MaxSubmissions = 1
  MaxLoads = 2
  MaxPolls = 1
  MaxPosts = 1
  Overlap = TRUE
  None = None
INVARIANT SessionDataOnly
CHECK_DEADLOCK FALSE
