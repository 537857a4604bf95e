\* A server that is configured without the language a form begins with.
SPECIFICATION PublishSpec
CONSTANTS
  Languages = {"Python", "Java", "C++"}
  Enabled = {"Java", "C++"}
  FirstEnabled = "C++"
  First = "Python"
  Unpublished = Unpublished
  MaxCalls = 3
INVARIANT EditKeepsIdentity
CHECK_DEADLOCK FALSE
