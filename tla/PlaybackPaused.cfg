SPECIFICATION Spec
CONSTANTS
  a = a
  b = b
  None = None
  Worlds <- OneList
  Orders = {}
  Gestures = {"click", "toggle"}
  MaxCalls = 3
  MaxJobs = 2
  MaxEvents = 1
INVARIANTS PauseShown
CHECK_DEADLOCK FALSE
