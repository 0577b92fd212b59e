SPECIFICATION Spec
CONSTANTS
  Requests = {r1, r2}
  WebSockets = {}
  Connects = {}
  MaxData = 2
  Env = {"truncate"}
  MaxEnv = 1
INVARIANTS CompleteBody
CHECK_DEADLOCK FALSE
