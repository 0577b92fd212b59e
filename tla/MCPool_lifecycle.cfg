SPECIFICATION OrderedSpec
CONSTANTS
  Requests = {1, 2, 3}
  None = none
  Kinds = {"h11", "h2"}
  MaxStreams = 2
  Env = {"refuse", "drop", "fail", "exit", "settings"}
  MaxEnv = 2
INVARIANTS TypeOK WithinSlots  HeldInPool
 
CHECK_DEADLOCK FALSE
