SPECIFICATION Spec
CONSTANTS
  Requests = {r1, r2}
  Tunnels = {}
  Zero = zero
  MinData = 0
  MaxData = 1
  Window = 2
  MaxStreams = 2
  Env = {"close"}
  MaxEnv = 1
INVARIANTS EarlyCloseTolerated
CHECK_DEADLOCK FALSE
