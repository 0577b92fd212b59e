SPECIFICATION Spec
CONSTANTS
  Requests = {r1, r2}
  Tunnels = {r2}
  Zero = zero
  MinData = 0
  MaxData = 2
  Window = 2
  MaxStreams = 2
  Env = {"reset", "eof", "goaway", "abort", "ping", "exit"}
  MaxEnv = 1
INVARIANTS InOrder
PROPERTIES ImplementsResponseBody
CHECK_DEADLOCK FALSE
