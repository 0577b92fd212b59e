SPECIFICATION Spec
CONSTANTS
  Requests = {r1, r2}
  Tunnels = {r2}
  Zero = zero
  MinData = 0
  MaxData = 1
  Window = 2
  MaxStreams = 2
  Env = {"close", "cancel", "exit", "expire", "window"}
  MaxEnv = 2
INVARIANTS TypeOK NoSilentEnd WindowCredit
CHECK_DEADLOCK FALSE
