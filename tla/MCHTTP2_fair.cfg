SPECIFICATION FairSpec
CONSTANTS
  Requests = {r1, r2}
  Tunnels = {}
  Zero = zero
  MinData = 0
  MaxData = 1
  Window = 2
  MaxStreams = 2
  Env = {"close", "cancel", "exit", "eof", "expire", "reset"}
  MaxEnv = 1
PROPERTIES Answered Shutdown NobodyLeftWaiting
CHECK_DEADLOCK FALSE
