SPECIFICATION FairSpec
CONSTANTS
  Requests = {r1}
  Tunnels = {}
  Zero = zero
  MinData = 2
  MaxData = 2
  Window = 1
  MaxStreams = 2
  Env = {}
  MaxEnv = 0
PROPERTIES BodyDelivered
CHECK_DEADLOCK FALSE
