SPECIFICATION FairSpec
CONSTANTS
  Requests = {r1, r2, ws, tunnel}
  WebSockets = {ws}
  Connects = {tunnel}
  MaxData = 2
  Env = {"close", "cancel", "exit", "eof", "truncate", "early", "info", "ws_info"}
  MaxEnv = 2
INVARIANTS TypeOK OneHolder NoMixUp Reusable NoSilentLeak
PROPERTIES ImplementsResponseBody EveryExchangeEnds
CHECK_DEADLOCK FALSE
