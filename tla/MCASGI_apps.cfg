SPECIFICATION FairSpec
CONSTANTS
  Requests = {post, ws}
  WebSockets = {ws}
  Uploads = {post}
  Readers = {post}
  MaxConnections = 3
  MaxUp = 1
  MaxData = 1
  Env = {"close", "cancel", "raise", "odd", "exit"}
  MaxEnv = 1
INVARIANTS TypeOK CompleteBody AppEndsWithRequest
PROPERTIES Answered Shutdown
CHECK_DEADLOCK FALSE
