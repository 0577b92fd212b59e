SPECIFICATION FairSpec
CONSTANTS
  MaxSent = 2
  MaxCloses = 2
  Env = {"ping", "pong", "other", "eof", "abort", "cancel", "send"}
  MaxEnv = 3
INVARIANTS TypeOK StallsOnlyAfterControl OwnErrorsOnly
PROPERTIES ImplementsResponseBody Delivered Released
CHECK_DEADLOCK FALSE
