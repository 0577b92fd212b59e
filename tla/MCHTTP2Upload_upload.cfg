SPECIFICATION FairSpec
CONSTANTS
  Uploads = {u1, u2}
  Zero = zero
  u1 = u1
  u2 = u2
  Size <- Sizes
  ReadMax = 2
  FrameMax = 2
  ConnWindow = 1
  MaxWire = 2
  StreamWindow = 2
  Env = {"cancel", "early", "reset", "lower", "stop"}
  MaxEnv = 1
INVARIANTS TypeOK OnlyLoweringRefuses CompleteUpload NoLostWakeup
CHECK_DEADLOCK FALSE
PROPERTY UploadEnds
