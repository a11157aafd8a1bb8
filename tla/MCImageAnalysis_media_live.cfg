SPECIFICATION FairSpec
CONSTANTS
  Capture = {"c1", "e1"}
  Audience = {"ana"}
  FrameOf <- Frames
  Backends = {"gcs", "local"}
  Server = {q1, q2}
  Worker = {w1}
  MaxRequests = 4
  MaxAttempts = 2
  DbMayFail = TRUE
  MediaMayFail = TRUE
  BusMayFail = TRUE
  RedisMayFail = TRUE
  AckMayBeLost = TRUE
  MayCrash = TRUE
INVARIANTS EventIsBacked AcceptedHasEvent ReadyIsBacked
PROPERTIES ImplementsLifecycle CompleteIsProcessed
CHECK_DEADLOCK FALSE
