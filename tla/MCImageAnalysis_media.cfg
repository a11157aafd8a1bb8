SPECIFICATION Spec
CONSTANTS
  Capture = {"c1", "c2"}
  Audience = {"ana"}
  FrameOf <- Frames
  Backends = {"gcs"}
  Server = {q1}
  Worker = {w1, w2}
  MaxRequests = 4
  MaxAttempts = 2
  DbMayFail = TRUE
  MediaMayFail = FALSE
  BusMayFail = FALSE
  RedisMayFail = TRUE
  AckMayBeLost = TRUE
  MayCrash = FALSE
SYMMETRY WorkerSymmetry
INVARIANTS TypeOK AckedIsRecorded  CacheIsCurrent
CHECK_DEADLOCK FALSE
