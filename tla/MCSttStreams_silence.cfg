SPECIFICATION Spec
CONSTANTS
  Speaker = {"self"}
  MaxAge = 2
  Capacity = 1
  Keep = 3
  Pack = 1
  Flush = 2
  SttMayFail = FALSE
  RedisMayFail = FALSE
  BusMayFail = FALSE
  MaxStreams = 2
  MaxResults = 3
  MaxTime = 4
INVARIANT RecentSpeechInWindow
CHECK_DEADLOCK FALSE
