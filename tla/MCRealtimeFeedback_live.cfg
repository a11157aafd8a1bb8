SPECIFICATION FairSpec
CONSTANTS
  Conn = {c1}
  Cooldown = 1
  LlmTimeout = 1
  RecentMax = 1
  LlmEnabled = TRUE
  RedisMayFail = TRUE
  BusMayFail = FALSE
  MaxTime = 1
  MaxMsgs = 2
PROPERTY DisconnectReleases
CHECK_DEADLOCK FALSE
