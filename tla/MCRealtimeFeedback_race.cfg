SPECIFICATION Spec
CONSTANTS
  Conn = {c1}
  Cooldown = 2
  LlmTimeout = 1
  RecentMax = 1
  LlmEnabled = TRUE
  RedisMayFail = FALSE
  BusMayFail = FALSE
  MaxTime = 3
  MaxMsgs = 2
INVARIANT AcceptedOutsideCooldown
CHECK_DEADLOCK FALSE
