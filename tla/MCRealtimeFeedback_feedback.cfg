SPECIFICATION Spec
CONSTANTS
  Conn = {c1}
  Cooldown = 2
  LlmTimeout = 1
  RecentMax = 1
  LlmEnabled = TRUE
  RedisMayFail = TRUE
  BusMayFail = FALSE
  MaxTime = 3
  MaxMsgs = 2
INVARIANTS TypeOK SequentialSpacing GoroutineSpacing OnlyAcceptedLeavesTrace SpacingInv TriggerFeedbackDurable ShownIsDurable
PROPERTY ImplementsLimiter
CHECK_DEADLOCK FALSE
