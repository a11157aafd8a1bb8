SPECIFICATION FairSpec
CONSTANTS
  Writer = {w1, w2}
  File = {"mood-wave", "triggers", "feedback", "transcript"}
  EventId = {"t1"}
  KindOf <- Kinds
  MaxAttempts = 3
  GcsMayFail = TRUE
  DbMayFail = TRUE
  AckMayBeLost = TRUE
  MayCrash = TRUE
PROPERTY Settles
CHECK_DEADLOCK FALSE
