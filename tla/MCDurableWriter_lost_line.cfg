SPECIFICATION Spec
CONSTANTS
  Writer = {w1, w2}
  File = {"mood-wave", "triggers", "feedback", "transcript"}
  EventId = {"s1", "s2"}
  KindOf <- Kinds
  MaxAttempts = 2
  GcsMayFail = FALSE
  DbMayFail = FALSE
  AckMayBeLost = FALSE
  MayCrash = FALSE
INVARIANT ReturnedIsReadable
CHECK_DEADLOCK FALSE
