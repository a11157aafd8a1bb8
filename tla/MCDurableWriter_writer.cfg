SPECIFICATION Spec
CONSTANTS
  Writer = {w1, w2}
  File = {"mood-wave", "triggers", "feedback", "transcript"}
  EventId = {"p1", "t1"}
  KindOf <- Kinds
  MaxAttempts = 2
  GcsMayFail = TRUE
  DbMayFail = TRUE
  AckMayBeLost = TRUE
  MayCrash = TRUE
SYMMETRY WriterSymmetry
INVARIANTS TypeOK AckedHasLines AckedHasRows LineHasRow PartsInOrder LinesWithinAttempts
PROPERTY ImplementsLog
CHECK_DEADLOCK FALSE
