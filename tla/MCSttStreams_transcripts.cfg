SPECIFICATION FairSpec
CONSTANTS
  Speaker = {"self"}
  MaxAge = 2
  Capacity = 1
  Keep = 3
  Pack = 1
  Flush = 2
  SttMayFail = TRUE
  RedisMayFail = TRUE
  BusMayFail = FALSE
  MaxStreams = 2
  MaxResults = 2
  MaxTime = 3
INVARIANTS TypeOK OneStreamPerSpeaker PublishedInOrder ResultsKept 
PROPERTY StreamsEnd
CHECK_DEADLOCK FALSE
