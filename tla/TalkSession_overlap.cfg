\* two overlapping sessions, everything may go wrong; the object may be destroyed, so the system may stop
CONSTANTS
  MaxSessions = 2
  MaxQueue = 2
  MaxBlocks = 3
  RepliesLost = TRUE
  LinkDrops = TRUE
  StopsAccepting = TRUE
SPECIFICATION FairSpec
CHECK_DEADLOCK FALSE
INVARIANTS OnlyTheCurrentSession HeardInOrder DeadWorkerIsReported
PROPERTIES NoSpeechAfterStop WorkersEnd
