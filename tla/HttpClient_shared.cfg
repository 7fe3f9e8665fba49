\* two threads, three calls, three logins; nobody owes a call, so the system may stop
SPECIFICATION FairSpec
CONSTANTS
  Callers = {a, b}
  MaxCalls = 3
  MaxTokens = 3
  MaxDrops = 1
CHECK_DEADLOCK FALSE
INVARIANTS SessionsAreAccounted OneRetryIsEnough
PROPERTIES OnlyDeadTokensAreDropped CallsEnd
