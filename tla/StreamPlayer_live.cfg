\* an old and a new worker; the object may be destroyed, so the system may stop
SPECIFICATION FairSpec
CONSTANTS
  MaxSessions = 2
  MaxPosts = 2
  MaxClips = 0
  Budget = 2
  Kinds = {"live", "once"}
CHECK_DEADLOCK FALSE
PROPERTIES WorkersProceed
