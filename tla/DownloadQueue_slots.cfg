\* two NVRs share a one-thread pool
CONSTANTS
  h1 = h1
  h2 = h2
  kitchen = kitchen
  yard = yard
  NoHost = NoHost
  NoName = NoName
  NoPath = NoPath
  Hosts = {h1, h2}
  NamesOf <- SiteNames
  Folders = {"d"}
  MaxItems = 3
  MaxTries = 1
  MaxParts = 1
  MaxCopies = 4
  MaxPosts = 1
  PoolSize = 1
SPECIFICATION FairSpec
\* the ids are used up, or the user leaves the program
CHECK_DEADLOCK FALSE
INVARIANTS OneWorkerPerNvr NoIdleNvr RunningIsAccounted
PROPERTIES ServesInOrder EverythingEnds
