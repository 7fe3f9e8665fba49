\* two NVRs of one name, ranges of up to two files, two save folders
CONSTANTS
  h1 = h1
  h2 = h2
  kitchen = kitchen
  yard = yard
  NoHost = NoHost
  NoName = NoName
  NoPath = NoPath
  Hosts = {h1, h2}
  NamesOf <- TwinNames
  Folders = {"d", "e"}
  MaxItems = 2
  MaxTries = 2
  MaxParts = 2
  MaxCopies = 2
  MaxPosts = 0
  PoolSize = 2
SPECIFICATION Spec
\* the ids are used up, or the user leaves the program
CHECK_DEADLOCK FALSE
INVARIANTS SavedFilesExist NothingLeftBehind
PROPERTIES OnlySharedNamesClash
