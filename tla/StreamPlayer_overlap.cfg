\* two overlapping streams with retries and two recordings; the object may be destroyed, so the system may stop
SPECIFICATION Spec
CONSTANTS
  MaxSessions = 2
  MaxPosts = 2
  MaxClips = 2
  Budget = 2
  Kinds = {"retried"}
CHECK_DEADLOCK FALSE
INVARIANTS OneStream EndIsShown RetriesAreLimited RecordingsAreInOrder
PROPERTIES OnlyCurrentOnScreen
