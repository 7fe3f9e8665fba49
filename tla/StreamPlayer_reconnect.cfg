\* one live stream that is interrupted once
SPECIFICATION Spec
CONSTANTS
  MaxSessions = 1
  MaxPosts = 2
  MaxClips = 0
  Budget = 2
  Kinds = {"live"}
CHECK_DEADLOCK FALSE
INVARIANT PictureIsShown
