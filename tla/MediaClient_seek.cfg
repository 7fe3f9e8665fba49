\* two seeks; the client ends for good, so the system may stop
SPECIFICATION FairSpec
CONSTANTS
  Moments = {1, 4, 5}
  Positions = {1, 5}
  Tolerance = 2
  MaxRing = 0
  MaxWire = 1
  MaxSeeks = 2
  MaxFrames = 2
CHECK_DEADLOCK FALSE
INVARIANTS NothingOld SoundHasPicture
PROPERTIES SeekIsSent StopEnds
