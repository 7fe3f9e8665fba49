SPECIFICATION FairSpec
CONSTANTS
  Rows = {1, 2, 3}
  Empty = 0
  HostOf <- MCHostOf
  Layouts <- MCLayouts
  Hold = 2
  MinShown = 1
  Window = 1
  MaxStarts = 1
  MaxPins = 1
  Watched = 3
PROPERTIES HeldCamerasStay TilesAreGivenRight QueueDrains
