\* three launches of a session; everything may have ended
SPECIFICATION FairSpec
CONSTANTS
  Processes = {p1, p2, p3}
  None = None
  Watched = {p2}
CHECK_DEADLOCK FALSE
INVARIANTS OneClient ProgramSurvives
PROPERTIES LaunchIsAnswered
