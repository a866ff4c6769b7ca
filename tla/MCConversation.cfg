CONSTANTS
  first = first  second = second
  Links <- BothLinks
  Local = TRUE
  MaxTurns = 2  MaxSteps = 2  MaxPanics = 1
SPECIFICATION Spec
INVARIANTS
  RunningIsFollowed
  AgreedToWhereItIsAsked
PROPERTIES
  StoppedScreensClear
CHECK_DEADLOCK FALSE
