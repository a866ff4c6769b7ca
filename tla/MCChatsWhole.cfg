CONSTANTS
  one = one  other = other  Slots = {one}
  Connections = 1  Limit = 2  Elsewhere = FALSE
  MaxIds = 2  MaxTurns = 2  MaxThreads = 1  MaxWishes = 1  MaxCuts = 1
SPECIFICATION Spec
PROPERTIES
  KeptWhole
CHECK_DEADLOCK FALSE
