CONSTANTS
  one = one  other = other  Slots = {one, other}
  Connections = 2  Limit = 1  Elsewhere = FALSE
  MaxIds = 2  MaxTurns = 2  MaxThreads = 1  MaxWishes = 1  MaxCuts = 1
SYMMETRY Alike
SPECIFICATION Spec
INVARIANTS
  HalvesGoTogether
  IdsAreTheirOwn
PROPERTIES
  TrimMends
CHECK_DEADLOCK FALSE
