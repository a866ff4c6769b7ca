CONSTANTS
  here = here  there = there
  Programs = {here}
  Size = 2
  MaxFetches = 3
  Strangers = FALSE
  Carried = TRUE
  Overlaps = FALSE
SPECIFICATION Spec
INVARIANT PartsCarryOn
CHECK_DEADLOCK FALSE
