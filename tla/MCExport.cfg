CONSTANTS
  a = a  b = b
  Paths = {a, b}
  MaxRuns = 2
SPECIFICATION ExportSpec
INVARIANTS
  WholeOrNothing
  BusyIsFollowed
