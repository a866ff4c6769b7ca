CONSTANTS
  local = local  live = live  read = read  write = write  none = none
  Profiles <- BothProfiles
  Writable <- WritableProfiles
  Statements <- OneStatement
  Reads <- OneStatement
  Palette <- TwoRows
  Preview = read
  Blank = none
  ConfirmQueries = TRUE
  Panics = FALSE
  MaxLinks = 2  MaxSheets = 2  MaxRuns = 2  MaxSaid = 1
SPECIFICATION Spec
INVARIANTS
  FiledWhereItRan
  AbandonedIsCancelled
PROPERTIES
  RunsKeepTheirPromise
  EveryRunSettles
