CONSTANTS
  local = local  live = live  read = read  write = write  none = none
  Profiles <- OneProfile
  Writable <- WritableProfiles
  Statements <- BothStatements
  Reads <- OneStatement
  Palette <- TwoRows
  Preview = read
  Blank = none
  ConfirmQueries = TRUE
  Panics = TRUE
  MaxLinks = 2  MaxSheets = 3  MaxRuns = 1  MaxSaid = 1
SPECIFICATION Spec
INVARIANTS
  TypeOK
  TabsStandOnOpenConnections
  AnswersBelongToTheirTab
  RunningMeansOut
PROPERTIES
  HoldsStill
  TabsGoOnlyOnAnAnswer
