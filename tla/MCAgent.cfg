CONSTANTS
  Tools <- SomeTools
  Statements <- SomeStatements
  NoStatement <- SomeNone
  Reading <- SomeReading
  Writable = TRUE
  Local = FALSE
  Rounds = 2
  MaxCalls = 2
  MaxAsks = 1
  Saved <- SomeSaved
  Overlaps = FALSE
SPECIFICATION Spec
INVARIANTS
  TypeOK
  CallsAreAnswered
  OldestGoesFirst
PROPERTIES
  NothingUnasked
  OnlyThePersonIsWaitedFor
  StoppedTurnsEnd
