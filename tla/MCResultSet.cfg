CONSTANTS
  Drivers <- EveryDriver
  Limits <- SomeLimits
  MaxRows = 3
SPECIFICATION Spec
CHECK_DEADLOCK FALSE
INVARIANTS
  TypeOK
  NothingLeftOpen
  TruncationIsHonest
PROPERTIES
  GivenUpIsThrown
  WorkIsSettled
