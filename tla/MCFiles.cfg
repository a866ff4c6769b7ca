CONSTANTS
  here = here  there = there  a = a
  Absent = Absent  NoName = NoName
  Roots = {here, there}  Names = {a}
  Wanders = FALSE
  MaxText = 1  MaxTabs = 2  MaxJobs = 2
SPECIFICATION Spec
SYMMETRY Either
CONSTRAINT Sure
INVARIANTS
  ClosingLosesNothing
PROPERTIES
  WrittenOverWhenAsked
