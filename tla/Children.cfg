SPECIFICATION ChildrenSpec
CONSTANTS
  c1 = c1
  c2 = c2
  Callers <- MCCallers
  MayDie = TRUE
  MayFail = TRUE
  Limit = 2
  PipeRead = 2
  MaxWritten = 4
CHECK_DEADLOCK FALSE
INVARIANTS
  ResultIsTrue
PROPERTIES
  EveryRunReturns
