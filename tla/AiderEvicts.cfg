SPECIFICATION ChildrenSpec
CONSTANTS
  c1 = c1
  c2 = c2
  Callers <- MCCallers
  MayDie = FALSE
  MayFail = FALSE
  Limit = 1
  PipeRead = 1
  MaxWritten = 1
CHECK_DEADLOCK FALSE
INVARIANTS
  NeverDeletesAnother
