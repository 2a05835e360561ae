SPECIFICATION JournalSpec
CONSTANTS
  c1 = c1
  c2 = c2
  j1 = j1
  j2 = j2
  x = x
  NoId = NoId
  Callers <- MCCallers
  Jobs <- TwoJobs
  Ids <- OneId
  MaxSnapshots = 3
  MaxCalls = 4
  MaxFailures = 1
  MaxPowerLosses = 1
CHECK_DEADLOCK FALSE
INVARIANTS
  HistoryIsSafe
  LockedRootIsWhole
PROPERTIES
  ImplementsLedger
  EveryCallReturns
