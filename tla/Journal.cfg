SPECIFICATION JournalSpec
CONSTANTS
  c1 = c1
  c2 = c2
  p1 = p1
  Callers <- MCCallers
  Paths <- MCPaths
  MaxSnapshots = 4
  MaxCalls = 4
  MaxCrashes = 2
  MaxPowerLosses = 2
CHECK_DEADLOCK FALSE
INVARIANTS
  AckedIsDurable
  NoForkAcknowledged
  NoSnapshotReturns
  NothingToldIsForgotten
  JournalInv
PROPERTIES
  ImplementsLedger
  EveryCallReturns
