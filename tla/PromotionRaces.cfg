SPECIFICATION Spec
CONSTANTS
  p1 = p1
  p2 = p2
  prep = prep
  e1 = e1
  e2 = e2
  r1 = r1
  r2 = r2
  Paths <- MCPaths
  FileOrder <- MCFileOrder
  Preparers <- OnePreparer
  Executors <- TwoExecutors
  Rollbackers <- TwoRollbackers
  Scenarios <- RaceScenarios
SYMMETRY WorkerSymmetry
VIEW RunningView
CHECK_DEADLOCK FALSE
INVARIANTS
  RecoveryHolds
  OneInstaller
  OutcomeHolds
  OutcomeIsDurable
  AtMostOneFileLate
  EditsSurvive
