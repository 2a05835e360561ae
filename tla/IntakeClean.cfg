SPECIFICATION OutsideSpec
CONSTANTS
  c1 = c1
  c2 = c2
  Callers <- MCCallers
  MayDie = TRUE
  MayFail = TRUE
  Limit = 2
  PipeRead = 2
  MaxWritten = 4
  a = a
  b = b
  m1 = m1
  m2 = m2
  p1 = p1
  p2 = p2
  p3 = p3
  s1 = s1
  s2 = s2
  Destinations <- MCPaths
  Branches <- MCBranches
  Contents <- MCContents
  IntakeScenarios <- MCIntakeScenarios
  Sessions <- MCSessions
  MaxEdits = 4
  SeedScenarios <- MCSeedScenarios
CHECK_DEADLOCK FALSE
INVARIANTS
  ProposalMeansClean
