SPECIFICATION Spec
CONSTANTS
  c1 = c1
  c2 = c2
  x1 = x1
  x2 = x2
  a1 = a1
  a2 = a2
  q1 = q1
  q2 = q2
  r1 = r1
  r2 = r2
  Callers <- MCCallers
  ChallengeIds <- MCChallenges
  ApprovalIds <- MCApprovals
  Proposals <- MCProposals
  Runs <- MCRuns
  ChallengeLifetime = 2
  ApprovalLifetime = 1
  Scenarios <- MCScenarios
SYMMETRY ApprovalSymmetry
CHECK_DEADLOCK FALSE
INVARIANTS
  ApprovalIsSound
  ToldIsDurable
  OneQuestion
PROPERTIES
  ImplementsOneUse
