SPECIFICATION CandidateSpec
CONSTANTS
  p = p
  q = q
  acceptance = acceptance
  v1 = v1
  v2 = v2
  a1 = a1
  a2 = a2
  Seed = Seed
  Absent = Absent
  Paths <- MCPaths
  Reserved = acceptance
  Contents <- MCContents
  Actions <- MCActions
  MaxIterations = 6
  MaxTampers = 2
SYMMETRY CandidateSymmetry
CHECK_DEADLOCK FALSE
INVARIANTS
  DoneMeansTested
  RefusedMeansKnown
  CandidateIsWhatPassed
