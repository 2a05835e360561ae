SPECIFICATION CodingSpec
CONSTANTS
  d1 = d1
  d2 = d2
  j1 = j1
  j2 = j2
  j3 = j3
  s1 = s1
  s2 = s2
  s3 = s3
  modified = modified
  added = added
  outside = outside
  q1 = q1
  q2 = q2
  q3 = q3
  NoId = NoId
  Dispatchers <- MCDispatchers
  Jobs <- MCJobs
  Sessions <- MCSessions
  Ids <- MCIds
  Queues <- MCQueues
  Paths <- MCPaths
  Committed <- MCCommitted
  Targets <- MCTargets
  Requests <- MCRequests
  MaxFaults = 3
  MaxWrites = 2
  MaxLate = 2
  MaxPowerLoss = 2
SYMMETRY CodingSymmetry
CHECK_DEADLOCK FALSE
INVARIANTS
  ExecutionIsOnRecord
  LeftMeansRecorded
  CandidateIsSound
  RequestIsOnRecord
