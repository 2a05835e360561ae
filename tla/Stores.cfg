SPECIFICATION StoresSpec
CONSTANTS
  c1 = c1
  c2 = c2
  k1 = k1
  k2 = k2
  w1 = w1
  w2 = w2
  w3 = w3
  NoFile = NoFile
  Callers <- MCCallers
  Candidates <- MCCandidates
  Transactions <- MCTransactions
  Modified <- MCModified
  Writers <- MCWriters
  MaxCalls = 4
  MaxRaises = 1
  MaxCrashes = 1
  MaxPowerLosses = 1
SYMMETRY StoresSymmetry
CHECK_DEADLOCK FALSE
INVARIANTS
  EvidenceIsSound
  AuditIsForever
PROPERTIES
  StoreImplementsRegister
  MaterialsImplementVault
