\* Joins overlap while their hooks are awaited.
SPECIFICATION Spec
CONSTANTS
  a1 = a1  a2 = a2  a3 = a3  r1 = r1  r2 = r2  k1 = k1  k2 = k2
  NoCall = NoCall
  Agents <- TwoAgents
  Requests <- TwoRequests
  Scans <- OneScan
  MaxAgents = 1
  MaxPeers = 1
  IdleLimit = 1
  ScanPeriod = 1
  StaleTtl = 0
  HooksYield = TRUE
  HooksFail = TRUE
  WritesFail = FALSE
  MaxLedger = 1
  MaxRestarts = 0
INVARIANT Capacity
SYMMETRY SymmetryAR
