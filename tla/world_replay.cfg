\* Hooks that yield reorder the ledger.
SPECIFICATION Spec
CONSTANTS
  a1 = a1  a2 = a2  a3 = a3  r1 = r1  r2 = r2  k1 = k1  k2 = k2
  NoCall = NoCall
  Agents <- TwoAgents
  Requests <- TwoRequests
  Scans <- OneScan
  MaxAgents = 2
  MaxPeers = 2
  IdleLimit = 1
  ScanPeriod = 1
  StaleTtl = 1
  HooksYield = TRUE
  HooksFail = FALSE
  WritesFail = FALSE
  MaxLedger = 2
  MaxRestarts = 0
INVARIANT ReplayAgrees
