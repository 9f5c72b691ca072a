\* Idle members and the seats of failed joins are given up.
SPECIFICATION FairSpec
CONSTANTS
  a1 = a1  a2 = a2  a3 = a3  r1 = r1  r2 = r2  k1 = k1  k2 = k2
  NoCall = NoCall
  Agents <- TwoAgents
  Requests <- OneRequest
  Scans <- OneScan
  MaxAgents = 2
  MaxPeers = 2
  IdleLimit = 1
  ScanPeriod = 2
  StaleTtl = 0
  HooksYield = TRUE
  HooksFail = TRUE
  WritesFail = FALSE
  MaxLedger = 1
  MaxRestarts = 0
PROPERTIES SeatsReclaimed EvictsOnlyIdle
