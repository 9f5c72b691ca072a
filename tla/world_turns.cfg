\* Hooks settle in the turn that calls them (world/server.mjs); appends may throw.
SPECIFICATION Spec
CONSTANTS
  a1 = a1  a2 = a2  a3 = a3  r1 = r1  r2 = r2  k1 = k1  k2 = k2
  NoCall = NoCall
  Agents <- ThreeAgents
  Requests <- OneRequest
  Scans <- OneScan
  MaxAgents = 2
  MaxPeers = 3
  IdleLimit = 1
  ScanPeriod = 1
  StaleTtl = 2
  HooksYield = FALSE
  HooksFail = FALSE
  WritesFail = TRUE
  MaxLedger = 3
  MaxRestarts = 1
INVARIANTS TypeOK LedgerTellsAStory TablesAgree MembersKnown
SYMMETRY SymmetryAR
