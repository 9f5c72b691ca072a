\* Announces, removals, failing writes, stops and crashes.
SPECIFICATION FairSpec
CONSTANTS
  a1 = a1  a2 = a2  w1 = w1  c1 = c1  c2 = c2
  NoRecord = NoRecord
  Agents <- TwoAgents
  Worlds <- OneWorld
  Contents <- TwoContents
  MaxAgents = 1
  Ttl = 1
  TickPeriod = 1
  Stamps <- Skewed
INVARIANTS TypeOK AgentCap NothingForgotten WorldsNotRevived
PROPERTIES Fresh ChangesReachDisk
