\* An announcer, its gateway and a network that delays, reorders and loses.
SPECIFICATION FairSpec
CONSTANTS
  w1 = w1  c1 = c1
  World = w1
  Card = c1
  NoRecord = NoRecord
  Ttl = 1
  TickPeriod = 1
  MaxSkew = 2
  Offsets <- AnyOffset
  AnnouncePeriod = 3
  MaxDelay = 1
INVARIANTS TypeOK RelistedAtNextBeat
PROPERTIES PrunesOnlySilent StoppedIsDelisted
