\* Two guests of one world, endpoints that time out, restarts.
SPECIFICATION FairSpec
CONSTANTS
  s1 = s1  s2 = s2  m1 = m1
  NoCall = NoCall
  Sockets <- TwoSockets
  Slots <- OneSlot
  Endpoints = 2
  IdleLimit = 1
INVARIANTS TypeOK JoinHonoured
PROPERTIES ClosedForgotten GhostsEnd
