\* One guest leaves, another is still there.
SPECIFICATION Spec
CONSTANTS
  s1 = s1  s2 = s2  m1 = m1
  NoCall = NoCall
  Sockets <- TwoSockets
  Slots <- OneSlot
  Endpoints = 1
  IdleLimit = 1
INVARIANT GuestsIndependent
