CONSTANTS
  a = a
  b = b
  a1 = a1
  a2 = a2
  b1 = b1
  Ids = {a, b}
  ByHand = {a}
  Reachable = {a}
  Keys = {a1, a2, b1}
  NoKey = NoKey
  NoRecord = NoRecord
  Torn = Torn
  TofuTtl = 0
  Original <- FirstKeys
  Later <- SecondKeys
SPECIFICATION FairSpec
INVARIANTS TypeOK KeysStored NothingLost
PROPERTIES KeepsBindings StopEnds
