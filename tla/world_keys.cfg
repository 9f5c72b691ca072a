CONSTANTS
  a = a
  b = b
  a1 = a1
  a2 = a2
  b1 = b1
  b2 = b2
  Ids = {a, b}
  Keys = {a1, a2, b1, b2}
  NoKey = NoKey
  Original <- FirstKeys
  Later <- SecondKeys
  MaxPeers = 2
SPECIFICATION Spec
PROPERTY KeepsBindings
