SPECIFICATION Spec
CONSTANTS
  i1 = i1
  i2 = i2
  i3 = i3
  b1 = b1
  b2 = b2
  b3 = b3
  b4 = b4
  b5 = b5
  Items = {i1, i2, i3}
  Blocks = {b1, b2, b3, b4, b5}
  Null = Null
SYMMETRY Symmetry
VIEW LiveState
INVARIANTS QueueInv Rings NoLeak
PROPERTIES ImplementsSequences
