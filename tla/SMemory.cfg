SPECIFICATION Spec
CONSTANTS
  p1 = p1
  p2 = p2
  p3 = p3
  Procs = {p1, p2, p3}
  HeapStart = 16
  HeapSize = 240
  Requests = {0, 20, 40}
SYMMETRY Symmetry
INVARIANTS HeapInv Tiling NoLoss MarkedIffHeld
PROPERTIES ImplementsHeap
