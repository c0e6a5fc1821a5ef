SPECIFICATION Spec
CONSTANTS
  p1 = p1
  p2 = p2
  Procs = {p1, p2}
  HeapStart = 16
  HeapSize = 192
  Requests = {0, 20}
SYMMETRY Symmetry
PROPERTIES SallocRestoresLevel
