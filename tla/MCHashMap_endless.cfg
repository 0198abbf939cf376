SPECIFICATION Spec
CONSTANTS
  k1 = k1
  k2 = k2
  k3 = k3
  Keys <- MCKeys
  Vals = {1}
  Absent = Absent
  Null = Null
  Removed = Removed
  HashValues = {15, 511, 1007}
  InitSize = 32
  LoadNum = 9
  LoadDen = 20
  ResizeFactor = 2
  MaxSize = 64
  AllocFails = {}
INVARIANTS SearchReturns
CHECK_DEADLOCK FALSE
