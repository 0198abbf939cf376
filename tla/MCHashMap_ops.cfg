SPECIFICATION Spec
CONSTANTS
  k1 = k1
  k2 = k2
  k3 = k3
  Keys <- MCKeys
  Vals = {1, 2}
  Absent = Absent
  Null = Null
  Removed = Removed
  HashValues = {0, 1, 4, 10}
  InitSize = 4
  LoadNum = 9
  LoadDen = 20
  ResizeFactor = 2
  MaxSize = 8
  AllocFails = {"table"}
INVARIANTS CellsRight NeverFull
PROPERTIES ImplementsDictionary
SYMMETRY AnyKeys
CHECK_DEADLOCK FALSE
