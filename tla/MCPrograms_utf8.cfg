SPECIFICATION MCSpec
CONSTANTS
  InitSize = 4
  MaxSize = 20
  MaxAppend = 5
  MaxData = 25
  SizeMax = 63
  Chosen = {"pages"}
  u1 = u1
  u2 = u2
  u3 = u3
  r1 = r1
  r2 = r2
INVARIANT AlwaysUtf8
CHECK_DEADLOCK FALSE
