SPECIFICATION MCSpec
CONSTANTS
  Nodes = {n1, n2, n3, n4}
  Null = Null
  Parts = {"strings"}
INVARIANT ControlsEscaped
CHECK_DEADLOCK FALSE
