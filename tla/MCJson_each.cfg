SPECIFICATION MCSpec
CONSTANTS
  Nodes = {n1, n2, n3, n4}
  Null = Null
  Parts = {"tree", "strings", "decoder", "report"}
INVARIANTS ChecksOut TextsRight ReportRight
PROPERTIES ImplementsForest
CHECK_DEADLOCK FALSE
