SPECIFICATION Spec
CONSTANTS
  i1 = i1
  i2 = i2
  c1 = c1
  c2 = c2
  None = None
  Old = Old
  Instance <- MCTwo
  Daemonized <- MCOne
  Client <- NoOne
  Commands = {"line", "other"}
  Sizes = {3}
  MaxChanges = 0
  MaxSignals = 0
  MaxFailures = 0
  Faults = {}
INVARIANTS OnlyOne
CHECK_DEADLOCK FALSE
