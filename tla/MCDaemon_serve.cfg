SPECIFICATION FairSpec
CONSTANTS
  i1 = i1
  i2 = i2
  c1 = c1
  c2 = c2
  None = None
  Old = Old
  Instance <- MCOne
  Daemonized <- MCOne
  Client <- MCClients
  Commands = {"line", "other"}
  Sizes = {0, 3}
  MaxChanges = 1
  MaxSignals = 1
  MaxFailures = 1
  Faults = {"lock", "fork", "config", "accept", "open", "send"}
INVARIANT TellsSize
PROPERTIES Disconnects Stops
CHECK_DEADLOCK FALSE
