SPECIFICATION Spec
CONSTANTS
  c1 = c1
  c2 = c2
  Listener = Listener
  Conn <- MCConnOne
  Requests <- Forbidden
  Parts = 1
  Extra = 0
  AnsLen = 1
  FileLen = 1
  FileLens = {1}
  SndBuf = 2
  SizeMax = 7
  MallocFails = FALSE
  Pressure = FALSE
  MaxEvents = 2
  MaxSignals = 0
  AcceptFails = FALSE
  FreedReads = {"garbage"}
  Aborts = {"abort"}
  Quits = {"fin"}
INVARIANTS ForbiddenTold
CHECK_DEADLOCK FALSE
