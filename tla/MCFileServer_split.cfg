SPECIFICATION Spec
CONSTANTS
  c1 = c1
  c2 = c2
  Listener = Listener
  Conn <- MCConnOne
  Requests <- Found
  Parts = 2
  Extra = 0
  AnsLen = 1
  FileLen = 1
  FileLens = {1}
  SndBuf = 2
  SizeMax = 7
  MallocFails = FALSE
  Pressure = FALSE
  MaxEvents = 2
  MaxSignals = 0
  AcceptFails = FALSE
  FreedReads = {"garbage"}
  Aborts = {"abort"}
  Quits = {"fin"}
INVARIANTS RequestCaught
CHECK_DEADLOCK FALSE
