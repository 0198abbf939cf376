SPECIFICATION Spec
CONSTANTS
  c1 = c1
  c2 = c2
  Listener = Listener
  Conn <- MCConnTwo
  Requests <- Found
  Parts = 1
  Extra = 0
  AnsLen = 1
  FileLen = 1
  FileLens = {1}
  SndBuf = 2
  SizeMax = 7
  MallocFails = TRUE
  Pressure = TRUE
  MaxEvents = 2
  MaxSignals = 1
  AcceptFails = TRUE
  FreedReads = {"garbage", "end"}
  Aborts = {"abort", "return"}
  Quits = {"rst"}
INVARIANTS TypeOK CountBalance NoDescriptorLeak
SYMMETRY Clients
CHECK_DEADLOCK FALSE
