SPECIFICATION Spec
CONSTANTS
  c1 = c1
  c2 = c2
  Listener = Listener
  Conn <- MCConnOne
  Requests <- EveryRequest
  Parts = 2
  Extra = 1
  AnsLen = 1
  FileLen = 2
  FileLens = {1, 2}
  SndBuf = 2
  SizeMax = 7
  MallocFails = FALSE
  Pressure = FALSE
  MaxEvents = 2
  MaxSignals = 2
  AcceptFails = FALSE
  FreedReads = {"garbage", "end"}
  Aborts = {"abort", "return"}
  Quits = {"fin", "rst"}
INVARIANTS NoLostEdge EndMeansAnswered
PROPERTIES ServesHttp
CHECK_DEADLOCK FALSE
