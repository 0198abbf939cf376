SPECIFICATION FairSpec
CONSTANTS
  c1 = c1
  c2 = c2
  Listener = Listener
  Conn <- MCConnTwo
  Requests <- Found
  Parts = 1
  Extra = 0
  AnsLen = 1
  FileLen = 2
  FileLens = {2}
  SndBuf = 2
  SizeMax = 7
  MallocFails = FALSE
  Pressure = FALSE
  MaxEvents = 2
  MaxSignals = 1
  AcceptFails = FALSE
  FreedReads = {"garbage"}
  Aborts = {"abort"}
  Quits = {"fin"}
PROPERTIES Answered
INVARIANTS NoStaleEvent NoLostClient CountTrusted
CHECK_DEADLOCK FALSE
