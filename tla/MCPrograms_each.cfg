SPECIFICATION MCSpec
CONSTANTS
  InitSize = 4
  MaxSize = 20
  MaxAppend = 5
  MaxData = 25
  SizeMax = 63
  Chosen = {"buffer", "logs", "logger", "client", "zip", "words", "ini", "pages", "crc"}
  u1 = u1
  u2 = u2
  u3 = u3
  r1 = r1
  r2 = r2
INVARIANTS
  Contained Modest
  LogsRight LoggerRight ClientRight
  ListsRight CountsRight IniRight PagesRight WholeFile
PROPERTIES FailureKeeps ProgramsEnd
CHECK_DEADLOCK FALSE
