SPECIFICATION TerminalSpec
CONSTANTS
  Threads = {t1, t2}
  Handler = Handler
  MaxOpens = 2
  FopenFails = TRUE
  POINTER_SIZE = 3
  MaxLine = 3
  Blocks = {b1, b2}
  OutOfMemory = TRUE
  Null = Null
SYMMETRY Symmetry
CHECK_DEADLOCK FALSE
INVARIANTS
  TerminalTypes
  QuietReads
  EchoReachesLog
  LogFaults
  InBounds
  LineSeen
  OneCopyKept
