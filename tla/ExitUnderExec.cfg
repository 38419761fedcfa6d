SPECIFICATION Spec
CONSTANTS
  Threads = {t1, t2}
  Sessions = {s1}
  Cmds = {c1}
  NoNewline = {}
  Hidden = {}
  Tagged = {}
  Daemon = {}
  Failures = {}
  Null = Null
CHECK_DEADLOCK FALSE
INVARIANT AbortedExecReturns
