SPECIFICATION Spec
CONSTANTS
  Threads = {t1}
  Sessions = {s1}
  Cmds = {c1}
  NoNewline = {}
  Hidden = {}
  Tagged = {}
  Daemon = {}
  Failures = {}
  Null = Null
CHECK_DEADLOCK FALSE
INVARIANT OpenReturns
