SPECIFICATION Spec
CONSTANTS
  Threads = {t1, t2}
  Sessions = {s1, s2}
  Cmds = {c1}
  NoNewline = {}
  Hidden = {}
  Tagged = {c1}
  Daemon = {c1}
  Failures = {"setup","listen","connect","fork","execve","thread","join","death","nokill","spurious"}
  Null = Null
CHECK_DEADLOCK FALSE
SYMMETRY Symmetry
INVARIANTS
  TypeOK
  BoundSessionIsLive
  FreedSessionIsFinished
  HandlerOwnsSession
  PathHasOwner
  FaultHasCause
PROPERTIES
  NeverRebound
  LifecycleSpec
