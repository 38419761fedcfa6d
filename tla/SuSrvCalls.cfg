SPECIFICATION FairSpec
CONSTANTS
  Threads = {t1, t2}
  Sessions = {s1}
  Cmds = {c1, c2}
  NoNewline = {c2}
  Hidden = {c2}
  Tagged = {c1}
  Daemon = {c2}
  Failures = {"death","nokill","spurious"}
  Null = Null
CHECK_DEADLOCK FALSE
INVARIANTS
  LockedByUser
  LockReleased
  WirePaired
  SoloResult
PROPERTIES
  WaiterAnswered
  HandlerTerminates
  DeathUnbinds
  ExitReturns
