SPECIFICATION Spec
CONSTANTS
  Threads = {t1}
  Objects = {o1, o2}
  Natives = {n1, n2}
  Observers = {b1, b2}
  SelfRemoving = {b2}
  Calls = {"getInstance", "exec", "ping", "exit", "observe"}
  Failures = {"open", "death"}
  Null = Null
CHECK_DEADLOCK FALSE
INVARIANTS
  BoundHasInstance
  NotifiedOnce
