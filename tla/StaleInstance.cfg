SPECIFICATION Spec
CONSTANTS
  Threads = {t1}
  Objects = {o1, o2}
  Natives = {n1, n2}
  Observers = {}
  SelfRemoving = {}
  Calls = {"getInstance", "exec"}
  Failures = {"death"}
  Null = Null
CHECK_DEADLOCK FALSE
PROPERTY ReusesBoundSession
