SPECIFICATION Spec
CONSTANTS
  Threads = {t1, t2}
  Objects = {o1, o2}
  Natives = {n1, n2}
  Observers = {b1}
  SelfRemoving = {b1}
  Calls = {"getInstance", "ping", "exit", "observe"}
  Failures = {"open", "exit"}
  Null = Null
CHECK_DEADLOCK FALSE
SYMMETRY Symmetry
INVARIANTS
  TypeOK
  InstanceNotOver
