SPECIFICATION Spec
CONSTANTS
  Threads = {t1, t2}
  Assets = {1, 2}
  Failures = {"mkdir", "write"}
  None = None
INVARIANTS
  TypeOK
  ImportedWhole
PROPERTIES
  InitComplete
