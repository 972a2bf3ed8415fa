SPECIFICATION Spec
CONSTANTS
  Threads = {t1, t2, t3}
  N = 3
  Free = Free
INVARIANTS
  OwnHandle
  NeverFails
PROPERTY SameHandle
