SPECIFICATION MCSpec
CONSTANTS
  Sessions = {root, kid}
  Threads = {t1, t2, t3}
  MaxInstances = 2
  Worlds = {"registry"}
INVARIANTS
  OneGoroutinePerSession
SYMMETRY ThreadSymmetry
CHECK_DEADLOCK FALSE
