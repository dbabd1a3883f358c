SPECIFICATION MCSpec
CONSTANTS
  Sessions = {root, kid}
  Threads = {t1, t2, t3}
  MaxInstances = 3
  Worlds = {"registry", "told", "cancelled"}
INVARIANTS
  SlotsMatchHolders
PROPERTIES
  ReachableStaysReachable
  EndsAcrossCrashes
CHECK_DEADLOCK FALSE
