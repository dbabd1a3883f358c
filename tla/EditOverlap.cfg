SPECIFICATION Spec
INVARIANTS
  BatchSplices
CHECK_DEADLOCK FALSE
