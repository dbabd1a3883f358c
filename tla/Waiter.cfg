SPECIFICATION FairSpec
CONSTANTS
  Callers = {p1, p2}
  MaxNotify = 2
INVARIANTS
  AsleepMeansNoNews
  TruthfulReturn
PROPERTIES
  IsLevelWait
  NotifyUnblocks
