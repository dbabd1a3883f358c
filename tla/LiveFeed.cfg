SPECIFICATION FairSpec
CONSTANTS
  Runs = {"r1"}
  Clients = {"page"}
  Dashboards = {}
  Workers = {"report"}
  StoreDepth = 1
  QueueDepth = 2
  MaxWrites = 2
  MaxNoise = 2
  MaxBreaks = 1
  MaxAnswers = 1
PROPERTIES
  CaughtUp
CHECK_DEADLOCK FALSE
