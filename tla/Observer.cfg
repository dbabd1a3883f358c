SPECIFICATION MCSpec
CONSTANTS
  Main = agent
  Others = {}
  Workers = {w1, w2}
  MaxStep = 2
  Threshold = 2
  HardCap = 2
  MaxEnds = 1
  StoreMayFail = TRUE
  Interactive = {}
INVARIANTS
  CursorsMatchRows
  PhasesTile
PROPERTIES
  CaughtUp
  StopIsOrderly
