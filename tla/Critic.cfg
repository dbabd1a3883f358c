SPECIFICATION Spec
CONSTANTS
  Main = agent
  Others = {sub}
  Grades = {4}
  MinSteps = 2
  Lessons = {l1}
  Judgements = {"none", "harmful"}
  MaxStep = 2
  MaxCrashes = 1
INVARIANTS
  ReportsAndScoresOnce
PROPERTIES
  ConclusionCovered
CHECK_DEADLOCK FALSE
