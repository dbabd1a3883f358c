SPECIFICATION MCSpec
CONSTANTS
  Profiles = {"task", "chat", "chatFirst"}
  Replies = {"text", "empty", "limit", "refusal"}
  MaxCalls = 2
  MaxStep = 4
  MaxGen = 1
  MaxArrivals = 1
  MaxStops = 2
INVARIANTS
  AnsweredOnce
  ContextServes
  BudgetSurvivesRestarts
PROPERTIES
  ConclusionIsAnswer
  FinalizedStepsFrozen
  LogIsTranscript
CHECK_DEADLOCK FALSE
