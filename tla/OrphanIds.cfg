SPECIFICATION BareSpec
CONSTANTS
  Requests <- Posts
  restartCooldown = 1
  startCooldown = 2
  MaxStarts = 3
  MaxTime = 3
  maxBridgeAttempts = 3
  Modes <- Ways
  idleTimeout = 3
  defaultIdleTimeout = 2
  Statuses = {400, 401, 403, 404}
  BridgeErrors <- Failures
  MaxDeltas = 2
  Agents <- Budgets
  Final <- Replies
  MaxCalls = 2
  Mined <- TwoRuns
  Topics = {1, 2, 4}
  Sim <- Closeness
  Threshold = 2
  Batches <- Proposals
  Setups <- Embedders
  MaxLessonStarts = 2
  MaxEvents = 1
  Commands <- OneCommand
  CallerRun <- CommandRun
  Viewers <- OneViewer
  ViewOf <- ViewerRun
  Pids = {3, 4, 5}
  Outputs <- ShortAndLong
  MaxOutputs = {1, 2, 9, 16}
  procCacheTTL = 0
  MaxTicks = 1
  MaxAsks = 3
  SkillSources <- Layers
  SkillNames = {1, 2}
  SkillVersions = {1, 2}
  Recall <- Recalls
  SeedLimit = 1
  MaxBuilds = 2
  MaxEdits = 1
  MaxSkillStarts = 2
INVARIANTS
  EveryCallAnswered
CHECK_DEADLOCK FALSE
