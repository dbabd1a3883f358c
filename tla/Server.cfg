SPECIFICATION MCSpec
CONSTANTS
  Runs <- ThreeRuns
  Roots <- TwoRoots
  Editable <- Edits
  Queries <- Filters
  defaultRunsPage = 1
  maxRunsPage = 2
  Notifiers <- Scripts
  maxEnvNoticesPerStep = 3
  MaxBoardTime = 2
  MaxWrites = 4
  Watched <- TwoIds
  Kinds <- AllKinds
  MaxChanges = 3
  MaxPolls = 3
  Procs = {s1, s2, h}
  Headless = {h}
  Port <- OnePort
  Cert <- Untrusted
  LendFails = {s1}
  Given <- FileOrFlag
  DiskFails = {s1}
  Clients = {n, c}
  Notifies = {n}
  MaxCrashes = 1
  Nobody = nobody
  Foreign = foreign
INVARIANTS
  PagesCover
  BadgeUntilSeen
  NoticesBounded
  LinesTellTheExit
  OwnershipIsHonest
CHECK_DEADLOCK FALSE
