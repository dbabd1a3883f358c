SPECIFICATION MCSpec
CONSTANTS
  Root = root
  Kids = {kid}
  Interactive = {root}
  Awaiters = {root}
  Cancellable = {root, kid}
  Messaged = {root}
  Failing = {root}
INVARIANTS
  NoStranding
  ToldOnce
PROPERTIES
  StatusMatrix
  AwaitWakes
  CancelStops
