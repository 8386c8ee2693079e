SPECIFICATION FairSpec
CONSTANTS
  generation = generation
  boards = boards
  accessibility = accessibility
  Stores = {generation, boards, accessibility}
  Quiet = {boards}
  LateStores = {accessibility}
  Resaving = {accessibility}
  None = None
  Aborts = TRUE
  MaxChanges = 4
  MaxLaunches = 2
  MaxFaults = 1
INVARIANTS
  PushInFlight
  CleanCloseKeeps
PROPERTY
  Converges
CHECK_DEADLOCK FALSE
