SPECIFICATION Spec
CONSTANTS
  old1 = old1
  gen1 = gen1
  gen2 = gen2
  vid1 = vid1
  Stored = {}
  Generated = {gen1}
  Videos = {vid1}
  Batches <- Together
  Earlier <- FirstSaved
  Tagged = {vid1}
  None = None
  MaxScans = 2
  MaxDeletes = 1
  MaxMoves = 1
  MaxFaults = 1
INVARIANTS
  DeletedIsGone
  NeverStuck
PROPERTIES
  NothingLost
  StaysDeleted
  ShownOnce
  BoardsKept
CHECK_DEADLOCK FALSE
