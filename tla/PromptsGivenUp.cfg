SPECIFICATION Spec
CONSTANTS
  p1 = p1
  p2 = p2
  t1 = t1
  t2 = t2
  Prompts = {p1, p2}
  OutputsOf <- OnePlain
  Ticks = {t1}
  Waiting = {p2}
  None = None
  MaxEvents = 2
  MaxDrops = 1
  MaxFaults = 0
INVARIANTS
  GivenUpWhenGone
CHECK_DEADLOCK FALSE
