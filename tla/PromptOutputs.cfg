SPECIFICATION FairSpec
CONSTANTS
  p1 = p1
  p2 = p2
  t1 = t1
  t2 = t2
  Prompts = {p1}
  OutputsOf <- Refined
  Ticks = {t1}
  Waiting = {}
  None = None
  MaxEvents = 6
  MaxDrops = 1
  MaxFaults = 1
INVARIANTS
  OncePerTracking
  AllOutputsShown

PROPERTIES
  FramesAreLive
  EveryPromptEnds

CHECK_DEADLOCK FALSE
