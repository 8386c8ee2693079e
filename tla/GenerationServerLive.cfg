SPECIFICATION FairSpec
CONSTANTS
  a = a
  b = b
  c = c
  alice = alice
  bob = bob
  root = root
  w1 = w1
  w2 = w2
  Prompts = {a, b, c}
  Previews = {c}
  Users = {alice, bob}
  Admin = root
  UserOf <- AllAlice
  Workers = {w1}
  MaxPosts = 1
  DeferredCap = 2
  None = None
  Drain = Drain
  MaxFaults = 1
PROPERTIES
  DrainComesBack
  AcceptedLeavesQueue
  ReservationEnds
  HeldHeadIsDrained
CHECK_DEADLOCK FALSE
