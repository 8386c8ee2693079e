SPECIFICATION Spec
CONSTANTS
  a = a
  b = b
  c = c
  alice = alice
  bob = bob
  root = root
  w1 = w1
  w2 = w2
  Prompts = {a, b, c}
  Previews = {c}
  Users = {alice, bob}
  Admin = root
  UserOf <- TwoAndOne
  Workers = {w1, w2}
  MaxPosts = 2
  DeferredCap = 2
  None = None
  Drain = Drain
  MaxFaults = 1
INVARIANTS
  OwnershipIsolation
  NoOrphanWaiter
  PostedAtMostOnce
  OneHolder
  AcceptedEnds
  ReservationIsWatched
SYMMETRY WorkerSymmetry
PROPERTIES
  SignalKept
CHECK_DEADLOCK FALSE
