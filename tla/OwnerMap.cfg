SPECIFICATION Spec
CONSTANTS
  j1 = j1
  j2 = j2
  alice = alice
  bob = bob
  k1 = k1
  k2 = k2
  k3 = k3
  saver = saver
  shutdown = shutdown
  Keys = {k1, k2, k3}
  Jobs = {j1}
  Accounts = {alice, bob}
  Capacity = 2
  NoOne = NoOne
  SenderOf <- FromAlice
  Flushers = {}
  TTL = 2
  MountedFile = FALSE
  MaxClock = 3
  MaxSeq = 6
  MaxFaults = 0
  MaxRestarts = 0
INVARIANTS
  Bounded
  OrderSound
PROPERTY
  EvictsOldest
SYMMETRY Interchangeable
CHECK_DEADLOCK FALSE
