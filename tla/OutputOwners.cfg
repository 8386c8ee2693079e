SPECIFICATION Spec
CONSTANTS
  j1 = j1
  j2 = j2
  alice = alice
  bob = bob
  k1 = k1
  k2 = k2
  k3 = k3
  saver = saver
  shutdown = shutdown
  Keys = {k1, k2}
  Jobs = {j1, j2}
  Accounts = {alice, bob}
  Capacity = 2
  NoOne = NoOne
  SenderOf <- OneEach
  Flushers = {saver, shutdown}
  TTL = 2
  MountedFile = FALSE
  MaxClock = 2
  MaxSeq = 3
  MaxFaults = 1
  MaxRestarts = 1
INVARIANTS
  LifetimeKept
  SavedWhenClean
  ReadIsolation
SYMMETRY Interchangeable
CHECK_DEADLOCK FALSE
