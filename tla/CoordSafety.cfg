SPECIFICATION Spec
CONSTANTS
  c1 = c1  c2 = c2  c3 = c3  c4 = c4
  p1 = p1  p2 = p2  p3 = p3  k1 = k1
  h1 = h1  h2 = h2
  l1 = l1  l2 = l2  l3 = l3  l4 = l4
  Clients <- MCFourClients
  Projects <- MCProjects
  Keys <- MCKeys
  Hashes <- MCHashes
  LockIds <- MCFourLockIds
  Job <- MCFourJob
  NoLock = NoLock
  NoId = NoId
  NoResult = NoResult
  EmptyHashes = EmptyHashes
  MaxConcurrentRuns = 2
  StaleThreshold = 1
  MaxAttempts = 1
  Faults = {"daemon_crash", "timeout", "kill"}
SYMMETRY Symmetry
INVARIANTS TypeOK OneLockPerProject SemaphoreBound NoStrandedWaiter HolderOwnsLock
PROPERTIES LockLossJustified ResultsOnlyFromHolders ImplementsLease
CHECK_DEADLOCK FALSE
