SPECIFICATION Spec
CONSTANTS
  c1 = c1  c2 = c2  c3 = c3  c4 = c4
  p1 = p1  p2 = p2  p3 = p3  k1 = k1
  h1 = h1  h2 = h2
  l1 = l1  l2 = l2  l3 = l3  l4 = l4
  Clients <- MCClients
  Projects <- MCProjects
  Keys <- MCKeys
  Hashes <- MCHashes
  LockIds <- MCLockIds
  Job <- MCJob
  NoLock = NoLock
  NoId = NoId
  NoResult = NoResult
  EmptyHashes = EmptyHashes
  MaxConcurrentRuns = 2
  StaleThreshold = 1
  MaxAttempts = 2
  Faults = {}
INVARIANT OneRunPerProject
CHECK_DEADLOCK FALSE
