SPECIFICATION FairSpec
CONSTANTS
  t1 = t1  t2 = t2  p1 = p1  p2 = p2
  Tasks = {t1}
  Providers = {p1}
  NoProvider = NoProvider
  MaxConcurrent = 1
  ProviderLimit <- MCOneLimit
  MaxRetries = 3
  MaxFailovers = 1
  MaxStalls = 1
  MaxAttempts = 2
  RetryBound = 4
  Overlap = TRUE
INVARIANT ParkedHasTimer
PROPERTIES SettledStays RunningEnds ParkedLeaves
CHECK_DEADLOCK FALSE
