SPECIFICATION Spec
CONSTANTS
  t1 = t1  t2 = t2  p1 = p1  p2 = p2
  Tasks = {t1}
  Providers = {p1}
  NoProvider = NoProvider
  MaxConcurrent = 1
  ProviderLimit <- MCOneLimit
  MaxRetries = 1
  MaxFailovers = 1
  MaxStalls = 1
  MaxAttempts = 2
  RetryBound = 1
  Overlap = FALSE
PROPERTY CancelledStays
CHECK_DEADLOCK FALSE
