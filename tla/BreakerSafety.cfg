SPECIFICATION FairSpec
CONSTANTS
  i1 = i1  i2 = i2  t1 = t1  t2 = t2
  Items = {i1, i2}
  Templates = {t1, t2}
  NoTemplate = NoTemplate
  Failover = Failover
  Categories = {"rate_limit", "unknown"}
  Threshold = 3
  MaxCanaries = 1
INVARIANTS TypeOK ParkedMeansOpen RowRemembersTrip FailoverWhileOpen FailoverTakenBack ClosedDisarmsCanary
PROPERTY ParkedResumes
