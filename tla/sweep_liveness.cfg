SPECIFICATION FairSpec
CONSTANTS
  b1 = b1
  k1 = k1
  k2 = k2
  c1 = c1
  p1 = p1
  None = None
  Sweeper = Sweeper
  Preloader = Preloader
  Buckets = {b1}
  Keys = {k1, k2}
  TempName <- PrivateTempName
  Contents = {c1}
  Cacheable = {c1}
  Clients = {p1}
  Ops = {"store", "delete", "sweep"}
  TTLs = {1}
  EnableDeduplication = TRUE
  SharedCache = FALSE
  Overlap = TRUE
  Faults = {}
  MaxRequests = 3
  MaxTime = 2
PROPERTIES
  SweepReaps
