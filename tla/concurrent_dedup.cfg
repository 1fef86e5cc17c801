SPECIFICATION Spec
SYMMETRY Symmetry
CONSTANTS
  b1 = b1
  b2 = b2
  k1 = k1
  c1 = c1
  p1 = p1
  p2 = p2
  None = None
  Sweeper = Sweeper
  Preloader = Preloader
  Buckets = {b1, b2}
  Keys = {k1}
  TempName <- PrivateTempName
  Contents = {c1}
  Cacheable = {c1}
  Clients = {p1, p2}
  Ops = {"store", "delete", "delete_bucket", "sweep"}
  TTLs = {1}
  EnableDeduplication = TRUE
  SharedCache = FALSE
  Overlap = TRUE
  Faults = {"io", "drop", "restart"}
  MaxRequests = 3
  MaxTime = 2
INVARIANTS
  UnlinkWindow
  SweepWindow
