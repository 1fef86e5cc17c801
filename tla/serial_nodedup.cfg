SPECIFICATION HSpec
SYMMETRY Symmetry
CONSTANTS
  b1 = b1
  b2 = b2
  k1 = k1
  c1 = c1
  c2 = c2
  p1 = p1
  None = None
  Sweeper = Sweeper
  Preloader = Preloader
  Buckets = {b1, b2}
  Keys = {k1}
  TempName <- PrivateTempName
  Contents = {c1, c2}
  Cacheable = {c1, c2}
  Clients = {p1}
  Ops = {"store", "get", "info", "delete", "create_bucket", "delete_bucket", "sweep", "preload"}
  TTLs = {1}
  EnableDeduplication = FALSE
  SharedCache = FALSE
  Overlap = FALSE
  Faults = {}
  MaxRequests = 4
  MaxTime = 2
INVARIANTS
  IntegrityAtRest
  NoOrphansAtRest
  CacheCoherentAtRest
  ReadersReapOnlyDead
PROPERTIES
  ImplementsObjectMap
