SPECIFICATION Spec
SYMMETRY Symmetry
CONSTANTS
  b1 = b1
  k1 = k1
  k2 = k2
  c1 = c1
  c2 = c2
  p1 = p1
  p2 = p2
  None = None
  Sweeper = Sweeper
  Preloader = Preloader
  Buckets = {b1}
  Keys = {k1, k2}
  TempName <- PrivateTempName
  Contents = {c1, c2}
  Cacheable = {c1, c2}
  Clients = {p1, p2}
  Ops = {"store", "get", "info", "delete", "preload"}
  TTLs = {}
  EnableDeduplication = FALSE
  SharedCache = TRUE
  Overlap = TRUE
  Faults = {"db", "io", "cache", "drop", "restart"}
  MaxRequests = 3
  MaxTime = 0
INVARIANTS
  TypeOK
  NoForeignBytes
