SPECIFICATION Spec
SYMMETRY Symmetry
CONSTANTS
  b1 = b1
  k1 = k1
  k2 = k2
  c1 = c1
  c2 = c2
  p1 = p1
  None = None
  Sweeper = Sweeper
  Preloader = Preloader
  Buckets = {b1}
  Keys = {k1, k2}
  TempName <- PrivateTempName
  Contents = {c1, c2}
  Cacheable = {c1, c2}
  Clients = {p1}
  Ops = {"store", "get"}
  TTLs = {}
  EnableDeduplication = TRUE
  SharedCache = FALSE
  Overlap = FALSE
  Faults = {}
  MaxRequests = 4
  MaxTime = 0
INVARIANTS
  NoForeignBytes
