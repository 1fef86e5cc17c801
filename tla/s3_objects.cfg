SPECIFICATION Spec
SYMMETRY Symmetry
CONSTANTS
  b1 = b1
  k1 = k1
  k2 = k2
  c1 = c1
  c2 = c2
  t1 = t1
  t2 = t2
  None = None
  Buckets = {b1}
  Keys = {k1, k2}
  Contents = {c1, c2}
  Clients = {t1, t2}
  MayFail = TRUE
  TTLs = {}
  MaxKeysParams = {0, 5}
  PageCap = 2
  MaxRequests = 3
  MaxTime = 1
INVARIANTS
  TypeOK
PROPERTIES
  GetCoherent
  CopyCurrent
  AbsenceIsReal
  ListingHonest
