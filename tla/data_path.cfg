SPECIFICATION Spec
SYMMETRY Symmetry
CONSTANTS
  o1 = o1
  o2 = o2
  u1 = u1
  u2 = u2
  r1 = r1
  id1 = id1
  None = None
  Objects = {o1, o2}
  Contents = {"text", "noise"}
  Size <- ContentSize
  ZipSize <- ContentZipSize
  MinSize = 1
  CacheLimit = 30
  Uploaders = {u1, u2}
  Readers = {r1}
  KeyIds = {id1}
  GlobalKeys = {"K"}
  Configs <- Environments
  Options <- AllOptions
  Headers <- AllHeaders
  MaxUploads = 2
  MaxReads = 1
  MaxRestarts = 1
INVARIANTS
  TypeOK
  Decodable
  UploadReadable
  RangeExact
