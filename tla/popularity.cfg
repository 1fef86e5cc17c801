SPECIFICATION FairSpec
CONSTANTS
  o1 = o1
  o2 = o2
  t1 = t1
  None = None
  Objects = {o1, o2}
  Clients = {t1}
  Sizes = {1, 2}
  MaxContentSize = 1
  MaxPreloadSize = 2
  MinAccess = 1
  Budget = 1
  BatchLimit = 2
  MaxReads = 2
  MaxUploads = 3
  MaxFaults = 1
  MaxRestarts = 1
INVARIANTS
  TypeOK
  CountsAreReads
  BatchWithinBudget
PROPERTIES
  MarksArePopular
  PopularGetsMarked
