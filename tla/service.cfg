SPECIFICATION FairSpec
CONSTANTS
  t1 = t1
  t2 = t2
  Clients = {t1, t2}
  MaxConcurrent = 1
  PoolSize = 1
  MaxAttempts = 2
  Latest = 2
  MaxOutages = 2
  MaxRestarts = 1
INVARIANTS
  TypeOK
  NothingLeaks
PROPERTIES
  SchemaErrorsEnd
  PermitsReturn
  MigrationsSettle
