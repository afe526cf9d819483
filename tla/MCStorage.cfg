SPECIFICATION StorageSpec
SYMMETRY Symmetry
CONSTANTS
  Keys = {k1}
  Contents = {whole, mixed}
  Size <- MCSize
  Whole = whole
  Mixed = mixed
  NumParts = 2
  Ids = {m1}
  Threads = {t1, t2}
  S3Keys = {1, 2}
  S3Ids = {m1}
  S3Parts = 1
  PageSize = 1
  MaxFaults = 1
  MaxCalls = 5
  None = None
CHECK_DEADLOCK FALSE
INVARIANTS OneWriter StorageIsSound
PROPERTIES ImplementsObjectStore PartsOutliveCommit S3ImplementsObjectStore
