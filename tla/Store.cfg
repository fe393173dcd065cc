SPECIFICATION StoreSpec
CONSTANTS
  k1 = k1
  k2 = k2
  Key = {k1, k2}
  L0_LIMIT = 2
  L1_SIZE_LIMIT = 1
  FLUSH_THRESHOLD = 2
  MaxWrites = 2
  MaxBatch = 1
  MaxBranch = 1
  CACHE_CAPACITY = 1
  Name = {}
  MaxAuto = 1
SYMMETRY Sym
CONSTRAINT NoHole
INVARIANTS
  StoreTypeOK
  CachedReads
  ScannedReads
  StateAgrees
  BackupComplete
