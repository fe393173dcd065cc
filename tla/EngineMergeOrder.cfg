SPECIFICATION Spec
CONSTANTS
  k1 = k1
  k2 = k2
  Key = {k1, k2}
  L0_LIMIT = 2
  L1_SIZE_LIMIT = 1
  FLUSH_THRESHOLD = 1
  MaxWrites = 2
  MaxBatch = 1
  MaxBranch = 0
SYMMETRY Sym
INVARIANTS
  MergeKeepsNewest
