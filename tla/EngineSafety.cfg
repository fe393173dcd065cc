SPECIFICATION Spec
CONSTANTS
  k1 = k1
  k2 = k2
  Key = {k1, k2}
  L0_LIMIT = 3
  L1_SIZE_LIMIT = 1
  FLUSH_THRESHOLD = 2
  MaxWrites = 3
  MaxBatch = 2
  MaxBranch = 1
SYMMETRY Sym
CONSTRAINT NoHole
INVARIANTS
  TypeOK
  PagesInOrder
  
  NothingLost
  SettledReads
PROPERTIES
  CompactionKeepsAnswers
