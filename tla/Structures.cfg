SPECIFICATION Spec
CONSTANTS
  n1 = n1
  n2 = n2
  n3 = n3
  r1 = r1
  r2 = r2
SYMMETRY Sym
CHECK_DEADLOCK FALSE
INVARIANTS
  HamtWellFormed
  TraversalsExact
  IndexFilesExact
  Layered
  SearchExact
  
  
  TokensExact
  FuzzyExact
  
PROPERTIES
  HamtIsMap
  CacheIsLru
