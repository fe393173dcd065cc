SPECIFICATION Spec
CONSTANTS
  k1 = k1
  k2 = k2
  c1 = c1
  c2 = c2
  Key = {k1}
  Thread = {c1, c2}
  MaxTx = 2
  MaxOps = 2
SYMMETRY Sym
CHECK_DEADLOCK FALSE
INVARIANTS
  TypeOK
  NoDeadlock
  
PROPERTIES
  StaleOnlyRaced
  SnapshotCurrent
