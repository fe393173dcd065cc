SPECIFICATION Spec
CONSTANTS
  k1 = k1
  k2 = k2
  t1 = t1
  t2 = t2
  t3 = t3
  Key = {k1, k2}
  Txn = {t1, t2}
SYMMETRY Sym
INVARIANTS
  AllOrNothing
