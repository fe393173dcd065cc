SPECIFICATION Spec
CONSTANTS
  Kinds = {"agent_store"}
  w = w
  n1 = n1
  n2 = n2
  n3 = n3
  c1 = c1
  c2 = c2
SYMMETRY Sym
CHECK_DEADLOCK FALSE
INVARIANTS
  TypeQueryComplete
