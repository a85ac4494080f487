SPECIFICATION Spec
CONSTANTS
  t1 = t1
  t2 = t2
  Params <- MCParams
  Values = {v1, v2}
  Threads = {t1, t2}
  Stores <- MCStores
  Addresses = {a1, a2, a3, a4}
  Prealloc = 1
  Grow = 1
  MaxRetries = 2
  MaxOps = 7
  Unset = Unset
  None = None
INVARIANTS NoLeak
PROPERTIES ArrayFits ImplementsMap
SYMMETRY Symmetry
CHECK_DEADLOCK FALSE
