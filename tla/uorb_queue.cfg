SPECIFICATION Spec
CONSTANTS
  Publishers = {p1}
  Blocking = {b1}
  WorkItems = {w1}
  Timed = {b1}
  Throttled = {w1}
  Transient = {w1}
  QueueSize = 3
  GenMod = 8
  MaxPublications = 5
  ListHead = ListHead
  Nil = Nil
INVARIANTS RingHoldsLatest
PROPERTIES UpdateDeliversFresh
CHECK_DEADLOCK FALSE
