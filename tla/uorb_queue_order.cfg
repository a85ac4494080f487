SPECIFICATION Spec
CONSTANTS
  Publishers = {p1}
  Blocking = {}
  WorkItems = {w1}
  Timed = {}
  Throttled = {}
  Transient = {}
  QueueSize = 3
  GenMod = 8
  MaxPublications = 4
  ListHead = ListHead
  Nil = Nil
PROPERTIES ImplementsTopic
CHECK_DEADLOCK FALSE
