SPECIFICATION FairSpec
CONSTANTS
  Publishers = {p1, p2}
  Blocking = {b1}
  WorkItems = {w1}
  Timed = {}
  Throttled = {}
  Transient = {w1}
  QueueSize = 1
  GenMod = 8
  MaxPublications = 2
  ListHead = ListHead
  Nil = Nil
INVARIANTS TypeOK NoLostWakeup
PROPERTIES ImplementsTopic SleeperServed
CHECK_DEADLOCK FALSE
