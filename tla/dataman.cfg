SPECIFICATION Spec
CONSTANTS
  Clients = {c1, c2}
  Updated = {c1}
  Items = {i}
  Indices = {0}
  MaxId = 3
  MaxCalls = 2
  MaxFaults = 1
INVARIANTS UniqueIds
PROPERTIES ReadFresh WriteDone AsyncEnds
CHECK_DEADLOCK FALSE
