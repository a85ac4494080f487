SPECIFICATION Spec
CONSTANTS
  Channels = {m1, m2}
  Slots = 2
  Retries = 1
  N = 3
  MaxAcks = 1
  MaxStops = 1
  Kind <- MCKind
INVARIANTS TypeOK
PROPERTIES AckedNotResent CommandsEnd
CHECK_DEADLOCK FALSE
