SPECIFICATION Spec
CONSTANTS
  Topics = {1, 2}
  MaxInstances = 2
  p1 = p1
  m1 = m1
  m2 = m2
  s1 = s1
  s2 = s2
  Topic <- MCTopic
  Single = {p1}
  Multi = {m1, m2}
  Subscribers = {s1, s2}
  Wanted <- MCWanted
  Starts = {0}
  MaxHandles = 1
  MaxFailures = 1
  Nobody = Nobody
INVARIANTS OneNode ListComplete OwnInstance SlotsOwned LockHeld
CHECK_DEADLOCK FALSE
SYMMETRY MCSymmetry
