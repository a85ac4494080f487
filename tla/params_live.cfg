SPECIFICATION FairSpec
CONSTANTS
  N = 1
  Values = {0, 1}
  Default = 0
  Clients = {c1, c2}
  Loader = c1
  Worker = worker
  Unset = Unset
  Nobody = Nobody
  MaxAttempts = 2
  MaxRetries = 1
  MaxOps = 2
  MaxFailures = 1
  MaxCrashes = 1
PROPERTIES ChangesAreSaved
CHECK_DEADLOCK FALSE
