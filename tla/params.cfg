SPECIFICATION Spec
CONSTANTS
  N = 2
  Values = {0, 1}
  Default = 0
  Clients = {c1, c2}
  Loader = c1
  Worker = worker
  Unset = Unset
  Nobody = Nobody
  MaxAttempts = 1
  MaxRetries = 1
  MaxOps = 2
  MaxFailures = 1
  MaxCrashes = 0
INVARIANTS TypeOK NoLostSave ExportFaithful
CHECK_DEADLOCK FALSE
