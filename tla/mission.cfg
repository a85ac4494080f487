SPECIFICATION Spec
CONSTANTS
  Instances = {i1, i2}
  StatTypes <- MCStatTypes
  Items = {a, b}
  MaxItems = 2
  MaxCommands = 2
  MaxFaults = 2
INVARIANTS TypeOK SavedIntact MissionIntact Agree FlagHeld
PROPERTIES AcceptedIsSaved DownloadFaithful
CHECK_DEADLOCK FALSE
SYMMETRY Symmetry
