CONSTANTS
  None = None
  Specs = {"files", "runs"}
  Stored <- StoredLayouts
  MaxEdits = 1
  MaxPanes = 5
  MaxFetches = 1
  MaxMounts = 2
  MaxLoads = 1
  Unit = 8000
SPECIFICATION Spec
PROPERTIES
  LastChangeKept
CHECK_DEADLOCK FALSE
