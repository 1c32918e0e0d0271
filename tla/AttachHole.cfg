CONSTANTS
  MaxBytes = 3
  MaxTyped = 1
  MaxQueued = 1
  MaxDrops = 2
SPECIFICATION Spec
INVARIANTS
  MissedOutputReplays
CHECK_DEADLOCK FALSE
