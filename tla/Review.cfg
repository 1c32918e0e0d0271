CONSTANTS
  Runs = {a, b}
  Requests = {q1, q2}
  None = None
  MaxSnapshots = 1
  MaxFaults = 1
  MaxEpoch = 2
SPECIFICATION Spec
SYMMETRY Symmetric
PROPERTIES
  RevertedStays
CHECK_DEADLOCK FALSE
