CONSTANTS
  Computers = {c1, c2}
  Requests = {r1, r2}
  Caps = {0, 1}
  MaxFaults = 1
  None = None
SPECIFICATION Spec
SYMMETRY Symmetric
INVARIANTS
  UnderCap
  
  
CHECK_DEADLOCK FALSE
