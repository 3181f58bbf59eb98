SPECIFICATION Spec
CONSTANTS
  Requests = {r1, r2}
  MaxFiles = 2
  Years = {1, 2}
  AutoDeprecate = TRUE
  MaxFaults = 0
CHECK_DEADLOCK FALSE
SYMMETRY Symmetry
INVARIANTS
  DeprecatedIsNotRetrieved
