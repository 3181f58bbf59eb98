SPECIFICATION Spec
CONSTANTS
  Requests = {r1, r2}
  MaxFiles = 2
  Years = {1, 2, 3}
  AutoDeprecate = TRUE
  MaxFaults = 1
CHECK_DEADLOCK FALSE
SYMMETRY Symmetry
INVARIANTS
  InForceUntilSuperseded
  OneVersionPerRequest
  AnswerMatchesStores
