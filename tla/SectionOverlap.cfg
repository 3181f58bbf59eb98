SPECIFICATION Spec
CONSTANTS
  Sections = {s1, s2}
  Chains = {c1, c2}
  MaxTaskRetries = 0
  MaxFaults = 1
  MaxDecisions = 2
  MaxOverlapped = 1
  ExtractStatus = {"OK"}
  NoFile = NoFile
  Torn = Torn
CHECK_DEADLOCK FALSE
SYMMETRY Symmetry
INVARIANTS
  NoWorkBeforeConfirmation
  ProductsFormPrefix
  ResumePointBacked
