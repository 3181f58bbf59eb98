SPECIFICATION Spec
CONSTANTS
  Workers = {w1, w2}
  ProjectTotal = 2
  DefaultTotal = 2
  Sizes = {1, 2, 3, 4}
  MaxFaults = 1
  MaxDrafts = 2
  Fields = {"duration"}
  Unstated = 0
  Categories = {"FORMAT"}
  MinCoverage = 50
  WeightThreshold = 70
  Requests <- MCRequests
  Texts <- MCTexts
  HumanText <- MCHumanText
  Evidence = {e1}
  Subs = 2
  HardLimit = 3
  NoEntry = NoEntry
CHECK_DEADLOCK FALSE
INVARIANTS
  SupportedIsJustified
  StoresHoldCheckedDrafts
PROPERTIES
  StoresAreLedgers
