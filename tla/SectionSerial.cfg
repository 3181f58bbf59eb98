SPECIFICATION FairSpec
CONSTANTS
  Sections = {s1}
  Chains = {c1, c2}
  MaxTaskRetries = 1
  MaxFaults = 2
  MaxDecisions = 1
  MaxOverlapped = 0
  ExtractStatus = {"OK", "NEED_HUMAN_INPUT"}
  NoFile = NoFile
  Torn = Torn
CHECK_DEADLOCK FALSE
INVARIANTS
  DeliveredWhatWasDrafted
PROPERTIES
  ChainsEnd
  SurvivesPastFaults
