SPECIFICATION MCSpec
CONSTANTS
  NoCode = NoCode
  Known = {}
  NoReport = NoReport
  NoSection = NoSection
  Clients = {c1, c2}
  Keys = {k1, k2}
  Codes = {"r1"}
  Full = Full
  MaxVersion = 1
  Verdicts <- MCVerdicts
  NoRow = NoRow
  MaxRequests = 4
  MaxEdits = 2
  MaxFaults = 1
CHECK_DEADLOCK FALSE
INVARIANTS
  SettledScoresWereReviewed
  OverridesAreAudited
  ClearsOnlyTheEquipped
SYMMETRY Symmetry
