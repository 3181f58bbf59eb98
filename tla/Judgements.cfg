SPECIFICATION Questions
CONSTANTS
  Facts = {"kv"}
  Unit = 12
  Unavailable = Unavailable
  Unset = Unset
  NoCode = NoCode
  Known = {}
  NoReport = NoReport
  NoSection = NoSection
  NoQuestion = NoQuestion
  NoOne = NoOne
  Searches <- MCSearches
  Compressions <- MCCompressions
  Teams <- MCTeams
  Ensembles <- MCEnsembles
  Profiles <- MCProfiles
  Libraries <- MCLibraries
  Gates <- MCGates
  Papers <- MCPapers
  Analyses <- MCAnalyses
CHECK_DEADLOCK FALSE
INVARIANTS
  SearchServesAllowed
  ContextFitsBudget
  TeamIsBest
  EnsembleKeepsIssues
  AnsweringNeverCosts
  RecommendationIsAccepted
  GateFailsClosed
  VoidingClausesAreListed
