SPECIFICATION FairSpec
CONSTANTS
  Clients = {c1, c2}
  NumSteps = 7
  Barrier = 3
  MaxRetries = 2
  MaxCrashes = 1
  OutOfOrder = FALSE
INVARIANTS
  TypeOK
  PointerMatchesResults
  CallsAccountedFor
PROPERTIES
  SucceededStepsRest
  ResumersReturn
  ImplementsSequence
