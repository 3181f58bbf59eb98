SPECIFICATION FairSpec
CONSTANTS
    MaxTaskRetries = 2
    MaxFaults = 5
INVARIANTS
    NothingPastTheGate
    RowBackedByFiles
PROPERTIES
    ReturnsWithOutcome
