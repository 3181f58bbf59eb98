SPECIFICATION LibrarySpec
CONSTANTS
    Clients = {c1, c2}
    Sessions = {s1}
    Documents <- MCDocuments
    Base <- MCBase
    Updates <- MCUpdates
    MinTokens = 2
    LeastTokens = 1
    Short = 4
    TableMax = 4
    Absent = Absent
    MaxEdits = 3
    MaxConfirms = 2
    MaxFailures = 2
SYMMETRY Symmetry
INVARIANTS
    MetaIsTrue
    ConfirmableHoldsUpload
CHECK_DEADLOCK FALSE
