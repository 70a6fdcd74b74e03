CONSTANTS
    j1 = j1
    j2 = j2
    Jobs = {j1, j2}
    Runs = {r1}
    Applies = {a1}
    CopyKeepsAge = FALSE
SYMMETRY Symmetric
SPECIFICATION Spec
PROPERTIES
    ClaimedMediaStay
    ResultsStay
    UnfinishedRunsKeepTheirFolder
    
CHECK_DEADLOCK FALSE
