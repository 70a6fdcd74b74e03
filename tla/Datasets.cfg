CONSTANTS
    d1 = d1
    d2 = d2
    u1 = u1
    x1 = x1
    x2 = x2
    Datasets = {d1, d2}
    Media = {u1, x1, x2}
    Home <- MCHome
    User = User
    Ops = {o1}
SPECIFICATION Spec
INVARIANT NoEmptyDataset
PROPERTIES
    OthersKeepTheirFiles
    PreparationUndisturbed
    
CHECK_DEADLOCK FALSE
