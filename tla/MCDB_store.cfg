SPECIFICATION FairDbSpec
CONSTANTS
    k1 = k1
    k2 = k2
    Key = {k1, k2}
    MaxSize = 1
    MaxPut = 5
INVARIANTS ReadsLatest
PROPERTIES ImplementsStore CloseEnds
