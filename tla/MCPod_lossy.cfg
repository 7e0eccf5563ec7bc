SPECIFICATION PodSpec
CONSTANTS
    n1 = n1
    n2 = n2
    n3 = n3
    None = None
    Server = {n1, n2, n3}
    Followers <- ListAll
    Electors = {n1}
    MaxTerm = 1
    MaxIndex = 2
    MaxLateVote = 0
    MaxLateBeat = 0
    MaxLateAppend = 0
    Value = {v1, v2}
    Empty = Empty
    Garbage = Garbage
    Capacity = 3
    SizeMod = 16
    MinNext <- NegOne
    LossyAppend = TRUE
SYMMETRY Symmetry
INVARIANTS PodTypeOK  
PROPERTIES LogAppendOnly
