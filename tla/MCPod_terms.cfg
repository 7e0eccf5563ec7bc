SPECIFICATION PodSpec
CONSTANTS
    n1 = n1
    n2 = n2
    n3 = n3
    None = None
    Server = {n1, n2}
    Followers <- ListPeers
    Electors = {n1, n2}
    MaxTerm = 2
    MaxIndex = 1
    MaxLateVote = 1
    MaxLateBeat = 1
    MaxLateAppend = 1
    Value = {v1}
    Empty = Empty
    Garbage = Garbage
    Capacity = 3
    SizeMod = 16
    MinNext <- NegOne
    LossyAppend = TRUE
SYMMETRY Symmetry
INVARIANTS SyncOnlyWhileLeading VoteOncePerTerm
