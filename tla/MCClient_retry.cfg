SPECIFICATION ClientSpec
CONSTANTS
    n1 = n1
    n2 = n2
    n3 = n3
    p1 = p1
    None = None
    Server = {n1, n2, n3}
    Followers <- ListPeers
    Electors = {n1}
    MaxTerm = 1
    MaxIndex = 2
    MaxLateVote = 0
    MaxLateBeat = 0
    MaxLateAppend = 0
    Value <- Requests
    Empty = Empty
    Garbage = Garbage
    Capacity = 3
    SizeMod = 16
    MinNext <- NegOne
    LossyAppend = FALSE
    Process = {p1}
    all_pod <- Configured
INVARIANTS TrueMeansLogged LoggedOncePerTry
PROPERTIES ReadsCommited CallReturns
