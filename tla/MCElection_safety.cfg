SPECIFICATION ElectionSpec
CONSTANTS
    n1 = n1
    n2 = n2
    n3 = n3
    None = None
    Server = {n1, n2, n3}
    Followers <- ListAll
    Electors = {n1, n2, n3}
    MaxTerm = 2
    MaxIndex = 0
    MaxLateVote = 0
    MaxLateBeat = 0
SYMMETRY Symmetry
INVARIANTS ElectionTypeOK ElectionInv VoteOncePerTerm ElectionSafety OneLeaderPerTerm
