SPECIFICATION FairElectionSpec
CONSTANTS
    n1 = n1
    n2 = n2
    n3 = n3
    None = None
    Server = {n1, n2, n3}
    Followers <- ListAll
    Electors = {n1, n2}
    MaxTerm = 1
    MaxIndex = 0
    MaxLateVote = 1
    MaxLateBeat = 1
PROPERTIES ElectionEnds TermDiscipline
