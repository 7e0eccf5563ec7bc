SPECIFICATION Spec
CONSTANTS
    Key = {1, 2, 3}
    KeySize <- Lengths
    Value = {1, 2}
    ValueSize <- ValueLengths
    Thread = {t1}
    MaxLevel = 2
    MaxOp = 4
    MaxBatch = 1
    MaxThrow = 1
INVARIANTS ListIsMap CommitTellsTruth
CHECK_DEADLOCK FALSE
