SPECIFICATION Spec
CONSTANTS
    Capacity = 500
    MinBlock = 64
    MaxBlock = 400
    MaxCount = 2
    KeyShift = 1000
    SizeMod = 4096
    Key = {1, 2, 3}
    KeySize <- KeyLengths
    Value = {1, 2}
    ValueSize <- ValueLengths
    Id = {1, 2, 3}
    Contents <- TwoContents
    Hashes <- OneHash
    PackedBytes = 80
    Thread = {t1, t2}
    MaxBuild = 3
    MaxReset = 1
SYMMETRY Threads
INVARIANTS TableReads CacheAccounts CacheFaithful
PROPERTY EvictsOldest
