SPECIFICATION Spec
CONSTANTS
    Key = {1, 2, 3, 4}
    LevelMax <- OneDeep
    MaxFlush = 4
    MaxKill = 1
INVARIANTS ReadsNewest LevelsSorted SavedIntact
PROPERTY LiveFilesFixed
