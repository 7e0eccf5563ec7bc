SPECIFICATION Spec
CONSTANTS
    Key = {1, 2, 3}
    Thread = {t1, t2}
    Capacity <- SmallParts
    Promotions = 1
    Row = {1, 2}
    Slots = 2
    Index <- Indexes
    CounterMax = 3
    MaxOp = 5
INVARIANTS MapMatchesList NeverUnderestimates
PROPERTY StopReturns
CHECK_DEADLOCK FALSE
