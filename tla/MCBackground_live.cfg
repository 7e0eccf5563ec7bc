SPECIFICATION Spec
CONSTANTS
    Worker = {w1, w2}
    Client = {c1}
    MaxTask = 3
    MaxFail = 1
    MaxAdd = 2
INVARIANTS DrainedOnce WritesInOrder BatchNotLost
PROPERTIES PoolServes WritesAnswered
CHECK_DEADLOCK FALSE
