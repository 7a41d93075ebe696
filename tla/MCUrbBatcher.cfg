SPECIFICATION Spec
CONSTANTS
    MaxBatch = 3
    Capacity = 3
    Sizes = {1, 2, 4}
    Seqnums = 3
    MaxUrbs = 3
INVARIANT NoReplyLost
CHECK_DEADLOCK FALSE
