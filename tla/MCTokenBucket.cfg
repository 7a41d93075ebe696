SPECIFICATION BucketSpec
CONSTANTS
    Rate = 1
    Second = 3
    Amounts = {1, 2, 5}
    MaxTime = 9
INVARIANTS
    RateIsKept
CHECK_DEADLOCK FALSE
