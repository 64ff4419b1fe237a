SPECIFICATION BucketSpec
CONSTANTS
    Capacity = 3
    Unit = 4
    Rate = 3
    Second = 2
    MaxLag = 3
    BucketFaults = {"err", "lost"}
    MaxSpan = 12
    MaxSetback = 4
INVARIANTS
    BucketTypeOK
    WithinRate
    RetryAfterIsEnough
