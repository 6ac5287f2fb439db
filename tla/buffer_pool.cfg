SPECIFICATION Spec
CONSTANTS
    Block = {b1, b2, b3}
    Thread = {t1, t2}
    Packet = {p1, p2}
    None = None
    Scalar = Scalar
    kClassCount = 2
    kMinTargetPerClass = 1
    kRetunePeriod = 2
    Size = {1, 3, 5}
    MaxTarget = 2
    MaxRequests = 3
CHECK_DEADLOCK FALSE
INVARIANTS PoolInv CacheBounded
