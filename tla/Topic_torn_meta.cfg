CONSTANTS
    orders = orders  t1 = t1  t2 = t2  k1 = k1
    Topics = {orders}
    Threads = {t1, t2}
    Keys = {k1}
    NoKey = NoKey
    Hash <- MCHash
    Counts = {3}
    DefaultPartitions = 2
    Owned <- MCOwned
    SyncRecords = 2
    TimeBound = FALSE
    MaxAppends = 1
    MaxCalls = 1
    MaxRestarts = 1
    MaxErrors = 0
SPECIFICATION Spec
SYMMETRY MCSymmetric
CHECK_DEADLOCK FALSE
INVARIANT Startable
