CONSTANTS
    pa = pa  pb = pb  q1 = q1  q2 = q2  c1 = c1
    Elsewhere = Elsewhere
    Parts = {pa, pb}
    Producers = {q1, q2}
    Consumers = {c1}
    Requests <- MCRequests
    Batch = 2
    MaxAppends = 3
    MaxFailures = 1
SPECIFICATION FairSpec
CHECK_DEADLOCK FALSE
INVARIANTS TypeOK NoLostWakeup WaiterReachable CleanStream ReadComplete
PROPERTIES Followed Backstop Drains
