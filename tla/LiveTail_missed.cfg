CONSTANTS
    pa = pa  pb = pb  q1 = q1  q2 = q2  c1 = c1
    Elsewhere = Elsewhere
    Parts = {pa}
    Producers = {q1, q2}
    Consumers = {c1}
    Requests <- MCFollow
    Batch = 2
    MaxAppends = 2
    MaxFailures = 1
SPECIFICATION Spec
CHECK_DEADLOCK FALSE
INVARIANT PollIdle
