CONSTANTS
    t1 = t1  t2 = t2  r1 = r1  v1 = v1  v2 = v2
    Threads <- MCThreads
    Readers = {}
    Values <- MCValues
    Size <- MCSize
    NoThread = NoThread
    NoValue = NoValue
    MaxSegmentBytes = 3
    IndexInterval = 2
    MaxOffset = 3
    MaxCrashes = 1
    MaxFaults = 2
SPECIFICATION FairSpec
CHECK_DEADLOCK FALSE
INVARIANTS AckedOnDisk PromisedSafe
PROPERTIES LockReleased ComesUp
