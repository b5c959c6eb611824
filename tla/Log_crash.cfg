CONSTANTS
    t1 = t1  t2 = t2  r1 = r1  v1 = v1  v2 = v2
    Threads <- MCThreads
    Readers <- MCReaders
    Values <- MCValues
    Size <- MCSize
    NoThread = NoThread
    NoValue = NoValue
    MaxSegmentBytes = 3
    IndexInterval = 2
    MaxOffset = 3
    MaxCrashes = 2
    MaxFaults = 0
SPECIFICATION Spec
SYMMETRY Symmetric
CHECK_DEADLOCK FALSE
INVARIANTS TypeOK SequentialFiles ChainedFiles NeverRefused CleanRead ReadSeesAcked
PROPERTIES SealedFrozen ImplementsDurableLog
