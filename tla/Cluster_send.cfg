CONSTANTS
    c1 = c1  g1 = g1  k1 = k1  k2 = k2
    Producers = {c1}
    Consumers = {g1}
    Bootstrap <- MCBootstrap
    Keys = {k1, k2}
    NoKey = NoKey
    Hash <- MCHash
    Sends <- MCSends
    Upto <- MCUpto
    Watch <- MCWatch
    Created = 2
    DefaultPartitions = 1
    FirstSize = 2
    CarriesMeta = TRUE
    VNodes = {0}
    Digests = {0, 1, 2, 3}
    Point <- MCPoint
    Place <- MCPlace
    MaxBrokers = 3
    Scenes <- MCScenes
SPECIFICATION FairSpec
CHECK_DEADLOCK FALSE
INVARIANTS TypeOK NoSplit Reachable KeyOrder BatchPrefix ReadsResume OnlyLostRepeated
PROPERTIES OrphansFrozen SendEnds
