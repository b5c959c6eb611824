CONSTANTS
    Partitions = {orders0, clicks0}
    VNodes = {0, 1}
    Digests = {0, 1, 2, 3}
    MaxBrokers = 3
SPECIFICATION Spec
INVARIANT FirstClockwise
PROPERTY MovesLittle
