CONSTANTS
    none = none
    None = none
    Keys <- MCKeys
    Timestamps = {0}
    MAX_SIZE = 10
    SignBit = 16
    Crc <- MCCrc
    Garbage <- MCGarbage
    MaxRecords = 2
    MaxDamage = 1
SPECIFICATION Spec
CHECK_DEADLOCK FALSE
INVARIANT Genuine
PROPERTIES NoDamageKept OnlyDamageHurts
