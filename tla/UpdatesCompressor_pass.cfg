\* Three entities, a cache for two of them, packets for three updates.
CONSTANTS
    Entities = 3
    Values = {1, 2}
    Levels <- MCLevels
    Limit = 17
    MaxEq = 1
    EqValues = 2
    CacheSize = 2
SPECIFICATION UpdatesSpec
INVARIANTS UpdatesArriveOnce PacketsFit SuppressedIsKnown
CHECK_DEADLOCK FALSE
