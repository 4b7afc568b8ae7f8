SPECIFICATION MirrorSpec
CONSTANTS
    Pools = {p1, p2}
    V3Pools = {p1}
    TopPools = {}
    CorePools = {p1}
    Absent = Absent
    Unknown = Unknown
    Torn = Torn
    ChunkSize = 2
    MaxSwaps = 2
    MaxFaults = 1
INVARIANTS
    LagExplained
PROPERTIES
    CacheHolds
