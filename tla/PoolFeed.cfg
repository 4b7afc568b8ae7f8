SPECIFICATION FeedSpec
CONSTANTS
    p1 = p1
    p2 = p2
    Pools <- MCPools
    FactoryOf <- MCFactoryOf
    KindOf <- MCKindOf
    SeedDexOf <- MCSeedDexOf
    TopPools = {p2}
    CorePools = {p2}
    None = None
    Capacity = 1
    QueueCap = 1
INVARIANTS
    OwedOnItsWay
    PricedAsRead
PROPERTIES
    
    GraphCatchesUp
    
