SPECIFICATION HuntSpec
CONSTANTS
    w = w
    u = u
    v = v
    x = x
    q = q
    p1 = p1
    p2 = p2
    p3 = p3
    p4 = p4
    p5 = p5
    p6 = p6
    Tokens = {w, u, v, x}
    Pools = {q, p1, p2, p3, p4, p5, p6}
    GraphPools = {q, p1, p2, p3, p4, p6}
    Triggers = {q, p3, p5}
    EndsOf <- MCEndsOf
    MaxHops = 3
    None = None
    V3Pools = {p6}
    ReserveChoices <- MCReserves
    MinIn = 1
    MaxIn = 1000
    PhiNum = 618
    PhiDen = 1000
    Tolerance = 100
    MaxIter = 5
    MinProfit = 1
    Slack = 2
INVARIANTS
    PathsAreRoutes
    BitmapTracksHops
    ProbesOrdered
    IntervalKeepsBest
PROPERTIES
    FindsAllRoutes
    SearchAdvances
    SearchEnds
CHECK_DEADLOCK FALSE
