SPECIFICATION Spec
CONSTANTS
    MaxFailures = 1
    BaseCooldown = 1
    CriticalFailures = 1
    MaxLatency = 1
    MinBalance = 1
    MaxNodeLag = 1
    CountCap = 0
    MinProfit = 2
    MinNet = 4
    BalancerBias = 1
    MaxBranchLoss = 1000
    MaxBribePct = 99
    Tasks = {t1, t2}
    Permits = 1
    P1 = P1
    P2 = P2
    T1 = T1
    Bad = Bad
    W = W
    PathA = PathA
    PathB = PathB
    PathC = PathC
    Pools <- MCPools
    Tokens <- MCTokens
    CoreTokens = {W}
    Honeypots = {Bad}
    Weth = W
    SafeTokens = {W}
    Paths <- MCPaths
    HopsOf <- MCHopsOf
    LiveExecutor = TRUE
    SimOutcomes <- MCOneOutcome
    BribePcts = {50}
    BaseFees = {1}
    PriorityFee = 0
    GasCap = 1
    MinTip = 1
    MaxResilience = 2
    Relays = {r1, r2}
    MaxOpps = 3
    MaxBlock = 1
SYMMETRY TaskSymmetry
INVARIANTS
    TypeOK
    LocksHeld
    FirstBidsDisjoint
    OneOpportunityPerNonce
    AcceptedOnce
PROPERTIES
    ExecutesSerially
