SPECIFICATION BiddingSpec
CONSTANTS
    MaxBribe = 99
    TierPct <- MCTierPct
    Window = 1
    GweiFees = {1, 2}
    MaxStreak = 6
    MaxPressure = 1
    MaxRivalBids = 1
INVARIANTS
    BiddingTypeOK
    StreakNeverLowers
PROPERTIES
    PressureFades
