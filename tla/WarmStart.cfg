SPECIFICATION WarmSpec
CONSTANTS
    NumHeads = 3
    MinCooldown = 8
    Heights = {7, 9}
    Lookback = 7
    BatchSpan = 2
    Backoff = 2
    Pause = 1
    MaxErrors = 4
INVARIANTS
    RangeScannedOnce

    
    
