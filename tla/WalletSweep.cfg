SPECIFICATION WalletSpec
CONSTANTS
    HarvestTokens = {tk1, tk2}
    MaxNonce = 5
    MaxRestarts = 0
INVARIANTS
    
    SwapsBacked
CHECK_DEADLOCK FALSE
