SPECIFICATION WalletSpec
CONSTANTS
    HarvestTokens = {tk1}
    MaxNonce = 3
    MaxRestarts = 1
INVARIANTS
    NonceUnique
    

    
CHECK_DEADLOCK FALSE
