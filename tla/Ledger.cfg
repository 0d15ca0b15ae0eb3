CONSTANTS
    A = A  B = B
    Accounts = {A, B}
    Miners = {A, B}
    Start <- Coins
    Kinds = {"transfer", "burn", "freeze", "unfreeze", "energy"}
    Amounts = {1}
    Fee = 1
    Reward = 1
    Lock = 1
    None = None
    MaxBlocks = 4
    MaxTxs = 2
    MaxBlockTxs = 2
SPECIFICATION Spec
INVARIANTS  Solvent
CHECK_DEADLOCK FALSE
