CONSTANTS
    A = A  B = B
    Accounts = {A, B}
    Miners = {A}
    Start <- Coins
    Kinds = {"transfer"}
    Amounts = {1}
    Fee = 1
    Reward = 1
    Lock = 1
    None = None
    MaxBlocks = 5
    MaxTxs = 1
    MaxBlockTxs = 1
SPECIFICATION Spec
INVARIANT RefusedIsDoubleSpending
CHECK_DEADLOCK FALSE
