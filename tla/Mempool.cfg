SPECIFICATION Spec
CONSTANTS
    Accounts = {a1, a2}
    Assets = {tos, usd}
    Txs <- MCTxs
    Nonces = {None, 0, 1}
    Amounts = {2}
    Setups = {m1}
    None = None
    disable_zkp_cache = FALSE
    Batches <- MCBatches
    MaxPopped = 2
    MaxNonce = 2
    MaxBase = 2
    Native = tos
    Minor = {a2}
    Signers = {a2}
INVARIANTS
    CachesMatchTxs
    NoncesContiguous
    
    ConsecutiveCompatible
CHECK_DEADLOCK FALSE
