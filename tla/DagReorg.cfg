CONSTANTS
    g = g  b1 = b1  b2 = b2  b3 = b3  t = t
    Blocks = {g, b1, b2, b3}
    Genesis = g
    Txs = {t}
    TxsOf <- InTwoBlocks
    None = None
    MaxTopo = 3
    PRUNE_SAFETY_LIMIT = 1
    auto_prune_keep_n_blocks = 1
SPECIFICATION Spec
INVARIANTS PointersAgree  ExecutedInOrder NoTxLost TxsAvailable 
SYMMETRY Symmetry
CHECK_DEADLOCK FALSE
