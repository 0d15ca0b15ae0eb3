SPECIFICATION Spec
CONSTANTS
    b1 = b1
    b2 = b2
    t1 = t1
    t2 = t2
    p1 = p1
    p2 = p2
    Peers = {p1, p2}
    Blocks = {b1, b2}
    Txs = {t1, t2}
    TxsOf <- MCTxsOf
    ChannelSize = 1
    Concurrency = 1
    QueueSize = 2
    Gossiped = {t1}
    MaxAsked = 1
INVARIANTS PendingExact UnsentOnItsWay
PROPERTIES FetchEnds
CHECK_DEADLOCK FALSE
