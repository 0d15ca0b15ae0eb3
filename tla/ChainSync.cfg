SPECIFICATION SyncSpec
CONSTANTS
    Blocks = {0, 1, 2, 3, 4, 5, 6, 7, 8, 9, 10, 11}
    Genesis = 0
    Difficulties = {10}
    MaxTips = 2
    STABLE_LIMIT = 2
    MaxRewinds = 1
    MaxRewound = 12
    HeaderOf <- MCHeaders
    Starts <- MCStarts
    MaxResponse = 6
    MaxTimeouts = 2
    MaxPropagated = 1
INVARIANT ChainWhole
PROPERTIES
    NeverLighter
    CatchesUp
CHECK_DEADLOCK FALSE
