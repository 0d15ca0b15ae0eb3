SPECIFICATION Spec
CONSTANTS
    Blocks = {0, 1, 2, 3, 4, 5}
    Genesis = 0
    Difficulties = {10}
    MaxTips = 2
    STABLE_LIMIT = 2
    MaxRewinds = 1
    MaxRewound = 4
INVARIANTS
    
    TipsIncomparable
    
PROPERTY OrderAboveBase
CHECK_DEADLOCK FALSE
