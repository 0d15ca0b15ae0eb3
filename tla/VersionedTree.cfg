CONSTANTS
    Values = {v1, v2}
    None = None
    Kinds = {"tree", "balances"}
    MaxTopo = 4
    PRUNE_SAFETY_LIMIT = 1
SPECIFICATION Spec
   
PROPERTIES PruneKeepsSpent 
CHECK_DEADLOCK FALSE
