SPECIFICATION Spec
CONSTANTS
    Hashes = {h1, h2, h3, h4}
    None = None
    Backends = {"sled", "rocksdb"}
    CommitPoints = {"rocksdb"}
    PRUNE_SAFETY_LIMIT = 1
    MaxSaved = 5
INVARIANTS  PositionsUnique 
SYMMETRY Symmetry
