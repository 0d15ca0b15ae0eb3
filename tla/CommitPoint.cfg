SPECIFICATION Spec
CONSTANTS
    Keys = {k1, k2}
    Values = {v1, v2}
    None = None
    Untouched = Untouched
    cache_size = TRUE
INVARIANTS CacheCoherent ContainsAgrees
PROPERTY ImplementsStore
