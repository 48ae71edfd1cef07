SPECIFICATION Spec
CONSTANTS
    Sectors = {"s1", "s2", "s3"}
    PoolSize = 2
INVARIANT WriteInCache
