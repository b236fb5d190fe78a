SPECIFICATION PoolFairSpec
CONSTANTS
    a = a
    b = b
    h1 = h1
    h2 = h2
    h3 = h3
    e1 = e1
    e2 = e2
    Thread = {a, b}
    Sweeper = Sweeper
    Nobody = Nobody
    Key = {h1, h2, h3}
    Executor = {e1, e2}
    NoExecutor = NoExecutor
    NoKey = NoKey
    MaxConnections = 1
    Unreliable = TRUE
INVARIANTS
    RightHost
    BoundedSize
    NoLeak
CHECK_DEADLOCK FALSE
PROPERTIES
    CommandsAreNotCut
    GetReturns
