SPECIFICATION FairSpec
CONSTANTS
    a = a
    b = b
    g1 = g1
    g2 = g2
    k1 = k1
    k2 = k2
    Thread = {a, b}
    NoThread = NoThread
    Transport = {g1, g2}
    NoTransport = NoTransport
    Keeper = {k1, k2}
    NoKeeper = NoKeeper
    Operation = {"connect", "execute", "transfer", "disconnect", "reconnect"}
    Unreliable = TRUE
    SlowBeat = TRUE
    FailureThreshold = 2
    RecoveryTimeout = 1
    HalfOpenMaxCalls = 1
INVARIANTS
    ReportsAreTimely
    OneKeeper
PROPERTIES
    LeavesFailingHostAlone
    RedialsOnlyAfterStaleBeat
    CallsReturn
