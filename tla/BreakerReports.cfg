SPECIFICATION FairSpec
CONSTANTS
    c1 = c1
    c2 = c2
    c3 = c3
    Caller = {c1, c2, c3}
    FailureThreshold = 3
    RecoveryTimeout = 3
    HalfOpenMaxCalls = 2
INVARIANTS
    ProbeIsOut
PROPERTIES
    ShieldsFailingService
    TriedAgain
