SPECIFICATION Spec
CONSTANTS
    m = m
    n = n
    k = k
    p = p
    Eth0 = eth0
    Container = container
    NoDevice = NoDevice
    NoCase = NoCase
    ClearCommand = ClearCommand
    Pod = {p}
    NodePods = {p}
    ConfigDevice = eth0
    Case = {m, n, k}
    Device = {eth0}
    Named <- NamedEth0
    Timing <- TimingMixed
    AutoClears = {k}
    LoopCount <- LoopOnce
    Matches <- MatchOne
    MaxTargets <- TargetsAlone
    MaxSecond = 0
INVARIANTS
    ActiveFaultsAreListed
    SuccessLeavesNothing
PROPERTIES
    UndisturbedFaultsAreSafe
