SPECIFICATION Spec
CONSTANTS
    n1 = n1
    n2 = n2
    s1 = s1
    s2 = s2
    d = d
    p = p
    q = q
    eth0 = eth0
    Device = {eth0, eth1}
    Eth0 = eth0
    NoDevice = NoDevice
    Named <- NamedFirst
    Fault = {n1, n2, s1, s2, d}
    NoFault = NoFault
    Type <- TypeMixed
    Given <- GivenMixed
    Pod = {p, q}
    Target <- TargetMixed
    Family <- FamilyMixed
    Node = {a, b}
    Nowhere = Nowhere
    Known = {a}
    Gone = Gone
    MaxChurn = 1
SYMMETRY Stops
INVARIANTS
    RecoverUndoesInject
    StopsAreKept
PROPERTIES
    FaultsEndByTheirOwn
