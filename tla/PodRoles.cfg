SPECIFICATION RolesSpec
CONSTANTS
    p = p
    q = q
    r = r
    Pod = {p, q, r}
    Shard <- ShardPairs
    Balancer = {r}
    Address = {1, 2, 3, 4}
    NoAddress = 0
    Query <- QueryAll
    UpuFilter <- FilterMasters
    Matching = {p, r}
    MaxElections = 1
    MaxRestarts = 2
INVARIANTS
    RoleWasHeld
    QuietGroupsAreExact
