SPECIFICATION BatchSpec
CONSTANTS
    x = x
    y = y
    z = z
    g = g
    h = h
    TaskId = {x, y, z}
    GroupId = {g, h}
    EmptyId = EmptyId
    Document <- Documents
    Files = 3
INVARIANTS
    PlanIsComplete
    ExitZeroMeansAll
    StopStopsTheBatch
