SPECIFICATION Spec
CONSTANTS
    Node <- TwoNodes
    Dir = {"a/b", "a_b", "c"}
    Name <- Flat
    LogFile <- SomeFiles
    Date <- SomeDates
    Malformed = Malformed
    NoTar = NoTar
    MaxCalls = 2
    MaxCrashes = 1
INVARIANTS
    StaleArchivesHaveACause
    TrueMeansAllPacked
    ArchivesHoldTheirDay
