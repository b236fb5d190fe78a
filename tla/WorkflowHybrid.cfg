SPECIFICATION FairSpec
CONSTANTS
    t1 = t1
    t2 = t2
    t3 = t3
    Task = {t1, t2, t3}
    Layers <- HybridLayers
    MaxWorkers = 2
    MaxRetry = 1
    RetryCount <- RetryFirst
    AutoClear = TRUE
INVARIANTS
    LayersAreBarriers
    AbandonedIsTimeout
    TempFileDiscipline
    SuccessIsComplete
    QuiescentAtEnd
    
PROPERTIES
    ImplementsPlan
    WorkflowConcludes
