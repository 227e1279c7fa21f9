SPECIFICATION CalmSpec
CONSTANTS
    f1 = f1
    f2 = f2
    f3 = f3
    f4 = f4
    Files = {f1, f2, f3, f4}
    FlushCount = 2
    MaxScans = 3
    Plans <- AnyPlans
    Mounts = {TRUE, FALSE}
    Faults = {"parse", "walk"}
SYMMETRY Symmetry
INVARIANTS TypeOK IdleMeansComplete OperationsDisjoint CleanupOncePerScan
PROPERTIES CompletionIsReal PromiseKept
CHECK_DEADLOCK FALSE
