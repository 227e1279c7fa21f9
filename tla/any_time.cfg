SPECIFICATION Spec
CONSTANTS
    f1 = f1
    f2 = f2
    Files = {f1, f2}
    FlushCount = 2
    MaxScans = 2
    Plans <- AnyPlans
    Mounts = {TRUE, FALSE}
    Faults = {"walk"}
SYMMETRY Symmetry
INVARIANTS NoCountedItemLost OperationsDisjoint CleanupOncePerScan
CHECK_DEADLOCK FALSE
