SPECIFICATION Spec
CONSTANTS
    f1 = f1
    f2 = f2
    Files = {f1, f2}
    FlushCount = 2
    MaxScans = 2
    Plans <- FirstPlans
    Mounts = {TRUE}
    Faults = {}
PROPERTIES CompletionIsReal
CHECK_DEADLOCK FALSE
