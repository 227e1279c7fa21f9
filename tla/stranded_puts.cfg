SPECIFICATION CalmSpec
CONSTANTS
    f1 = f1
    f2 = f2
    Files = {f1, f2}
    FlushCount = 2
    MaxScans = 1
    Plans <- FirstPlans
    Mounts = {TRUE}
    Faults = {}
INVARIANTS NoPutStranded
CHECK_DEADLOCK FALSE
