SPECIFICATION CalmSpec
CONSTANTS
    f1 = f1
    f2 = f2
    f3 = f3
    Files = {f1, f2, f3}
    FlushCount = 2
    MaxScans = 1
    Plans <- AllSamePlans
    Mounts = {FALSE}
    Faults = {}
INVARIANTS ReplyThreadRuns
CHECK_DEADLOCK FALSE
