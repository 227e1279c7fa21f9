SPECIFICATION FairCalmSpec
CONSTANTS
    f1 = f1
    f2 = f2
    f3 = f3
    f4 = f4
    Files = {f1, f2, f3, f4}
    FlushCount = 3
    MaxScans = 1
    Plans <- CompletingPlans
    Mounts = {TRUE, FALSE}
    Faults = {}
PROPERTIES ScanCompletes
