SPECIFICATION Spec
CONSTANTS
    f1 = f1
    h1 = h1
    NoFile = NoFile
    Files = {f1}
    Hashes = {h1}
    MaxCleanups = 1
    Faults = {}
INVARIANT FilesAreIndexed
CHECK_DEADLOCK FALSE
