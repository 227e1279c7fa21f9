SPECIFICATION Spec
CONSTANTS
    f1 = f1
    f2 = f2
    h1 = h1
    h2 = h2
    NoFile = NoFile
    Files = {f1, f2}
    Hashes = {h1, h2}
    MaxCleanups = 2
    Faults = {"walk", "cache", "crash"}
SYMMETRY Symmetry
INVARIANTS TypeOK IndexIsDisk CacheIsTrue CacheCoversRows
CHECK_DEADLOCK FALSE
