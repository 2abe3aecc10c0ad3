SPECIFICATION Spec
CONSTANTS
    Prefix = {"st", "xx", "yy"}
    TopoOf <- TopoByPrefix
    Pairs = 2
    Orderly = TRUE
    SameShell = TRUE
INVARIANT TypeOK
INVARIANT SetupIsComplete
INVARIANT CleanIsComplete
INVARIANT OneOnHost
