SPECIFICATION Spec
CONSTANTS
    Prefix = {"st"}
    TopoOf <- TopoByPrefix
    Pairs = 2
    Orderly = TRUE
    SameShell = FALSE
INVARIANT CleanIsComplete
