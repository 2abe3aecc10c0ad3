SPECIFICATION Spec
CONSTANTS
    Clients = 2
    Kernels = {"fixed", "lingers"}
    Timely = FALSE
    Faults = TRUE
INVARIANT WaitsForResponse
CHECK_DEADLOCK FALSE
