SPECIFICATION Spec
CONSTANTS
    Clients = 3
    Kernels = {"fixed", "lingers"}
    Timely = FALSE
    Faults = TRUE
INVARIANT TypeOK
INVARIANT NeverBothWait
INVARIANT PassMeansAnswered
INVARIANT FailHasCause
PROPERTY HangOnlyReproduces
CHECK_DEADLOCK FALSE
