SPECIFICATION Spec
CONSTANTS
    Sends = 4
    SndBufs = {1, 2, 4}
    Kernels = {"epipe", "deny", "stuck"}
    Timely = FALSE
    Faults = TRUE
INVARIANT TypeOK
INVARIANT PassMeansStolen
INVARIANT FailHasCause
INVARIANT NoRuleLeft
PROPERTY Ends
CHECK_DEADLOCK FALSE
