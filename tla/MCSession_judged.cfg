SPECIFICATION Spec
CONSTANTS
    Cases <- JudgedCases
    Suite <- SuiteOf
    Script <- ClientOf
    CleanupScript <- CleanupSctp
    Check <- CheckOf
    ByStatus <- JudgedByStatus
    FirstVerdict <- VerdictOf
    AssocId = 1
    SndBuf = 5000
    Overhead = 800
    Burst = 3
    Rounds = 1
    Count = 2
    Width = 2
    FuzzEnds = 0
    Turn <- AnyTurn
    KernelBugs <- DetectedBugs
    MaxBugs = 2
    Timely = TRUE
    Faults = FALSE
INVARIANT NoFalseFail
INVARIANT NoFalsePass
CHECK_DEADLOCK FALSE
