SPECIFICATION Spec
CONSTANTS
    Cases <- ShortCases
    Suite <- SuiteOf
    Script <- ClientOf
    CleanupScript <- CleanupSctp
    Check <- CheckOf
    ByStatus <- JudgedByStatus
    FirstVerdict <- VerdictOf
    AssocId = 1
    SndBuf = 5000
    Overhead = 800
    Burst = 3
    Rounds = 1
    Count = 2
    Width = 2
    FuzzEnds = 0
    Turn <- AnyTurn
    KernelBugs <- LosesOrRepeats
    MaxBugs = 1
    Timely = FALSE
    Faults = TRUE
INVARIANT TypeOK
INVARIANT Rendezvous
INVARIANT ResetNegotiated
PROPERTY ImplementsRemoteCall
PROPERTY HangOnlyAfterFailure
CHECK_DEADLOCK FALSE
