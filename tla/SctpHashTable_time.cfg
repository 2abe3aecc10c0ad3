SPECIFICATION Spec
CONSTANTS
    Cnt = 2
    Loops = 2
    Limit = 6
    Pause = 2
INVARIANT TypeOK
INVARIANT OwnCheckIsMoot
PROPERTY PassInTime
PROPERTY Ends
CHECK_DEADLOCK FALSE
