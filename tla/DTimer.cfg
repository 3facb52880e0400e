SPECIFICATION Spec
CONSTANTS
    TickMod = 6
    Periods = {0, 2, 5}
INVARIANT TypeOK
PROPERTY ImplementsCountdown
CHECK_DEADLOCK TRUE
