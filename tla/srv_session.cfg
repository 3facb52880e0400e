SPECIFICATION FairSpec
CONSTANTS
    S3_max = 3
    p2_max = 1
    p2_enhanced = 2
    EtmFloor = 0
    RoutineTime = 4
    EtmDuration = 3
    EtmInterval = 2
    MayFail = TRUE
    RxMayBreak = FALSE
    PromptLoop = FALSE
    SubFunctionSids <- RoutineControl
    Requests <- Mixed
INVARIANTS
    TypeOK
    SessionsAgree
    SessionCanEnd
    EtmGuarded
    PendingKeepsContext
PROPERTIES
    EtmEnds
    SessionEnds
