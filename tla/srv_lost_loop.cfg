SPECIFICATION FairSpec
CONSTANTS
    S3_max = 3
    p2_max = 1
    p2_enhanced = 2
    EtmFloor = 0
    RoutineTime = 2
    EtmDuration = 4
    EtmInterval = 1
    MayFail = FALSE
    RxMayBreak = FALSE
    PromptLoop = FALSE
    SubFunctionSids <- NoSids
    Requests <- UnknownDid
PROPERTIES
    MainLoopRuns
