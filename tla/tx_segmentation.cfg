SPECIFICATION FairSpec
CONSTANTS
    s = s
    a = a
    b = b
    big = big
    Msgs <- MCMsgs
    Frames <- MCFrames
    TXFRAMES = 4
    SNMOD = 3
    MayFail = TRUE
    BlkSizes = {0, 2}
    StMins = {0, 2, 4}
    StMinLimit = 3
    MicroStMins = {4}
    AsPeriods = {1}
    BsPeriods = {2}
    NoMsg = NoMsg
INVARIANTS
    TypeOK
    WireInOrder
    WithinBlock
    SentIsCounted
    FirstWaitGuarded
PROPERTIES
    ConfirmedIsSent
    NoSilentEnd
    BlockCompletes
    FirstWaitEnds
CHECK_DEADLOCK TRUE
