SPECIFICATION FairSpec
CONSTANTS
    s = s
    a = a
    b = b
    big = big
    Msgs <- MCMsgs
    Size <- MCSize
    NoByte = NoByte
    CANDL = 4
    SNMOD = 2
    RXLEN = 8
    BlkSizes = {0, 1, 2}
    CrPeriods = {1}
INVARIANTS
    TypeOK
    OpenIffActive
    CountersAgree
    BufferHoldsAssembled
    InOrder
    CreditLeft
PROPERTIES
    ClosedBeforeReopened
    DeliveredTail
    ReceptionEnds
CHECK_DEADLOCK TRUE
