SPECIFICATION FairSpec
CONSTANTS
    s = s
    c = c
    b = b
    big = big
    Msgs <- MCMsgs
    Size <- MCSize
    NoMsg = NoMsg
    NoByte = NoByte
    RXLEN = 27
    TXFRAMES = 5
    FlowParams <- MCFlowParams
    CrPeriods = {2}
    BsPeriods = {2}
    AsPeriods = {1}
    MaxBegun = 3
INVARIANTS
    SameBlock
PROPERTIES
    ImplementsMessageLink
    Arrives

