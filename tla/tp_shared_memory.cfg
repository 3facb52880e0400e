SPECIFICATION Spec
CONSTANTS
    answer = answer
    request = request
    TxMsgs <- MCTxMsgs
    RxMsgs <- MCRxMsgs
    Size <- MCSize
    NoMsg = NoMsg
    NoByte = NoByte
    CANDL = 8
    SNMOD = 16
    LEN = 20
    BlkSizes = {2}
    CrPeriods = {2}
    BsPeriods = {2}
    AsPeriods = {1}
PROPERTIES
    SentIsRequested
