SPECIFICATION Spec
CONSTANTS
    s = s
    a = a
    b = b
    big = big
    Msgs <- MCMsgs
    Size <- MCSize
    NoByte = NoByte
    CANDL = 4
    SNMOD = 2
    RXLEN = 8
    BlkSizes = {2}
    CrPeriods = {1}
PROPERTY DeliveredIsReceived
