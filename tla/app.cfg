SPECIFICATION FairSpec
CONSTANTS
    sessctrl = sessctrl
    tester = tester
    defsess = defsess
    extsess = extsess
    NoItem = NoItem
    Items <- MCItems
    Root = sessctrl
    NextOf <- MCNextOf
    DownOf <- MCDownOf
    Numbers = {1, 2}
INVARIANTS
    DeepIsPath
PROPERTIES
    SentAtMostOnce
    LatestSent
