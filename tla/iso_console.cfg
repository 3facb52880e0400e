SPECIFICATION FairSpec
CONSTANTS
    Sizes = {7, 20}
    Text = Text
    Exit = Exit
    Empty = Empty
PROPERTIES
    ExitEnds
CHECK_DEADLOCK FALSE
