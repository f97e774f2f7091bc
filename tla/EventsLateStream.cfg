SPECIFICATION FairSpec
CONSTANTS
    Viewers = {"tab"}
    Capacity = 2
    MaxLines = 1
PROPERTIES
    EveryStreamEnds
CHECK_DEADLOCK FALSE
