SPECIFICATION FairSpec
CONSTANTS
    n1 = n1
    n2 = n2
    Nodes <- OneNode
    Capacity = 1
    MaxStarts = 2
    MaxResponses = 2
PROPERTY CloseEnds
CHECK_DEADLOCK FALSE
