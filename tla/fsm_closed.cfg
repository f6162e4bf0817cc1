SPECIFICATION FairSpec
CONSTANTS
    n1 = n1
    n2 = n2
    n3 = n3
    NoNode = NoNode
    Nodes <- OneNode
    HeadIsIndex = FALSE
    MaxMissedHeartbeats = 1
    BatchMinCount = 0
    MaxBatchesPending = 0
    RequestsCapacity = 1
    ResponsesCapacity = 1
    MaxIndex = 1
    MaxInputs = 1
    MaxClosed = 1
    MaxFaults = 0
    MaxRestarts = 0
PROPERTY ClosedEnds
CHECK_DEADLOCK FALSE
