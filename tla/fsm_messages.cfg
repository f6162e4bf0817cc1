SPECIFICATION FairSpec
CONSTANTS
    n1 = n1
    n2 = n2
    n3 = n3
    NoNode = NoNode
    Nodes <- TwoNodes
    HeadIsIndex = TRUE
    MaxMissedHeartbeats = 2
    BatchMinCount = 1
    MaxBatchesPending = 0
    RequestsCapacity = 1
    ResponsesCapacity = 1
    MaxIndex = 2
    MaxInputs = 3
    MaxClosed = 1
    MaxFaults = 0
    MaxRestarts = 0
INVARIANT TypeOK
INVARIANT QueueIsPrefix
INVARIANT AcksNeverAhead
PROPERTY LeaderElected
PROPERTY SilenceNoticed
CHECK_DEADLOCK FALSE
