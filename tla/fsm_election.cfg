SPECIFICATION Spec
CONSTANTS
    n1 = n1
    n2 = n2
    n3 = n3
    NoNode = NoNode
    Nodes <- ThreeNodes
    HeadIsIndex = TRUE
    MaxMissedHeartbeats = 1
    BatchMinCount = 0
    MaxBatchesPending = 0
    RequestsCapacity = 1
    ResponsesCapacity = 1
    MaxIndex = 1
    MaxInputs = 0
    MaxClosed = 0
    MaxFaults = 3
    MaxRestarts = 2
SYMMETRY Symmetry
INVARIANT LeaderOwnsLog
INVARIANT OneLeader
INVARIANT EntriesDecodable
INVARIANT OrphanOnlyIfDisturbed
PROPERTY ElectionSpec
CHECK_DEADLOCK FALSE
