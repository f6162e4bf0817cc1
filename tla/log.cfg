SPECIFICATION FairSpec
CONSTANTS
    p1 = p1
    p2 = p2
    Callers <- TwoCallers
    MaxU64 = 9
    MaxIndex = 2
    MaxAttempts = 2
    MaxCalls = 2
    FaultKinds <- AllFaults
INVARIANT TypeOK
INVARIANT AckedStored
INVARIANT OwnRefusalNeedsError
INVARIANT HeadNotStale
INVARIANT AckedReadable
PROPERTY AppendReturns
PROPERTY GetAtReturns
CHECK_DEADLOCK FALSE
