SPECIFICATION Spec
CONSTANTS
    p1 = p1
    p2 = p2
    Callers <- TwoCallers
    MaxU64 = 9
    MaxIndex = 1
    MaxAttempts = 1
    MaxCalls = 3
    FaultKinds <- Transient
INVARIANT HeadReadable
CHECK_DEADLOCK FALSE
