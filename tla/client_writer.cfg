SPECIFICATION Spec
CONSTANTS
    p1 = p1
    p2 = p2
    NoCaller = NoCaller
    Callers <- TwoCallers
    Capacity = 2
    MaxCalls = 3
    MaxConnects = 1
INVARIANT ReaderClearsUp
CHECK_DEADLOCK FALSE
