SPECIFICATION FairSpec
CONSTANTS
    p1 = p1
    p2 = p2
    NoCaller = NoCaller
    Callers <- TwoCallers
    Capacity = 1
    MaxCalls = 3
    MaxConnects = 2
INVARIANT TypeOK
INVARIANT OneConnection
INVARIANT InflightOwned
INVARIANT ClosedForGood
INVARIANT SmallHandshakeStuck
PROPERTY CallsReturn
PROPERTY DeadForGood
PROPERTY StaleReadyStays
CHECK_DEADLOCK FALSE
