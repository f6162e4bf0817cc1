SPECIFICATION FairSpec
CONSTANTS
    p1 = p1
    p2 = p2
    Closers <- TwoClosers
    MaxServes = 2
    MaxConns = 1
INVARIANT OneServing
INVARIANT ClosedForGood
INVARIANT OrphansExplained
INVARIANT RebindFutile
PROPERTY StartFailsForGood
PROPERTY CloseEnds
CHECK_DEADLOCK FALSE
