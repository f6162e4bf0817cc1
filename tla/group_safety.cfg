SPECIFICATION Spec
CONSTANTS
    n1 = n1
    n2 = n2
    Nodes <- TwoNodes
    Capacity = 1
    MaxStarts = 2
    MaxResponses = 3
SYMMETRY Symmetry
INVARIANT Quiet
INVARIANT ResponsesInOrder
INVARIANT FirstLost
PROPERTY NoReturn
CHECK_DEADLOCK FALSE
