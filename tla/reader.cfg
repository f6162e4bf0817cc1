SPECIFICATION Spec
CONSTANTS
    U32 = 6
    MaxMessageSize = 2
    InitialBuffer = 1
    Bytes <- TwoBytes
    MaxLength = 3
    MaxFrames = 3
INVARIANT InStep
INVARIANT ResponsesGarbled
CHECK_DEADLOCK FALSE
