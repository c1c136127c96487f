SPECIFICATION Spec
CONSTANTS
    Sizes <- AnySizes
    Digits = 1
    BufSize = 4
    CutsFrames = TRUE
    Pipelined = TRUE
    MaxDocs = 3
    MaxConnections = 2
INVARIANTS
    HandedInOrder
    NoLeftovers
CHECK_DEADLOCK FALSE
