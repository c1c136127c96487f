SPECIFICATION FairSpec
CONSTANTS
    Sizes <- FittingSizes
    Digits = 2
    BufSize = 8
    CutsFrames = FALSE
    Pipelined = FALSE
    MaxDocs = 3
    MaxConnections = 2
PROPERTIES
    DeliversDocuments
    EveryDocumentArrives
CHECK_DEADLOCK FALSE
