SPECIFICATION Spec
CONSTANTS
    Texts <- TwoTexts
    Terminators <- Closing
    AttributeLists <- WithOrWithoutEncoding
    StackSize = 3
    plain = plain
    closing = closing
    SplitsText = FALSE
    MaxNodes = 4
INVARIANTS
    EachNodeOnce
    EngineEncodingWins
PROPERTIES
    ImplementsTree
CHECK_DEADLOCK FALSE
