SPECIFICATION Spec
CONSTANTS
    NULL = NULL
    a = a
    b = b
    v = v
    w = w
    Files <- TwoFiles
    VarRows <- OneRow
    Stacks <- ShallowStacks
    FallOff <- EitherValue
    Refused <- DataRefusals
    EmptyScripts = TRUE
    Patient = FALSE
    MaxClicks = 2
    MaxAccepts = 2
INVARIANTS
    TypeOK
    PointerInList
    RowsOnlyWhenConnected
    OnePagePerFile
    TidsIncrease
    FetchRowIsShown
    WaitsForAnAnswer
PROPERTIES
    FetchesOnlyNewFiles
CHECK_DEADLOCK FALSE
