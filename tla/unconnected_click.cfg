SPECIFICATION Spec
CONSTANTS
    NULL = NULL
    a = a
    b = b
    v = v
    w = w
    Files <- TwoFiles
    VarRows <- OneRow
    Stacks <- ShallowStacks
    FallOff <- EitherValue
    Refused <- DataRefusals
    EmptyScripts = TRUE
    Patient = FALSE
    MaxClicks = 2
    MaxAccepts = 1
PROPERTIES
    ButtonsNeedConnection
CHECK_DEADLOCK FALSE
