SPECIFICATION FairSpec
CONSTANTS
    NULL = NULL
    a = a
    b = b
    v = v
    w = w
    Files <- TwoFiles
    VarRows <- TwoRows
    Stacks <- ShallowStacks
    FallOff <- EitherValue
    Refused <- SomeRefusals
    EmptyScripts = FALSE
    Patient = TRUE
    MaxClicks = 3
    MaxAccepts = 2
INVARIANTS
    LockStep
    HandlerGetsItsReply
    ViewsAgree
    OneArrowPerSession
    SessionConfigured
    PageShowsItsFile
    KidsUnderTheirParent
    NoCrash
PROPERTIES
    AlternatesRequests
    ComesToRest
CHECK_DEADLOCK FALSE
