SPECIFICATION Spec
CONSTANTS
    NULL = NULL
    object = object
    scalar = scalar
    class = class
    first = first
    array = array
    last = last
    one = one
    two = two
    three = three
    TopNames <- Context
    Children <- Members
    Hidden <- ClassNames
    EngineSize = 2
    EngineDepth = 1
    Stored <- FirstStart
    Default <- Defaults
    Typed <- SomeNumbers
    IntLimit = 100
    PortLimit = 100
    SpinLower = 0
    SpinUpper = 0
    MaxEdits = 2
    MaxSessions = 2
    MaxContexts = 2
    MaxFetches = 5
INVARIANTS
    PageCountForAllArrays
CHECK_DEADLOCK FALSE
