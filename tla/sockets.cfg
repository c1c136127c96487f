\* Two connections, side by side or one after the other.
CONSTANTS
    NULL = NULL
    one = one
    two = two
    Conns = {one, two}
    Size = 1
    MaxCommands = 2

SPECIFICATION FairSpec

INVARIANTS
    OneWatchEach
    WholeCommandsInOrder
    SoleConnectionIsSafe

PROPERTIES
    EveryConnectionServed

\* Both connections may be over, and the program may end.
CHECK_DEADLOCK FALSE
