SPECIFICATION Spec
CONSTANTS
    NULL = NULL
    page1 = page1
    page2 = page2
    page3 = page3
    page4 = page4
    Keys <- FourKeys
    Values <- FourPages
    Slots = 2
    Slot <- Collisions
    HasDtor = TRUE
INVARIANTS
    NoneDestroyedInUse
PROPERTIES
    ImplementsMap
CHECK_DEADLOCK FALSE
