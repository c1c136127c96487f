SPECIFICATION Spec
CONSTANTS
    NULL = NULL
    e1 = e1
    e2 = e2
    e3 = e3
    e4 = e4
    v = v
    w = w
    Addresses <- FourAddresses
    Values <- TwoValues
INVARIANTS
    WellLinked
PROPERTIES
    ImplementsList
