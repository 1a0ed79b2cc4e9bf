SPECIFICATION Spec
CONSTANTS
    k1 = k1
    k2 = k2
    k3 = k3
    k4 = k4
    k5 = k5
    v1 = v1
    v2 = v2
    None = None
    Keys <- MCKeys
    Vals <- MCVals
    Hash <- MCHash
    InitialSize = 1
    MaxSize = 4
SYMMETRY MCSymmetry
VIEW MCView
INVARIANTS
    WellPlaced
PROPERTIES
    ImplementsMap
    IterationExact
CHECK_DEADLOCK FALSE
