SPECIFICATION DocumentsSpec
CONSTANTS
    k1 = k1
    k2 = k2
    k3 = k3
    k4 = k4
    v1 = v1
    v2 = v2
    p1 = p1
    p2 = p2
    p3 = p3
    j1 = j1
    j2 = j2
    j3 = j3
    j4 = j4
    None = None
    Keys <- MCKeys
    Vals <- MCVals
    Cells <- MCCells
    Hash <- MCHash
    InitialSize = 1
    Sections <- MCSections
    Names <- MCNames
    Lower <- MCLower
    Nowhere = "(null)"
    Key <- MCKey
SYMMETRY MCSymmetry
VIEW DocumentsView
INVARIANTS
    WellLinked
    ConfExact
    NothingLost
    PrintFits
PROPERTIES
    ImplementsMap
    ForeachExact
    TextKept
    ImplementsItems
CHECK_DEADLOCK FALSE
