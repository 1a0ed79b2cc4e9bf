SPECIFICATION Spec
CONSTANTS
    t1 = t1
    t2 = t2
    n1 = n1
    n2 = n2
    n3 = n3
    n4 = n4
    None = None
    Threads <- MCThreads
    Nodes <- MCNodes
    Key <- MCKeys
    CountMod = 4
    Programs <- MCPrograms
INVARIANTS
    LockBalanced
    ListExact
PROPERTIES
    SortSorts
CHECK_DEADLOCK FALSE
