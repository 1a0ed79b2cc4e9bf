SPECIFICATION Spec
CONSTANTS
    t1 = t1
    t2 = t2
    n1 = n1
    n2 = n2
    n3 = n3
    n4 = n4
    None = None
    Threads <- MCThreads
    Nodes <- MCTwo
    Key <- MCTwoKeys
    CountMod = 4
    Programs <- MCRemovers
PROPERTIES
    RemoveReturns
CHECK_DEADLOCK FALSE
