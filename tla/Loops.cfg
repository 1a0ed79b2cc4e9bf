SPECIFICATION MCSpec
CONSTANTS
    n1 = n1
    n2 = n2
    n3 = n3
    n4 = n4
    n5 = n5
    n6 = n6
    n7 = n7
    n8 = n8
    None = None
    Nodes <- MCNodes
    Key <- MCKey
    Fds <- MCFds
VIEW MCView
INVARIANTS
    RedBlackButOne
    DescriptorsKept
PROPERTIES
    FixupEnds
    TreeIsSet
    CycleReturns
