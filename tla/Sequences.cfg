SPECIFICATION MCSpec
CONSTANTS
    n1 = n1
    n2 = n2
    n3 = n3
    n4 = n4
    n5 = n5
    red = red
    blue = blue
    None = None
    Nodes <- MCNodes
    Names <- MCNames
    Name <- MCName
VIEW MCView
INVARIANTS
    WellLinked
    WalksInOrder
    ContainersIntact
    BlocksSpellMessage
PROPERTIES
    ImplementsForest
    ContainersAreSequences
CHECK_DEADLOCK FALSE
