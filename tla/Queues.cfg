SPECIFICATION MCSpec
CONSTANTS
    t1 = t1
    t2 = t2
    n1 = n1
    n2 = n2
    n3 = n3
    None = None
    Threads <- MCThreads
    Nodes <- MCNodes
    MaxLen = 3
    CountMod = 8
INVARIANTS
    MutualExclusion
    CountExact
    NodesConserved
    StackKept
PROPERTIES
    ImplementsFifo
    NoDeadlock
    StackImplementsLifo
CHECK_DEADLOCK FALSE
