SPECIFICATION MCSpec
CONSTANTS
    i1 = i1
    i2 = i2
    i3 = i3
    i4 = i4
    i5 = i5
    c1 = c1
    c2 = c2
    c3 = c3
    c4 = c4
    c5 = c5
    h1 = h1
    h2 = h2
    h3 = h3
    h4 = h4
    None = None
    Items <- MCItems
    Cells <- MCCells
    TreeKey <- MCTreeKey
    Nodes <- MCNodes
    Key <- MCKey
    Hash <- MCHash
    primes <- MCPrimes
    MaxCount = 6
VIEW MCView
INVARIANTS
    TreeWellFormed
    TableWellPlaced
PROPERTIES
    TreeImplementsSet
    TableImplementsSet
