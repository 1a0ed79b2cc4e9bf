SPECIFICATION Spec
CONSTANTS
    Block = 4
    Low = 64
    Word = 4096
    Bytes = {1, 2}
    Pieces <- MCPieces
    MaxMsg = 11
INVARIANTS
    CountsBits
CHECK_DEADLOCK FALSE
