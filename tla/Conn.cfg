SPECIFICATION Spec
CONSTANTS
    Lens = {2, 8}
    Timeouts = {1}
    MaxInt = 2
    Capacity = 1
    MaxBytes = 4
    MaxCalls = 2
    MaxSignals = 1
INVARIANTS
    SuccessMeansAll
    WaitBounded
    Framed
PROPERTIES
    CallReturns
CHECK_DEADLOCK FALSE
