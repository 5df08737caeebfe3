SPECIFICATION Spec
CONSTANTS
    Bytes <- MCBytes
    Data <- MCData
    Counts = {1, 3}
    Offsets <- MCOffsets
    MaxLength = 3
    IntBound = 3
    Closed = Closed
CHECK_DEADLOCK FALSE
INVARIANTS GuardInv NeverMZ RefusedRightly
