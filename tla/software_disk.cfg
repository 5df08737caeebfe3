SPECIFICATION Spec
CONSTANTS
    NumBlocks = 4
    Data <- MCData
    Zero = 0
    Buffered = 1
    NoDisk = NoDisk
CHECK_DEADLOCK FALSE
INVARIANT DiskInv
PROPERTY ImplementsDevice
