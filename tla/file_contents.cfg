SPECIFICATION Spec
CONSTANTS
    Files = {f1, f2}
    NumBlocks = 6
    MetaBlocks = 2
    BlockSize = 2
    ByteSize = 5
    DiskBlockBuffer = 0
    MaxLength = 4
    UIntModulus = 64
    Bytes = {0, 1}
    Data <- MCData
    Counts = {0, 3}
    Positions = {0, 3}
    Closed = Closed
    Hole = Hole
    Lost = Lost
SYMMETRY FileSymmetry
CHECK_DEADLOCK FALSE
INVARIANTS FileInv Covered ReadsBack LengthRight
PROPERTY OthersKept
