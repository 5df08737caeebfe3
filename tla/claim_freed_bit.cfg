SPECIFICATION Spec
CONSTANTS
    NumBlocks = 8
    MetaBlocks = 2
    ByteSize = 4
    EntriesPerSector = 5
    MaxFiles = 2
    DiskBlockBuffer = 1
    UIntModulus = 64
    MaxSeekBlocks = 3
    Names <- MCNames
    Empty = none
    none = none
    a = a
    ab = ab
    ac = ac
    PrefixOf <- MCPrefixOf
    Handles = {h1}
    NoFile = NoFile
CONSTRAINT NoFaultYet
CHECK_DEADLOCK FALSE
INVARIANT FreedBitCleared
