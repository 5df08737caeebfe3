SPECIFICATION FairSpec
CONSTANTS
    NumBlocks = 6
    MetaBlocks = 2
    ByteSize = 3
    EntriesPerSector = 3
    MaxFiles = 2
    DiskBlockBuffer = 1
    UIntModulus = 64
    MaxSeekBlocks = 2
    Names <- MCNames
    Empty = none
    none = none
    a = a
    ab = ab
    ac = ac
    PrefixOf <- MCPrefixOf
    Handles = {h1}
    NoFile = NoFile
CHECK_DEADLOCK FALSE
INVARIANTS TypeOK HandlesBacked NamesUnique
PROPERTIES CallsReturn ImplementsDirectory
