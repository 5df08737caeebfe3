SPECIFICATION Spec
CONSTANTS
    NumBlocks = 6
    MetaBlocks = 2
    ByteSize = 6
    EntriesPerSector = 3
    MaxFiles = 2
    DiskBlockBuffer = 0
    UIntModulus = 64
    MaxSeekBlocks = 3
    Names <- MCMoreNames
    Empty = none
    none = none
    a = a
    ab = ab
    ac = ac
    PrefixOf <- MCMorePrefixOf
    Handles = {h1, h2}
    NoFile = NoFile
SYMMETRY MoreSymmetry
INVARIANTS ChainsEnd ChainsDisjoint UsedBlocksMarked NoSpaceLost IInv
PROPERTIES OtherFilesKept ImplementsDirectory
CONSTRAINT Sound
