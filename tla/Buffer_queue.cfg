SPECIFICATION Spec
CONSTANTS
    Byte = {0, 1}
    Junk = 9
    MaxWrite = 2
    START_LEN = 2
    MaxLens <- MCMaxLens
    BlockSizes <- MCBlockSizes
    Memory = 5
INVARIANTS
    Layout
    RefusedOnlyWhenFull
    NewestKept
PROPERTIES
    IsQueue
