SPECIFICATION LiveSpec
CONSTANTS
    CommandSizes = {6, 10, 14}
    JobRefs = {1}
    PaddingSize = 4
    InitialSize = 16
    ui32VirtualAllocSize = 32
    MaxKicks = 2
INVARIANTS
    TypeOK
    FirmwareMeetsHeaders
PROPERTIES
    FifoSpec
    CommandsAreReleased
